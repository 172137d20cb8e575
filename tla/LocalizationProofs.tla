-------------------------- MODULE LocalizationProofs --------------------------
(* Theorems about Localization, for any rows, source texts, jobs, workers    *)
(* and users.                                                                *)
EXTENDS Localization, TLAPS

(* The fence of a content transaction keeps its job from being leased      *)
(* again while the transaction is open.                                    *)
StoringOwns == \A w \in Translators : pc[w] = "storing" => owner[doing[w]] = w

(* While nothing stops or pauses, a worker that has a job has its claim.   *)
ClaimsLast == used.stops = 0 => \A w \in Translators : doing[w] # NoText => HoldsClaim(w)

IInv == TextsTypeOK /\ CurrentMatchesSource /\ StoringOwns /\ ClaimsLast /\ PublishedIsFresh

-----------------------------------------------------------------------------
(* Types.                                                                  *)

LEMMA GotoType ==
  ASSUME TextsTypeOK, NEW a \in Actors, NEW next \in TextPc, TextGoto(a, next)
  PROVE  /\ pc' \in [Actors -> TextPc] /\ pc'[a] = next
         /\ \A b \in Actors \ {a} : pc'[b] = pc[b]
BY DEF TextsTypeOK, TextGoto

(* An actor that goes on with what it does, and changes no job.            *)
LEMMA GoOnType ==
  ASSUME TextsTypeOK, NEW a \in Actors, NEW next \in TextPc, TextGoto(a, next),
         a \in Translators => pc[a] # "idle" /\ next # "idle",
         UNCHANGED <<source, jobVars, doing>>,
         row' \in [Rows -> RowRecords],
         cached' \in SUBSET [Rows -> Sources],
         found' \in [Actors -> [Rows -> Sources]],
         plan' \in [Actors -> [Rows -> Changes]],
         todo' \in [Actors -> [Rows -> Sources]],
         tally' \in [Actors -> [stored : BOOLEAN, failed : BOOLEAN]],
         used' \in [edits : 0..MaxEdits, saves : 0..MaxSaves, stops : 0..MaxStops]
  PROVE  TextsTypeOK'
BY GotoType DEF TextsTypeOK, jobVars, Actors

LEMMA ForgetType ==
  ASSUME TextsTypeOK, NEW a \in Actors, Forget(a), UNCHANGED <<source, row, cached>>,
         jobStatus' \in [TextJobs -> JobStatus],
         owner' \in [TextJobs -> Translators \cup {NoText}],
         lapsed' \in [TextJobs -> BOOLEAN],
         used' \in [edits : 0..MaxEdits, saves : 0..MaxSaves, stops : 0..MaxStops]
  PROVE  TextsTypeOK'
<1>1. "idle" \in TextPc /\ NoTodo \in [Rows -> Sources] /\ NoPlan \in [Rows -> Changes]
      /\ NoTally \in [stored : BOOLEAN, failed : BOOLEAN]
  BY DEF TextPc, NoTodo, Sources, NoPlan, Keep, Changes, NoTally
<1>2. /\ pc' \in [Actors -> TextPc] /\ pc'[a] = "idle"
      /\ \A b \in Actors \ {a} : pc'[b] = pc[b]
  BY <1>1, GotoType DEF Forget
<1>3. doing' \in [Actors -> TextJobs \cup {NoText}] /\ doing'[a] = NoText
      /\ \A b \in Actors \ {a} : doing'[b] = doing[b]
  BY DEF Forget, TextsTypeOK
<1>4. /\ found' \in [Actors -> [Rows -> Sources]] /\ plan' \in [Actors -> [Rows -> Changes]]
      /\ todo' \in [Actors -> [Rows -> Sources]]
      /\ tally' \in [Actors -> [stored : BOOLEAN, failed : BOOLEAN]]
  BY <1>1 DEF Forget, TextsTypeOK
<1> QED
  BY <1>2, <1>3, <1>4 DEF TextsTypeOK, Actors

LEMMA StopsType ==
  ASSUME TextsTypeOK, used' = used \/ (used.stops < MaxStops /\ used' = [used EXCEPT !.stops = @ + 1])
  PROVE  used' \in [edits : 0..MaxEdits, saves : 0..MaxSaves, stops : 0..MaxStops]
<1>1. used \in [edits : 0..MaxEdits, saves : 0..MaxSaves, stops : 0..MaxStops]
  BY DEF TextsTypeOK
<1>2. used.stops < MaxStops => used.stops + 1 \in 0..MaxStops
  BY <1>1, TextBoundsAssumption
<1> QED
  BY <1>1, <1>2

LEMMA SavesType ==
  ASSUME TextsTypeOK, used.saves < MaxSaves, used' = [used EXCEPT !.saves = @ + 1]
  PROVE  used' \in [edits : 0..MaxEdits, saves : 0..MaxSaves, stops : 0..MaxStops]
<1>1. used \in [edits : 0..MaxEdits, saves : 0..MaxSaves, stops : 0..MaxStops]
  BY DEF TextsTypeOK
<1>2. used.saves + 1 \in 0..MaxSaves
  BY <1>1, TextBoundsAssumption
<1> QED
  BY <1>1, <1>2

LEMMA ShownType == TextsTypeOK => Shown \in [Rows -> Sources]
BY DEF TextsTypeOK, Shown, RowRecords, Sources

LEMMA ReconcileType ==
  ASSUME TextsTypeOK, NEW a \in Actors, Reconcile(a)
  PROVE  TextsTypeOK'
<1>0. /\ ReconcilePc \cup {"select", "idle"} \subseteq TextPc
      /\ AfterReconcile(a) \in {"select", "idle"} /\ (a \in Translators => AfterReconcile(a) = "select")
  BY DEF TextPc, WorkerPc, AfterReconcile
<1>1. CASE DiscoverAllProjectStrings(a)
  <2>1. found' \in [Actors -> [Rows -> Sources]]
    BY <1>1 DEF DiscoverAllProjectStrings, TextsTypeOK
  <2> QED
    BY <1>0, <1>1, <2>1, GoOnType DEF DiscoverAllProjectStrings, TextsTypeOK, ReconcilePc, jobVars
<1>2. CASE BuildProjectTranslationReconciliation(a)
  <2>1. [r \in Rows |-> Change(r, found[a][r])] \in [Rows -> Changes]
    BY DEF TextsTypeOK, Change, Changes, Keep, Sources, RowRecords
  <2>2. NoTodo \in [Rows -> Sources]
    BY DEF NoTodo, Sources
  <2>3. plan' \in [Actors -> [Rows -> Changes]] /\ found' \in [Actors -> [Rows -> Sources]]
    BY <1>2, <2>1, <2>2 DEF BuildProjectTranslationReconciliation, TextsTypeOK
  <2>4. PICK next \in ReconcilePc \cup {"select", "idle"} :
          TextGoto(a, next) /\ (a \in Translators => next # "idle")
    BY <1>0, <1>2 DEF BuildProjectTranslationReconciliation, ReconcilePc
  <2> QED
    BY <1>0, <1>2, <2>3, <2>4, GoOnType DEF BuildProjectTranslationReconciliation, TextsTypeOK, jobVars
<1>3. CASE ReserveReconcile(a)
  BY <1>0, <1>3, GoOnType DEF ReserveReconcile, IncrementVersion, TextsTypeOK, ReconcilePc, jobVars, localVars
<1>4. CASE \E r \in Rows : ApplyReconciledEntry(a, r)
  <2>1. PICK r \in Rows : ApplyReconciledEntry(a, r)
    BY <1>4
  <2>2. Reconciled(row[r], plan[a][r]) \in RowRecords
    <3> DEFINE status == IF row[r].hash = NoHash THEN "missing"
                         ELSE IF row[r].hash = plan[a][r].hash THEN row[r].status ELSE "outdated"
    <3>1. row[r] \in RowRecords /\ plan[a][r] \in Changes
      BY DEF TextsTypeOK
    <3>2. status \in {"missing", "current", "outdated", "failed"}
      BY <3>1 DEF RowRecords
    <3>3. Reconciled(row[r], plan[a][r]) =
            [row[r] EXCEPT !.hash = plan[a][r].hash, !.active = plan[a][r].active, !.status = status]
      BY <3>1 DEF Reconciled, RowRecords
    <3> HIDE DEF status
    <3> QED
      BY <3>1, <3>2, <3>3 DEF RowRecords, Changes
  <2>3. row' \in [Rows -> RowRecords]
    BY <2>1, <2>2 DEF ApplyReconciledEntry, TextsTypeOK
  <2>4. Keep \in Changes
    BY DEF Keep, Changes, Sources
  <2>5. plan' \in [Actors -> [Rows -> Changes]]
    BY <2>1, <2>4 DEF ApplyReconciledEntry, TextsTypeOK
  <2>6. PICK next \in {"apply", "announce"} : TextGoto(a, next)
    BY <2>1 DEF ApplyReconciledEntry
  <2> QED
    BY <1>0, <2>1, <2>3, <2>5, <2>6, GoOnType DEF ApplyReconciledEntry, TextsTypeOK, ReconcilePc, jobVars
<1>5. CASE AnnounceReconcile(a)
  BY <1>0, <1>5, GoOnType DEF AnnounceReconcile, IncrementVersion, TextsTypeOK, jobVars, localVars
<1> QED
  BY <1>1, <1>2, <1>3, <1>4, <1>5 DEF Reconcile

LEMMA RequestType ==
  ASSUME TextsTypeOK, NEW u \in Users, Request(u)
  PROVE  TextsTypeOK'
<1>0. u \in Actors /\ u \notin Translators /\ {"discover", "idle"} \cup SavePc \subseteq TextPc
  BY ActorsAssumption DEF Actors, TextPc, ReconcilePc
<1>1. CASE StartReconcile(u)
  BY <1>0, <1>1, SavesType, GoOnType DEF StartReconcile, TextsTypeOK, jobVars, localVars
<1>2. CASE \E r \in Rows : GetTranslation(u, r)
  <2>1. PICK r \in Rows : GetTranslation(u, r)
    BY <1>2
  <2>2. todo' \in [Actors -> [Rows -> Sources]]
    BY <1>0, <2>1 DEF GetTranslation, TextsTypeOK, RowRecords
  <2>3. "reserveSave" \in TextPc
    BY <1>0 DEF SavePc
  <2> QED
    BY <1>0, <2>1, <2>2, <2>3, SavesType, GoOnType DEF GetTranslation, TextsTypeOK, jobVars
<1>3. CASE ReserveSave(u)
  BY <1>0, <1>3, GoOnType DEF ReserveSave, IncrementVersion, TextsTypeOK, SavePc, jobVars, localVars
<1>4. CASE UpsertManualTranslation(u)
  <2> DEFINE saved(r) == [hash |-> todo[u][r], text |-> todo[u][r], active |-> TRUE,
                          origin |-> "manual", status |-> "current"]
  <2>4. \A r \in Rows : saved(r) \in RowRecords
    BY <1>0 DEF TextsTypeOK, RowRecords
  <2>1. row' \in [Rows -> RowRecords]
    <3>1. row' = [r \in Rows |-> IF todo[u][r] = NoHash THEN row[r] ELSE saved(r)]
      BY <1>4 DEF UpsertManualTranslation
    <3> QED
      BY <2>4, <3>1 DEF TextsTypeOK
  <2>2. NoTodo \in [Rows -> Sources]
    BY DEF NoTodo, Sources
  <2>3. todo' \in [Actors -> [Rows -> Sources]]
    BY <1>4, <2>2 DEF UpsertManualTranslation, TextsTypeOK
  <2> QED
    BY <1>0, <1>4, <2>1, <2>3, GoOnType DEF UpsertManualTranslation, TextsTypeOK, SavePc, jobVars
<1>5. CASE AnnounceSave(u)
  BY <1>0, <1>5, GoOnType DEF AnnounceSave, IncrementVersion, TextsTypeOK, jobVars, localVars
<1> QED
  BY <1>1, <1>2, <1>3, <1>4, <1>5 DEF Request

(* The row that a transaction leaves.                                      *)
Outcome(w, r, outcome) ==
  LET writable == Writable(row[r], todo[w][r]) IN
  CASE writable /\ outcome \in {"stored", "unacknowledged"} ->
         [row[r] EXCEPT !.text = todo[w][r], !.origin = "ai", !.status = "current"]
    [] writable /\ outcome = "marked" -> [row[r] EXCEPT !.status = "failed"]
    [] OTHER -> row[r]

LEMMA CommitFields ==
  ASSUME TextsTypeOK, NEW w \in Translators, NEW r \in Rows, CommitWrite(w, r)
  PROVE  /\ \E outcome \in {"stored", "unacknowledged", "marked", "unmarked"} :
              /\ row' = [row EXCEPT ![r] = Outcome(w, r, outcome)]
              /\ tally'[w].stored = (tally[w].stored \/ (Writable(row[r], todo[w][r]) /\ outcome = "stored"))
              /\ outcome = "unacknowledged" => used'.stops = used.stops + 1
         /\ used' = used \/ (used.stops < MaxStops /\ used' = [used EXCEPT !.stops = @ + 1])
         /\ \A a \in Actors \ {w} : tally'[a] = tally[a]
         /\ tally' \in [Actors -> [stored : BOOLEAN, failed : BOOLEAN]]
         /\ todo' \in [Actors -> [Rows -> Sources]]
         /\ \E next \in {"translate", "publish", "finish"} :
              TextGoto(w, next) /\ (next = "finish" => ~tally'[w].stored)
<1>0. w \in Actors
  BY DEF Actors
<1>1. PICK outcome \in {"stored", "unacknowledged", "marked", "unmarked"} :
        /\ row' = [row EXCEPT ![r] =
                      CASE Writable(row[r], todo[w][r]) /\ outcome \in {"stored", "unacknowledged"} ->
                             [@ EXCEPT !.text = todo[w][r], !.origin = "ai", !.status = "current"]
                        [] Writable(row[r], todo[w][r]) /\ outcome = "marked" -> [@ EXCEPT !.status = "failed"]
                        [] OTHER -> @]
        /\ tally' = [tally EXCEPT ![w] =
                       [stored |-> @.stored \/ (Writable(row[r], todo[w][r]) /\ outcome = "stored"),
                        failed |-> @.failed \/ outcome # "stored"]]
        /\ IF outcome = "unacknowledged"
             THEN used.stops < MaxStops /\ used' = [used EXCEPT !.stops = @ + 1]
             ELSE UNCHANGED used
  BY DEF CommitWrite
<1>2. row' = [row EXCEPT ![r] = Outcome(w, r, outcome)]
  BY <1>1 DEF Outcome, TextsTypeOK
<1> DEFINE stored == tally[w].stored \/ (Writable(row[r], todo[w][r]) /\ outcome = "stored")
           failed == tally[w].failed \/ outcome # "stored"
<1>3. tally' = [tally EXCEPT ![w] = [stored |-> stored, failed |-> failed]]
  BY <1>0, <1>1 DEF TextsTypeOK
<1>4. stored \in BOOLEAN /\ failed \in BOOLEAN
  BY <1>0 DEF TextsTypeOK
<1> HIDE DEF stored, failed
<1>5. /\ tally'[w].stored = stored
      /\ \A a \in Actors \ {w} : tally'[a] = tally[a]
      /\ tally' \in [Actors -> [stored : BOOLEAN, failed : BOOLEAN]]
  BY <1>0, <1>3, <1>4 DEF TextsTypeOK
<1>6. used' = used \/ (used.stops < MaxStops /\ used' = [used EXCEPT !.stops = @ + 1])
  BY <1>1
<1>7. outcome = "unacknowledged" => used'.stops = used.stops + 1
  BY <1>1 DEF TextsTypeOK
<1>8. todo' \in [Actors -> [Rows -> Sources]]
  BY <1>0 DEF CommitWrite, TextsTypeOK, Sources
<1>9. \E next \in {"translate", "publish", "finish"} :
        TextGoto(w, next) /\ (next = "finish" => ~tally'[w].stored)
  BY DEF CommitWrite
<1> QED
  BY <1>2, <1>5, <1>6, <1>7, <1>8, <1>9 DEF stored, failed

LEMMA WorkType ==
  ASSUME TextsTypeOK, NEW w \in Translators, Work(w) \/ PublishFails(w) \/ CompleteJobWithError(w)
  PROVE  TextsTypeOK'
<1>0. w \in Actors /\ ReconcilePc \cup WorkerPc \subseteq TextPc
  BY DEF Actors, TextPc
<1>1. CASE \E j \in TextJobs : LeaseNextJob(w, j)
  <2>1. PICK j \in TextJobs : LeaseNextJob(w, j)
    BY <1>1
  <2>2. /\ pc' \in [Actors -> TextPc] /\ pc'[w] = "discover"
        /\ \A b \in Actors \ {w} : pc'[b] = pc[b]
    BY <1>0, <2>1, GotoType DEF LeaseNextJob, ReconcilePc
  <2>3. /\ doing' \in [Actors -> TextJobs \cup {NoText}] /\ doing'[w] = j
        /\ \A b \in Actors \ {w} : doing'[b] = doing[b]
    BY <1>0, <2>1 DEF LeaseNextJob, TextsTypeOK
  <2>4. /\ jobStatus' \in [TextJobs -> JobStatus] /\ owner' \in [TextJobs -> Translators \cup {NoText}]
        /\ lapsed' \in [TextJobs -> BOOLEAN]
    BY <2>1 DEF LeaseNextJob, TextsTypeOK, JobStatus
  <2> QED
    BY <2>1, <2>2, <2>3, <2>4, NoTextAssumption DEF LeaseNextJob, TextsTypeOK, Actors
<1>2. CASE Reconcile(w)
  BY <1>0, <1>2, ReconcileType
<1>3. CASE SelectEntries(w)
  <2>1. [r \in Rows |-> IF Selectable(row[r]) THEN row[r].hash ELSE NoHash] \in [Rows -> Sources]
    BY DEF TextsTypeOK, RowRecords, Sources
  <2>2. todo' \in [Actors -> [Rows -> Sources]]
    BY <1>0, <1>3, <2>1 DEF SelectEntries, TextsTypeOK
  <2>3. PICK next \in {"finish", "prepare"} : TextGoto(w, next)
    BY <1>3 DEF SelectEntries
  <2> QED
    BY <1>0, <1>3, <2>2, <2>3, GoOnType DEF SelectEntries, TextsTypeOK, WorkerPc, jobVars
<1>4. CASE ClaimLost(w)
  BY <1>0, <1>4, ForgetType DEF ClaimLost, TextsTypeOK, jobVars
<1>5. CASE ReserveGenerated(w)
  BY <1>0, <1>5, GoOnType DEF ReserveGenerated, IncrementVersion, TextsTypeOK, WorkerPc, jobVars, localVars
<1>6. CASE BeginWrite(w)
  <2>1. CASE HoldsClaim(w)
    BY <1>0, <1>6, <2>1, GoOnType DEF BeginWrite, TextsTypeOK, WorkerPc, jobVars, localVars
  <2>2. CASE ~HoldsClaim(w)
    BY <1>0, <1>6, <2>2, ForgetType DEF BeginWrite, TextsTypeOK, jobVars
  <2> QED
    BY <2>1, <2>2
<1>7. CASE \E r \in Rows : CommitWrite(w, r)
  <2>1. PICK r \in Rows : CommitWrite(w, r)
    BY <1>7
  <2>2. \A outcome : Outcome(w, r, outcome) \in RowRecords
    <3>1. row[r] \in RowRecords /\ todo[w][r] \in Sources
      BY <1>0 DEF TextsTypeOK
    <3> HIDE DEF Writable
    <3> QED
      BY <3>1 DEF Outcome, RowRecords
  <2>3. row' \in [Rows -> RowRecords]
    <3>1. PICK outcome : row' = [row EXCEPT ![r] = Outcome(w, r, outcome)]
      BY <2>1, CommitFields
    <3> QED
      BY <2>2, <3>1 DEF TextsTypeOK
  <2>4. PICK next \in {"translate", "publish", "finish"} : TextGoto(w, next)
    BY <2>1, CommitFields
  <2>5. UNCHANGED <<source, jobVars, doing, cached, found, plan>> /\ pc[w] # "idle"
    BY <2>1 DEF CommitWrite, jobVars
  <2>6. cached' \in SUBSET [Rows -> Sources] /\ found' \in [Actors -> [Rows -> Sources]]
        /\ plan' \in [Actors -> [Rows -> Changes]]
    BY <2>5 DEF TextsTypeOK
  <2>7. /\ tally' \in [Actors -> [stored : BOOLEAN, failed : BOOLEAN]]
        /\ todo' \in [Actors -> [Rows -> Sources]]
        /\ used' \in [edits : 0..MaxEdits, saves : 0..MaxSaves, stops : 0..MaxStops]
    BY <2>1, CommitFields, StopsType
  <2>8. next \in TextPc /\ next # "idle"
    BY <1>0 DEF WorkerPc
  <2> QED
    BY <1>0, <2>3, <2>4, <2>5, <2>6, <2>7, <2>8, GoOnType
<1>8. CASE PublishGenerated(w)
  BY <1>0, <1>8, GoOnType DEF PublishGenerated, IncrementVersion, TextsTypeOK, WorkerPc, jobVars, localVars
<1>9. CASE PublishFails(w)
  <2>1. tally' \in [Actors -> [stored : BOOLEAN, failed : BOOLEAN]]
    BY <1>0, <1>9 DEF PublishFails, TextsTypeOK
  <2> QED
    BY <1>0, <1>9, <2>1, StopsType, GoOnType DEF PublishFails, TextsTypeOK, WorkerPc, jobVars
<1>10. CASE CompleteJob(w) \/ CompleteJobWithError(w)
  <2>1. PICK result \in {"completed", "failed"} : Complete(w, result)
    BY <1>10 DEF CompleteJob, CompleteJobWithError
  <2>2. used' \in [edits : 0..MaxEdits, saves : 0..MaxSaves, stops : 0..MaxStops]
    BY <1>10, StopsType DEF CompleteJob, CompleteJobWithError
  <2>3. /\ jobStatus' \in [TextJobs -> JobStatus] /\ owner' \in [TextJobs -> Translators \cup {NoText}]
        /\ lapsed' \in [TextJobs -> BOOLEAN]
    BY <2>1 DEF Complete, TextsTypeOK, JobStatus
  <2> QED
    BY <1>0, <2>1, <2>2, <2>3, ForgetType DEF Complete
<1> QED
  BY <1>1, <1>2, <1>3, <1>4, <1>5, <1>6, <1>7, <1>8, <1>9, <1>10 DEF Work, ProcessProjectTranslationJob

LEMMA TypeStep == TextsTypeOK /\ [TextsNext]_textVars => TextsTypeOK'
<1> SUFFICES ASSUME TextsTypeOK, [TextsNext]_textVars
             PROVE  TextsTypeOK'
  OBVIOUS
<1>1. CASE \E r \in Rows, h \in Sources : EditSource(r, h)
  <2>1. PICK r \in Rows, h \in Sources : EditSource(r, h)
    BY <1>1
  <2>2. used' \in [edits : 0..MaxEdits, saves : 0..MaxSaves, stops : 0..MaxStops]
    <3>1. used \in [edits : 0..MaxEdits, saves : 0..MaxSaves, stops : 0..MaxStops]
      BY DEF TextsTypeOK
    <3>2. used.edits + 1 \in 0..MaxEdits
      BY <2>1, <3>1, TextBoundsAssumption DEF EditSource
    <3> QED
      BY <2>1, <3>1, <3>2 DEF EditSource
  <2> QED
    BY <2>1, <2>2 DEF EditSource, TextsTypeOK, jobVars, localVars
<1>2. CASE Fetch
  BY <1>2, ShownType DEF Fetch, TextsTypeOK, jobVars, localVars
<1>3. CASE \E u \in Users : Request(u) \/ Reconcile(u)
  BY <1>3, RequestType, ReconcileType DEF Actors
<1>4. CASE \E j \in TextJobs : QueueProjectTranslationJob(j) \/ TextLeaseLapse(j)
  <2>1. PICK j \in TextJobs : QueueProjectTranslationJob(j) \/ TextLeaseLapse(j)
    BY <1>4
  <2>2. CASE QueueProjectTranslationJob(j)
    BY <2>2 DEF QueueProjectTranslationJob, TextsTypeOK, JobStatus, localVars
  <2>3. CASE TextLeaseLapse(j)
    <3>1. used' \in [edits : 0..MaxEdits, saves : 0..MaxSaves, stops : 0..MaxStops]
      BY <2>3, StopsType DEF TextLeaseLapse
    <3> QED
      BY <2>3, <3>1 DEF TextLeaseLapse, TextsTypeOK, localVars
  <2> QED
    BY <2>1, <2>2, <2>3
<1>5. CASE \E w \in Translators : Work(w) \/ PublishFails(w) \/ CompleteJobWithError(w)
  BY <1>5, WorkType
<1>6. CASE \E a \in Actors : Stop(a)
  <2>1. PICK a \in Actors : Stop(a)
    BY <1>6
  <2>2. used' \in [edits : 0..MaxEdits, saves : 0..MaxSaves, stops : 0..MaxStops]
    BY <2>1, StopsType DEF Stop
  <2> QED
    BY <2>1, <2>2, ForgetType DEF Stop, TextsTypeOK, jobVars
<1>7. CASE UNCHANGED textVars
  BY <1>7 DEF textVars, jobVars, localVars, TextsTypeOK
<1> QED
  BY <1>1, <1>2, <1>3, <1>4, <1>5, <1>6, <1>7 DEF TextsNext

-----------------------------------------------------------------------------
(* The steps, by what they do to the rows, the claims and the cache.       *)

(* A row keeps its text and is not made current, is saved by a user, or    *)
(* takes the translation of a worker.                                      *)
Kept(r) ==
  /\ row'[r].text = row[r].text /\ row'[r].origin = row[r].origin
  /\ row'[r].status = "current" => row[r].status = "current" /\ row'[r].hash = row[r].hash
Saved(r) ==
  /\ row'[r].text = row'[r].hash /\ row'[r].origin = "manual"
  /\ \E u \in Users : pc[u] = "save" /\ todo[u][r] # NoHash
Stored(r) ==
  /\ row'[r].text = row'[r].hash /\ row[r].origin # "manual"
  /\ \E w \in Translators : pc[w] = "storing" /\ pc'[w] # "storing" /\ todo[w][r] = row'[r].text

RowsMove == \A r \in Rows : Kept(r) \/ Saved(r) \/ Stored(r)

(* Actor a alone moves: it begins a write only with its claim, and may     *)
(* forget its job.                                                         *)
ActorMoves(a) ==
  /\ UNCHANGED jobVars
  /\ \A b \in Actors \ {a} : pc'[b] = pc[b] /\ doing'[b] = doing[b] /\ tally'[b] = tally[b]
  /\ doing'[a] \in {doing[a], NoText}
  /\ pc'[a] = "storing" => HoldsClaim(a) /\ doing'[a] = doing[a]
  /\ used'.stops = 0 => used.stops = 0

(* A step that changes what is shown leaves the actor with an increment to *)
(* make, until the version is incremented.                                 *)
Publishes(a) ==
  \/ cached' = {}
  \/ used'.stops # 0
  \/ /\ cached' = cached
     /\ OwesIncrement(a) => OwesIncrement(a)'
     /\ Shown' = Shown \/ OwesIncrement(a)'

ActorStep(a) == RowsMove /\ ActorMoves(a) /\ Publishes(a)

LEMMA RowsKept == UNCHANGED row => RowsMove /\ Shown' = Shown
BY DEF RowsMove, Kept, Shown

LEMMA GotoFields ==
  ASSUME TextsTypeOK, NEW a \in Actors, NEW next, TextGoto(a, next)
  PROVE  pc'[a] = next /\ \A b \in Actors \ {a} : pc'[b] = pc[b]
BY DEF TextsTypeOK, TextGoto

LEMMA ForgetFields ==
  ASSUME TextsTypeOK, NEW a \in Actors, Forget(a)
  PROVE  /\ pc'[a] = "idle" /\ doing'[a] = NoText
         /\ \A b \in Actors \ {a} : pc'[b] = pc[b] /\ doing'[b] = doing[b] /\ tally'[b] = tally[b]
BY DEF TextsTypeOK, Forget, TextGoto

LEMMA UsedStops ==
  ASSUME TextsTypeOK, used'.stops \in {used.stops, used.stops + 1}
  PROVE  used'.stops = 0 => used.stops = 0
BY DEF TextsTypeOK

(* A step that ends on no increment and changes no row.                    *)
LEMMA QuietMove ==
  ASSUME TextsTypeOK, NEW a \in Actors, NEW next, TextGoto(a, next), next # "storing",
         UNCHANGED <<row, jobVars, doing, tally>>, used'.stops = used.stops,
         cached' = {} \/ (cached' = cached /\ ~OwesIncrement(a))
  PROVE  ActorStep(a)
<1>1. pc'[a] = next /\ \A b \in Actors \ {a} : pc'[b] = pc[b]
  BY GotoFields
<1>2. ActorMoves(a)
  BY <1>1 DEF ActorMoves
<1>3. RowsMove /\ Publishes(a)
  BY RowsKept DEF Publishes
<1> QED
  BY <1>2, <1>3 DEF ActorStep

LEMMA ReconcileStep ==
  ASSUME TextsTypeOK, NEW a \in Actors, Reconcile(a)
  PROVE  ActorStep(a)
<1>0. AfterReconcile(a) \in {"select", "idle"}
  BY DEF AfterReconcile
<1>1. CASE DiscoverAllProjectStrings(a)
  BY <1>1, QuietMove DEF DiscoverAllProjectStrings, OwesIncrement
<1>2. CASE BuildProjectTranslationReconciliation(a)
  BY <1>0, <1>2, QuietMove DEF BuildProjectTranslationReconciliation, OwesIncrement
<1>3. CASE ReserveReconcile(a)
  BY <1>3, QuietMove DEF ReserveReconcile, IncrementVersion, localVars
<1>4. CASE \E r \in Rows : ApplyReconciledEntry(a, r)
  <2>1. PICK r \in Rows : ApplyReconciledEntry(a, r)
    BY <1>4
  <2>2. PICK next \in {"apply", "announce"} : TextGoto(a, next)
    BY <2>1 DEF ApplyReconciledEntry
  <2>3. pc'[a] = next /\ \A b \in Actors \ {a} : pc'[b] = pc[b]
    BY <2>2, GotoFields
  <2>4. ActorMoves(a) /\ OwesIncrement(a)'
    BY <2>1, <2>3 DEF ApplyReconciledEntry, ActorMoves, OwesIncrement, jobVars
  <2>5. RowsMove
    <3>1. ASSUME NEW s \in Rows
          PROVE  Kept(s)
      <4>1. CASE s = r
        <5>1. row'[r] = Reconciled(row[r], plan[a][r]) /\ row[r] \in RowRecords
          BY <2>1 DEF ApplyReconciledEntry, TextsTypeOK
        <5> QED
          BY <4>1, <5>1 DEF Kept, Reconciled, RowRecords
      <4>2. CASE s # r
        BY <2>1, <4>2 DEF ApplyReconciledEntry, TextsTypeOK, Kept
      <4> QED
        BY <4>1, <4>2
    <3> QED
      BY <3>1 DEF RowsMove
  <2> QED
    BY <2>1, <2>4, <2>5 DEF ActorStep, Publishes, ApplyReconciledEntry
<1>5. CASE AnnounceReconcile(a)
  BY <1>0, <1>5, QuietMove DEF AnnounceReconcile, IncrementVersion, localVars
<1> QED
  BY <1>1, <1>2, <1>3, <1>4, <1>5 DEF Reconcile

LEMMA RequestStep ==
  ASSUME TextsTypeOK, NEW u \in Users, Request(u)
  PROVE  ActorStep(u)
<1>0. u \in Actors
  BY DEF Actors
<1>1. CASE StartReconcile(u)
  BY <1>0, <1>1, QuietMove DEF StartReconcile, OwesIncrement, localVars, TextsTypeOK
<1>2. CASE \E r \in Rows : GetTranslation(u, r)
  BY <1>0, <1>2, QuietMove DEF GetTranslation, OwesIncrement, TextsTypeOK
<1>3. CASE ReserveSave(u)
  BY <1>0, <1>3, QuietMove DEF ReserveSave, IncrementVersion, localVars
<1>4. CASE UpsertManualTranslation(u)
  <2>1. pc'[u] = "announceSave" /\ \A b \in Actors \ {u} : pc'[b] = pc[b]
    BY <1>0, <1>4, GotoFields DEF UpsertManualTranslation
  <2>2. ActorMoves(u) /\ OwesIncrement(u)'
    BY <1>4, <2>1 DEF UpsertManualTranslation, ActorMoves, OwesIncrement, jobVars
  <2>3. ASSUME NEW r \in Rows
        PROVE  Kept(r) \/ Saved(r)
    BY <1>4 DEF UpsertManualTranslation, Kept, Saved
  <2> QED
    BY <1>4, <2>2, <2>3 DEF ActorStep, RowsMove, Publishes, UpsertManualTranslation
<1>5. CASE AnnounceSave(u)
  BY <1>0, <1>5, QuietMove DEF AnnounceSave, IncrementVersion, localVars
<1> QED
  BY <1>1, <1>2, <1>3, <1>4, <1>5 DEF Request

(* A worker drops its job, with nothing to announce.                       *)
LEMMA ForgetStep ==
  ASSUME TextsTypeOK, NEW a \in Actors, Forget(a), UNCHANGED <<row, cached, jobVars>>,
         used'.stops # 0 \/ (used' = used /\ ~OwesIncrement(a))
  PROVE  ActorStep(a)
<1>1. pc'[a] = "idle" /\ doing'[a] = NoText
      /\ \A b \in Actors \ {a} : pc'[b] = pc[b] /\ doing'[b] = doing[b] /\ tally'[b] = tally[b]
  BY ForgetFields
<1> QED
  BY <1>1, RowsKept DEF ActorStep, ActorMoves, Publishes

LEMMA CommitStep ==
  ASSUME TextsTypeOK, NEW w \in Translators, NEW r \in Rows, CommitWrite(w, r)
  PROVE  ActorStep(w)
<1>0. w \in Actors /\ todo[w][r] # NoHash /\ pc[w] = "storing"
      /\ UNCHANGED <<cached, doing>> /\ UNCHANGED jobVars /\ row[r] \in RowRecords
  BY DEF Actors, CommitWrite, TextsTypeOK
<1>1. PICK outcome \in {"stored", "unacknowledged", "marked", "unmarked"} :
        /\ row' = [row EXCEPT ![r] = Outcome(w, r, outcome)]
        /\ tally'[w].stored = (tally[w].stored \/ (Writable(row[r], todo[w][r]) /\ outcome = "stored"))
        /\ outcome = "unacknowledged" => used'.stops = used.stops + 1
  BY CommitFields
<1>2. PICK next \in {"translate", "publish", "finish"} :
        TextGoto(w, next) /\ (next = "finish" => ~tally'[w].stored)
  BY CommitFields
<1>3. pc'[w] = next /\ \A b \in Actors \ {w} : pc'[b] = pc[b]
  BY <1>0, <1>2, GotoFields
<1>4. used'.stops = 0 => used.stops = 0
  <2>1. used' = used \/ used'.stops = used.stops + 1
    BY CommitFields DEF TextsTypeOK
  <2> QED
    BY <2>1, UsedStops
<1>5. ActorMoves(w)
  BY <1>0, <1>3, <1>4, CommitFields DEF ActorMoves
<1>6. row'[r] = Outcome(w, r, outcome) /\ \A s \in Rows \ {r} : row'[s] = row[s]
  BY <1>1 DEF TextsTypeOK
<1>7. RowsMove
  <2>1. CASE Writable(row[r], todo[w][r]) /\ outcome \in {"stored", "unacknowledged"}
    <3>1. row'[r] = [row[r] EXCEPT !.text = todo[w][r], !.origin = "ai", !.status = "current"]
      BY <1>6, <2>1 DEF Outcome
    <3>2. row'[r].text = todo[w][r] /\ row'[r].hash = row[r].hash
      BY <1>0, <3>1 DEF RowRecords
    <3>3. Stored(r)
      BY <1>0, <1>3, <2>1, <3>2 DEF Stored, Writable
    <3> QED
      BY <1>6, <3>3 DEF RowsMove, Kept
  <2>2. CASE ~(Writable(row[r], todo[w][r]) /\ outcome \in {"stored", "unacknowledged"})
    <3>1. row'[r] = row[r] \/ row'[r] = [row[r] EXCEPT !.status = "failed"]
      BY <1>6, <2>2 DEF Outcome
    <3>2. Kept(r)
      BY <1>0, <3>1 DEF Kept, RowRecords
    <3> QED
      BY <1>6, <3>2 DEF RowsMove, Kept
  <2> QED
    BY <2>1, <2>2
<1>8. Publishes(w)
  <2>1. CASE outcome = "unacknowledged"
    BY <1>1, <2>1 DEF Publishes, TextsTypeOK
  <2>2. CASE outcome # "unacknowledged" /\ tally'[w].stored
    <3>1. OwesIncrement(w)'
      BY <1>2, <1>3, <2>2 DEF OwesIncrement
    <3> QED
      BY <1>0, <3>1 DEF Publishes
  <2>3. CASE outcome # "unacknowledged" /\ ~tally'[w].stored
    <3>1. ~tally[w].stored /\ ~(Writable(row[r], todo[w][r]) /\ outcome = "stored")
      BY <1>1, <2>3
    <3>2. ~OwesIncrement(w)
      BY <1>0, <3>1 DEF OwesIncrement
    <3>3. \/ row'[r] = row[r]
          \/ row'[r] = [row[r] EXCEPT !.status = "failed"] /\ row[r].status # "current"
      BY <1>6, <2>3, <3>1 DEF Outcome, Writable
    <3>4. Shown' = Shown
      BY <1>0, <1>6, <3>3 DEF Shown, RowRecords
    <3> QED
      BY <1>0, <3>2, <3>4 DEF Publishes
  <2> QED
    BY <2>1, <2>2, <2>3
<1> QED
  BY <1>5, <1>7, <1>8 DEF ActorStep

LEMMA ProcessStep ==
  ASSUME TextsTypeOK, ClaimsLast, NEW w \in Translators, ProcessProjectTranslationJob(w), ~CompleteJob(w)
  PROVE  ActorStep(w)
<1>0. w \in Actors
  BY DEF Actors
<1>1. CASE SelectEntries(w)
  BY <1>0, <1>1, QuietMove DEF SelectEntries, OwesIncrement
<1>2. CASE ClaimLost(w)
  BY <1>0, <1>2, ForgetStep DEF ClaimLost, OwesIncrement
<1>3. CASE ReserveGenerated(w)
  BY <1>0, <1>3, QuietMove DEF ReserveGenerated, IncrementVersion, localVars
<1>4. CASE BeginWrite(w)
  <2>1. CASE HoldsClaim(w)
    <3>1. pc'[w] = "storing" /\ \A b \in Actors \ {w} : pc'[b] = pc[b]
      BY <1>0, <1>4, <2>1, GotoFields DEF BeginWrite
    <3>2. ActorMoves(w)
      BY <1>4, <2>1, <3>1 DEF ActorMoves, BeginWrite, localVars
    <3>3. Publishes(w)
      BY <1>4, <2>1, <3>1, RowsKept DEF BeginWrite, Publishes, OwesIncrement, localVars
    <3> QED
      BY <1>4, <3>2, <3>3, RowsKept DEF ActorStep, BeginWrite
  <2>2. CASE ~HoldsClaim(w)
    <3>1. doing[w] # NoText
      BY <1>0, <1>4 DEF TextsTypeOK, BeginWrite
    <3>2. used.stops # 0
      BY <2>2, <3>1 DEF ClaimsLast
    <3> QED
      BY <1>0, <1>4, <2>2, <3>2, ForgetStep DEF BeginWrite
  <2> QED
    BY <2>1, <2>2
<1>5. CASE \E r \in Rows : CommitWrite(w, r)
  BY <1>5, CommitStep
<1>6. CASE PublishGenerated(w)
  BY <1>0, <1>6, QuietMove DEF PublishGenerated, IncrementVersion, localVars
<1> QED
  BY <1>1, <1>2, <1>3, <1>4, <1>5, <1>6 DEF ProcessProjectTranslationJob

(* A step that counts a stop.                                              *)
LEMMA StopStep ==
  ASSUME TextsTypeOK, NEW a \in Actors, Stop(a) \/ (a \in Translators /\ PublishFails(a))
  PROVE  ActorStep(a)
<1>1. used'.stops # 0 /\ UNCHANGED <<row, jobVars>>
  BY DEF Stop, PublishFails, TextsTypeOK
<1>2. CASE Stop(a)
  BY <1>1, <1>2, ForgetStep DEF Stop
<1>3. CASE PublishFails(a)
  <2>1. pc'[a] = "finish" /\ \A b \in Actors \ {a} : pc'[b] = pc[b]
    BY <1>3, GotoFields DEF PublishFails
  <2> QED
    BY <1>1, <1>3, <2>1, RowsKept DEF PublishFails, ActorStep, ActorMoves, Publishes, TextsTypeOK
<1> QED
  BY <1>2, <1>3

-----------------------------------------------------------------------------
(* The invariant.                                                          *)

LEMMA ActorStepKeeps ==
  ASSUME IInv, TextsTypeOK', NEW a \in Actors, ActorStep(a)
  PROVE  IInv'
<1>1. CurrentMatchesSource'
  BY DEF IInv, CurrentMatchesSource, ActorStep, RowsMove, Kept, Saved, Stored
<1>2. StoringOwns'
  <2> SUFFICES ASSUME NEW w \in Translators, pc'[w] = "storing"
               PROVE  owner'[doing'[w]] = w
    BY DEF StoringOwns
  <2>1. owner' = owner
    BY DEF ActorStep, ActorMoves, jobVars
  <2>2. CASE w = a
    BY <2>1, <2>2 DEF ActorStep, ActorMoves, HoldsClaim
  <2>3. CASE w # a
    BY <2>1, <2>3 DEF ActorStep, ActorMoves, IInv, StoringOwns, Actors
  <2> QED
    BY <2>2, <2>3
<1>3. ClaimsLast'
  <2> SUFFICES ASSUME used'.stops = 0, NEW w \in Translators, doing'[w] # NoText
               PROVE  HoldsClaim(w)'
    BY DEF ClaimsLast
  <2>1. doing'[w] = doing[w] /\ used.stops = 0 /\ UNCHANGED jobVars
    BY DEF ActorStep, ActorMoves, Actors
  <2> QED
    BY <2>1 DEF IInv, ClaimsLast, HoldsClaim, jobVars
<1>4. PublishedIsFresh'
  <2> SUFFICES ASSUME used'.stops = 0, cached' # {}, ~OwesIncrement(a)'
               PROVE  cached' \subseteq {Shown'} \/ \E b \in Actors : OwesIncrement(b)'
    BY DEF PublishedIsFresh
  <2>1. cached' = cached /\ ~OwesIncrement(a) /\ Shown' = Shown /\ used.stops = 0
    BY DEF ActorStep, ActorMoves, Publishes
  <2>2. \A b \in Actors \ {a} : OwesIncrement(b) => OwesIncrement(b)'
    BY DEF ActorStep, ActorMoves, OwesIncrement
  <2> QED
    BY <2>1, <2>2 DEF IInv, PublishedIsFresh
<1> QED
  BY <1>1, <1>2, <1>3, <1>4 DEF IInv

(* A step that leaves the rows, the cache and the tallies alone.           *)
LEMMA JobStepKeeps ==
  ASSUME IInv, TextsTypeOK', UNCHANGED <<row, cached>>, used'.stops = 0 => used.stops = 0,
         used'.stops = 0 => \A b \in Actors : OwesIncrement(b) => OwesIncrement(b)',
         StoringOwns', ClaimsLast'
  PROVE  IInv'
<1>1. CurrentMatchesSource'
  BY DEF IInv, CurrentMatchesSource
<1>2. PublishedIsFresh'
  BY RowsKept DEF IInv, PublishedIsFresh
<1> QED
  BY <1>1, <1>2 DEF IInv

LEMMA LeaseStep ==
  ASSUME IInv, TextsTypeOK', NEW w \in Translators, NEW j \in TextJobs, LeaseNextJob(w, j)
  PROVE  IInv'
<1>0. w \in Actors /\ TextsTypeOK /\ UNCHANGED <<row, cached, used, tally>>
  BY DEF Actors, IInv, LeaseNextJob
<1>1. pc'[w] = "discover" /\ \A b \in Actors \ {w} : pc'[b] = pc[b]
  BY <1>0, GotoFields DEF LeaseNextJob
<1>2. doing'[w] = j /\ \A b \in Actors \ {w} : doing'[b] = doing[b]
  BY <1>0 DEF LeaseNextJob, TextsTypeOK
<1>3. /\ owner'[j] = w /\ jobStatus'[j] = "running" /\ lapsed'[j] = FALSE
      /\ \A k \in TextJobs \ {j} : owner'[k] = owner[k] /\ jobStatus'[k] = jobStatus[k] /\ lapsed'[k] = lapsed[k]
  BY <1>0 DEF LeaseNextJob, TextsTypeOK
<1>4. \A v \in Translators : doing[v] \in TextJobs \cup {NoText} /\ (pc[v] = "idle" <=> doing[v] = NoText)
  BY <1>0 DEF TextsTypeOK, Actors
<1>5. StoringOwns'
  <2> SUFFICES ASSUME NEW v \in Translators, pc'[v] = "storing"
               PROVE  owner'[doing'[v]] = v
    BY DEF StoringOwns
  <2>1. v # w /\ pc[v] = "storing" /\ doing'[v] = doing[v]
    BY <1>1, <1>2 DEF Actors
  <2>2. doing[v] # j
    BY <2>1 DEF LeaseNextJob, JobLocked
  <2> QED
    BY <1>3, <1>4, <2>1, <2>2 DEF IInv, StoringOwns
<1>6. ClaimsLast'
  <2> SUFFICES ASSUME used.stops = 0, NEW v \in Translators, doing'[v] # NoText
               PROVE  HoldsClaim(v)'
    BY <1>0 DEF ClaimsLast
  <2>1. CASE v = w
    BY <1>2, <1>3, <2>1 DEF HoldsClaim
  <2>2. CASE v # w
    <3>1. doing'[v] = doing[v] /\ HoldsClaim(v)
      BY <1>2, <2>2 DEF Actors, IInv, ClaimsLast
    <3>2. doing[v] # j
      BY <3>1 DEF LeaseNextJob, Leasable, HoldsClaim
    <3> QED
      BY <1>3, <1>4, <3>1, <3>2 DEF HoldsClaim
  <2> QED
    BY <2>1, <2>2
<1>7. \A b \in Actors : OwesIncrement(b) => OwesIncrement(b)'
  BY <1>0, <1>1 DEF OwesIncrement, LeaseNextJob
<1> QED
  BY <1>0, <1>5, <1>6, <1>7, JobStepKeeps

LEMMA CompleteStep ==
  ASSUME IInv, TextsTypeOK', NEW w \in Translators, CompleteJob(w) \/ CompleteJobWithError(w)
  PROVE  IInv'
<1>0. w \in Actors /\ TextsTypeOK /\ UNCHANGED <<row, cached, lapsed>> /\ HoldsClaim(w)
  BY DEF Actors, IInv, CompleteJob, CompleteJobWithError, Complete
<1>1. pc'[w] = "idle" /\ doing'[w] = NoText
      /\ \A b \in Actors \ {w} : pc'[b] = pc[b] /\ doing'[b] = doing[b] /\ tally'[b] = tally[b]
  BY <1>0, ForgetFields DEF CompleteJob, CompleteJobWithError, Complete
<1>2. \A k \in TextJobs \ {doing[w]} : owner'[k] = owner[k] /\ jobStatus'[k] = jobStatus[k]
  BY <1>0 DEF CompleteJob, CompleteJobWithError, Complete, TextsTypeOK
<1>3. \A v \in Translators : doing[v] \in TextJobs \cup {NoText}
  BY <1>0 DEF TextsTypeOK, Actors
<1>4. used' = used \/ used'.stops = used.stops + 1
  BY <1>0 DEF CompleteJob, CompleteJobWithError, TextsTypeOK
<1>5. used'.stops = 0 => used.stops = 0
  BY <1>0, <1>4, UsedStops
<1>6. StoringOwns'
  <2> SUFFICES ASSUME NEW v \in Translators, pc'[v] = "storing"
               PROVE  owner'[doing'[v]] = v
    BY DEF StoringOwns
  <2>1. v # w /\ pc[v] = "storing" /\ doing'[v] = doing[v]
    BY <1>1 DEF Actors
  <2>2. owner[doing[v]] = v /\ doing[v] # doing[w] /\ doing[v] # NoText
    BY <1>0, <2>1 DEF IInv, StoringOwns, HoldsClaim, TextsTypeOK
  <2> QED
    BY <1>2, <1>3, <2>1, <2>2
<1>7. ClaimsLast'
  <2> SUFFICES ASSUME used'.stops = 0, NEW v \in Translators, doing'[v] # NoText
               PROVE  HoldsClaim(v)'
    BY DEF ClaimsLast
  <2>1. v # w /\ doing'[v] = doing[v] /\ HoldsClaim(v)
    BY <1>1, <1>5 DEF Actors, IInv, ClaimsLast
  <2>2. doing[v] # doing[w]
    BY <1>0, <2>1 DEF HoldsClaim
  <2> QED
    BY <1>0, <1>2, <1>3, <2>1, <2>2 DEF HoldsClaim
<1>8. used'.stops = 0 => \A b \in Actors : OwesIncrement(b) => OwesIncrement(b)'
  <2> SUFFICES ASSUME used'.stops = 0, NEW b \in Actors, OwesIncrement(b)
               PROVE  OwesIncrement(b)'
    OBVIOUS
  <2>1. CompleteJob(w)
    BY <1>0 DEF CompleteJobWithError, TextsTypeOK
  <2> QED
    BY <1>1, <2>1 DEF CompleteJob, OwesIncrement
<1> QED
  BY <1>0, <1>5, <1>6, <1>7, <1>8, JobStepKeeps

LEMMA QueueStep ==
  ASSUME IInv, TextsTypeOK', NEW j \in TextJobs, QueueProjectTranslationJob(j) \/ TextLeaseLapse(j)
  PROVE  IInv'
<1>0. /\ TextsTypeOK /\ UNCHANGED <<row, cached, owner, pc, doing, tally>>
      /\ \A k \in TextJobs \ {j} : jobStatus'[k] = jobStatus[k] /\ lapsed'[k] = lapsed[k]
  BY DEF IInv, QueueProjectTranslationJob, TextLeaseLapse, localVars, TextsTypeOK
<1>1. used' = used \/ used'.stops = used.stops + 1
  BY <1>0 DEF QueueProjectTranslationJob, TextLeaseLapse, TextsTypeOK
<1>2. used'.stops = 0 => used.stops = 0
  BY <1>0, <1>1, UsedStops
<1>3. StoringOwns'
  BY <1>0 DEF IInv, StoringOwns
<1>4. ClaimsLast'
  <2> SUFFICES ASSUME used'.stops = 0, NEW v \in Translators, doing[v] # NoText
               PROVE  HoldsClaim(v)'
    BY <1>0 DEF ClaimsLast
  <2>1. HoldsClaim(v) /\ doing[v] \in TextJobs
    BY <1>0, <1>2 DEF IInv, ClaimsLast, TextsTypeOK, Actors
  <2>2. doing[v] # j
    BY <1>0, <2>1 DEF QueueProjectTranslationJob, TextLeaseLapse, Processes, HoldsClaim, TextsTypeOK
  <2> QED
    BY <1>0, <2>1, <2>2 DEF HoldsClaim
<1>5. \A b \in Actors : OwesIncrement(b) => OwesIncrement(b)'
  BY <1>0 DEF OwesIncrement
<1> QED
  BY <1>0, <1>2, <1>3, <1>4, <1>5, JobStepKeeps

LEMMA ContentStep ==
  ASSUME IInv, TextsTypeOK', Fetch \/ (\E r \in Rows, h \in Sources : EditSource(r, h)) \/ UNCHANGED textVars
  PROVE  IInv'
<1>1. UNCHANGED <<row, jobVars, pc, localVars>> /\ used'.stops = used.stops
  BY DEF IInv, TextsTypeOK, Fetch, EditSource, textVars
<1>2. CurrentMatchesSource' /\ StoringOwns' /\ ClaimsLast'
  BY <1>1 DEF IInv, CurrentMatchesSource, StoringOwns, ClaimsLast, HoldsClaim, jobVars, localVars
<1>3. Shown' = Shown /\ \A a \in Actors : OwesIncrement(a)' = OwesIncrement(a)
  BY <1>1, RowsKept DEF OwesIncrement, localVars
<1>4. cached' \in {cached, cached \cup {Shown}}
  BY DEF Fetch, EditSource, textVars
<1>5. PublishedIsFresh'
  BY <1>1, <1>3, <1>4 DEF IInv, PublishedIsFresh
<1> QED
  BY <1>2, <1>5 DEF IInv

LEMMA InitIInv == TextsInit => IInv
<1> SUFFICES ASSUME TextsInit
             PROVE  IInv
  OBVIOUS
<1>1. NoRow \in RowRecords /\ NoTodo \in [Rows -> Sources] /\ NoPlan \in [Rows -> Changes]
      /\ NoTally \in [stored : BOOLEAN, failed : BOOLEAN] /\ "idle" \in TextPc /\ "absent" \in JobStatus
  BY DEF NoRow, RowRecords, NoTodo, Sources, NoPlan, Keep, Changes, NoTally, TextPc, JobStatus
<1>2. used \in [edits : 0..MaxEdits, saves : 0..MaxSaves, stops : 0..MaxStops]
  BY TextBoundsAssumption DEF TextsInit
<1>3. TextsTypeOK
  BY <1>1, <1>2 DEF TextsInit, TextsTypeOK, Actors
<1>4. CurrentMatchesSource
  BY DEF TextsInit, CurrentMatchesSource, NoRow
<1>5. StoringOwns /\ ClaimsLast
  BY DEF TextsInit, StoringOwns, ClaimsLast, Actors
<1>6. PublishedIsFresh
  BY DEF TextsInit, PublishedIsFresh
<1> QED
  BY <1>3, <1>4, <1>5, <1>6 DEF IInv

LEMMA NextIInv == IInv /\ [TextsNext]_textVars => IInv'
<1> SUFFICES ASSUME IInv, [TextsNext]_textVars
             PROVE  IInv'
  OBVIOUS
<1>0. TextsTypeOK /\ TextsTypeOK' /\ ClaimsLast
  BY TypeStep DEF IInv
<1>1. CASE Fetch \/ (\E r \in Rows, h \in Sources : EditSource(r, h)) \/ UNCHANGED textVars
  BY <1>0, <1>1, ContentStep
<1>2. CASE \E u \in Users : Request(u) \/ Reconcile(u)
  BY <1>0, <1>2, RequestStep, ReconcileStep, ActorStepKeeps DEF Actors
<1>3. CASE \E j \in TextJobs : QueueProjectTranslationJob(j) \/ TextLeaseLapse(j)
  BY <1>0, <1>3, QueueStep
<1>4. CASE \E w \in Translators : Work(w) \/ PublishFails(w) \/ CompleteJobWithError(w)
  <2>1. PICK w \in Translators : Work(w) \/ PublishFails(w) \/ CompleteJobWithError(w)
    BY <1>4
  <2>2. CASE CompleteJob(w) \/ CompleteJobWithError(w)
    BY <1>0, <2>2, CompleteStep
  <2>3. CASE \E j \in TextJobs : LeaseNextJob(w, j)
    BY <1>0, <2>3, LeaseStep
  <2>4. CASE Reconcile(w) \/ PublishFails(w) \/ (ProcessProjectTranslationJob(w) /\ ~CompleteJob(w))
    BY <1>0, <2>4, ReconcileStep, StopStep, ProcessStep, ActorStepKeeps DEF Actors
  <2> QED
    BY <2>1, <2>2, <2>3, <2>4 DEF Work
<1>5. CASE \E a \in Actors : Stop(a)
  BY <1>0, <1>5, StopStep, ActorStepKeeps
<1> QED
  BY <1>1, <1>2, <1>3, <1>4, <1>5 DEF TextsNext

LEMMA Inductive == TextsSpec => []IInv
BY InitIInv, NextIInv, PTL DEF TextsSpec

(* Every variable keeps its type, and a worker has a job exactly while it  *)
(* is not idle.                                                            *)
THEOREM LocalizationTypes == TextsSpec => []TextsTypeOK
<1>1. IInv => TextsTypeOK
  BY DEF IInv
<1> QED
  BY <1>1, Inductive, PTL

(* A translation that is shown was made for the source text of its row:    *)
(* generatedTranslationFilter and the status that reconciliationUpdate     *)
(* computes from the live row.                                             *)
THEOREM LocalizationCurrent == TextsSpec => []CurrentMatchesSource
<1>1. IInv => CurrentMatchesSource
  BY DEF IInv
<1> QED
  BY <1>1, Inductive, PTL

(* While nothing stops or fails, what clients have cached under the        *)
(* present version is what is shown, or an actor that changed a row has    *)
(* still to increment the version.                                         *)
THEOREM LocalizationPublished == TextsSpec => []PublishedIsFresh
<1>1. IInv => PublishedIsFresh
  BY DEF IInv
<1> QED
  BY <1>1, Inductive, PTL

-----------------------------------------------------------------------------
(* Who writes a row, whatever step the system takes.                       *)
LEMMA RowsMoveStep ==
  ASSUME IInv, [TextsNext]_textVars
  PROVE  RowsMove
<1>0. TextsTypeOK /\ ClaimsLast
  BY DEF IInv
<1>1. CASE UNCHANGED row
  BY <1>1, RowsKept
<1>2. CASE \E r \in Rows, h \in Sources : EditSource(r, h)
  BY <1>1, <1>2 DEF EditSource
<1>3. CASE Fetch \/ UNCHANGED textVars
  BY <1>1, <1>3 DEF Fetch, textVars
<1>4. CASE \E u \in Users : Request(u) \/ Reconcile(u)
  BY <1>0, <1>4, RequestStep, ReconcileStep DEF Actors, ActorStep
<1>5. CASE \E j \in TextJobs : QueueProjectTranslationJob(j) \/ TextLeaseLapse(j)
  BY <1>1, <1>5 DEF QueueProjectTranslationJob, TextLeaseLapse
<1>6. CASE \E w \in Translators : Work(w) \/ PublishFails(w) \/ CompleteJobWithError(w)
  <2>1. PICK w \in Translators : Work(w) \/ PublishFails(w) \/ CompleteJobWithError(w)
    BY <1>6
  <2>2. CASE CompleteJob(w) \/ CompleteJobWithError(w)
    BY <1>1, <2>2 DEF CompleteJob, CompleteJobWithError, Complete
  <2>3. CASE \E j \in TextJobs : LeaseNextJob(w, j)
    BY <1>1, <2>3 DEF LeaseNextJob
  <2>4. CASE Reconcile(w) \/ PublishFails(w) \/ (ProcessProjectTranslationJob(w) /\ ~CompleteJob(w))
    BY <1>0, <2>4, ReconcileStep, StopStep, ProcessStep DEF Actors, ActorStep
  <2> QED
    BY <2>1, <2>2, <2>3, <2>4 DEF Work
<1>7. CASE \E a \in Actors : Stop(a)
  BY <1>1, <1>7 DEF Stop
<1> QED
  BY <1>2, <1>3, <1>4, <1>5, <1>6, <1>7 DEF TextsNext

(* What a user saved by hand is replaced only by a user, and a generated   *)
(* text enters a row only by the worker that holds the lease of its job:   *)
(* writeContentWithClaim keeps the claim until the write is over.          *)
THEOREM LocalizationWriters == TextsSpec => TextsHaveTheirWriter
<1>1. IInv /\ [TextsNext]_textVars =>
        [\A r \in Rows :
          /\ row[r].origin = "manual" =>
               \/ row'[r].origin = "manual" /\ row'[r].text = row[r].text
               \/ \E u \in Users : pc[u] = "save" /\ todo[u][r] # NoHash
          /\ row'[r].origin = "ai" /\ row'[r].text # row[r].text =>
               \E w \in Translators : /\ pc[w] = "storing" /\ pc'[w] # "storing"
                                 /\ todo[w][r] = row'[r].text
                                 /\ owner[doing[w]] = w]_textVars
  BY RowsMoveStep DEF IInv, StoringOwns, RowsMove, Kept, Saved, Stored
<1> QED
  BY <1>1, Inductive, PTL DEF TextsSpec, TextsHaveTheirWriter
=============================================================================
