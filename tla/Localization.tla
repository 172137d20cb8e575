---------------------------- MODULE Localization ----------------------------
(***************************************************************************)
(* The translations of one project: the rows of one target locale, the     *)
(* translation jobs and the workers that lease them, the users who save a  *)
(* translation by hand or ask for a reconciliation, and the clients, which *)
(* cache what they fetch under the project's localizationVersion.          *)
(*                                                                         *)
(* A source text is its hash, and a translation is the hash of the source  *)
(* it was made for.  The version is not a number here: cached holds what   *)
(* clients have cached under the present version, and an increment leaves  *)
(* it empty, for every client fetches again under a new version.           *)
(***************************************************************************)
EXTENDS Naturals, FiniteSets

CONSTANTS Rows,     \* translation keys of the target locale
          Hashes,   \* source texts
          NoHash,   \* no source text, no translation
          TextJobs,     \* translation jobs
          Translators,  \* localization workers, one for each process
          Users,    \* requests of the management and runtime controllers
          NoText,    \* a worker that has leased no job
          MaxEdits, \* bound of the edits of source texts
          MaxSaves, \* bound of the requests of users
          MaxStops  \* bound of the stops of processes and of their pauses

ASSUME NoTextAssumption == NoHash \notin Hashes /\ NoText \notin TextJobs

ASSUME ActorsAssumption == Translators \cap Users = {}

ASSUME TextBoundsAssumption == MaxEdits \in Nat /\ MaxSaves \in Nat /\ MaxStops \in Nat

VARIABLES source,   \* the source texts in the content of the project
          row,      \* the collection of translations
          cached,   \* what clients cache under the present version
          jobStatus,\* status of a job
          owner,    \* leaseOwner with leaseToken: the worker it is leased to
          lapsed,   \* leaseExpiresAt has passed
          pc,       \* where a worker or a request stands
          doing,    \* the job a worker processes
          found,    \* the sources it discovered
          plan,     \* the changes its reconciliation is to make
          todo,     \* rows it has selected, with the source it saw
          tally,    \* whether it stored a translation, whether one failed
          used      \* edits, saves and stops so far

jobVars == <<jobStatus, owner, lapsed>>
localVars == <<doing, found, plan, todo, tally>>
textVars == <<source, row, cached, jobVars, pc, localVars, used>>

Actors == Translators \cup Users
Sources == Hashes \cup {NoHash}

(* A row whose hash is NoHash is not in the collection.                    *)
RowRecords == [hash : Sources, text : Sources, active : BOOLEAN,
               origin : {"untranslated", "ai", "manual"},
               status : {"missing", "current", "outdated", "failed"}]
NoRow == [hash |-> NoHash, text |-> NoHash, active |-> FALSE,
          origin |-> "untranslated", status |-> "missing"]

(* The change of one row: its source and its activity, or nothing.         *)
Keep == [hash |-> NoHash, active |-> FALSE]
Changes == [hash : Sources, active : BOOLEAN]
NoPlan == [r \in Rows |-> Keep]
NoTodo == [r \in Rows |-> NoHash]
NoTally == [stored |-> FALSE, failed |-> FALSE]

JobStatus == {"absent", "pending", "running", "completed", "failed"}
ReconcilePc == {"discover", "list", "reserve", "apply", "announce"}
WorkerPc == {"select", "prepare", "translate", "storing", "publish", "finish"}
SavePc == {"reserveSave", "save", "announceSave"}
TextPc == {"idle"} \cup ReconcilePc \cup WorkerPc \cup SavePc

TextsInit == /\ source \in [Rows -> Sources]
        /\ row = [r \in Rows |-> NoRow]
        /\ cached = {}
        /\ jobStatus = [j \in TextJobs |-> "absent"]
        /\ owner = [j \in TextJobs |-> NoText]
        /\ lapsed = [j \in TextJobs |-> FALSE]
        /\ pc = [a \in Actors |-> "idle"]
        /\ doing = [a \in Actors |-> NoText]
        /\ found = [a \in Actors |-> NoTodo]
        /\ plan = [a \in Actors |-> NoPlan]
        /\ todo = [a \in Actors |-> NoTodo]
        /\ tally = [a \in Actors |-> NoTally]
        /\ used = [edits |-> 0, saves |-> 0, stops |-> 0]

-----------------------------------------------------------------------------
(* Content, clients and the version.                                       *)

EditSource(r, h) ==
    /\ used.edits < MaxEdits /\ source[r] # h
    /\ source' = [source EXCEPT ![r] = h]
    /\ used' = [used EXCEPT !.edits = @ + 1]
    /\ UNCHANGED <<row, cached, jobVars, pc, localVars>>

(* runtimeTranslationResources: what a client is shown.                    *)
Shown == [r \in Rows |-> IF row[r].active /\ row[r].status = "current"
                           THEN row[r].text ELSE NoHash]

Fetch == /\ cached' = cached \cup {Shown}
         /\ UNCHANGED <<source, row, jobVars, pc, localVars, used>>

IncrementVersion == cached' = {}

TextGoto(a, next) == pc' = [pc EXCEPT ![a] = next]

-----------------------------------------------------------------------------
(* ReconcileProjectTranslations, by a request or inside a job.             *)

StartReconcile(u) ==
    /\ u \in Users /\ pc[u] = "idle" /\ used.saves < MaxSaves
    /\ TextGoto(u, "discover")
    /\ used' = [used EXCEPT !.saves = @ + 1]
    /\ UNCHANGED <<source, row, cached, jobVars, localVars>>

DiscoverAllProjectStrings(a) ==
    /\ pc[a] = "discover"
    /\ found' = [found EXCEPT ![a] = source]
    /\ TextGoto(a, "list")
    /\ UNCHANGED <<source, row, cached, jobVars, doing, plan, todo, tally, used>>

(* The change of row r by an actor that found source h for it.             *)
Change(r, h) ==
    CASE h = NoHash /\ row[r].active -> [hash |-> row[r].hash, active |-> FALSE]
      [] h # NoHash /\ (row[r].hash # h \/ ~row[r].active) -> [hash |-> h, active |-> TRUE]
      [] OTHER -> Keep

AfterReconcile(a) == IF a \in Translators THEN "select" ELSE "idle"

(* ListProjectTranslations and BuildProjectTranslationReconciliation.      *)
BuildProjectTranslationReconciliation(a) ==
    /\ pc[a] = "list"
    /\ plan' = [plan EXCEPT ![a] = [r \in Rows |-> Change(r, found[a][r])]]
    /\ found' = [found EXCEPT ![a] = NoTodo]
    /\ TextGoto(a, IF plan'[a] = NoPlan THEN AfterReconcile(a) ELSE "reserve")
    /\ UNCHANGED <<source, row, cached, jobVars, doing, todo, tally, used>>

ReserveReconcile(a) ==
    /\ pc[a] = "reserve"
    /\ IncrementVersion
    /\ TextGoto(a, "apply")
    /\ UNCHANGED <<source, row, jobVars, localVars, used>>

(* Fault: the status is the one of the listed row.                         *)
FaultStatusOfSnapshot(live, c) == [live EXCEPT !.hash = c.hash, !.active = c.active]

(* reconciliationUpdate, evaluated against the live row.                   *)
Reconciled(live, c) ==
    [live EXCEPT !.hash = c.hash, !.active = c.active,
                 !.status = IF live.hash = NoHash THEN "missing"
                            ELSE IF live.hash = c.hash THEN @ ELSE "outdated"]

(* One write of the unordered bulk.                                        *)
ApplyReconciledEntry(a, r) ==
    /\ pc[a] = "apply" /\ plan[a][r] # Keep
    /\ row' = [row EXCEPT ![r] = Reconciled(@, plan[a][r])]
    /\ plan' = [plan EXCEPT ![a][r] = Keep]
    /\ TextGoto(a, IF plan'[a] = NoPlan THEN "announce" ELSE "apply")
    /\ UNCHANGED <<source, cached, jobVars, doing, found, todo, tally, used>>

AnnounceReconcile(a) ==
    /\ pc[a] = "announce"
    /\ IncrementVersion
    /\ TextGoto(a, AfterReconcile(a))
    /\ UNCHANGED <<source, row, jobVars, localVars, used>>

-----------------------------------------------------------------------------
(* updateLocalizationTranslation: a user saves row r by hand.              *)

GetTranslation(u, r) ==
    /\ u \in Users /\ pc[u] = "idle" /\ used.saves < MaxSaves
    /\ row[r].hash # NoHash
    /\ todo' = [todo EXCEPT ![u][r] = row[r].hash]
    /\ TextGoto(u, "reserveSave")
    /\ used' = [used EXCEPT !.saves = @ + 1]
    /\ UNCHANGED <<source, row, cached, jobVars, doing, found, plan, tally>>

ReserveSave(u) ==
    /\ pc[u] = "reserveSave"
    /\ IncrementVersion
    /\ TextGoto(u, "save")
    /\ UNCHANGED <<source, row, jobVars, localVars, used>>

(* The upsert writes the source that was read as well.                     *)
UpsertManualTranslation(u) ==
    /\ pc[u] = "save"
    /\ row' = [r \in Rows |->
                 IF todo[u][r] = NoHash THEN row[r]
                 ELSE [hash |-> todo[u][r], text |-> todo[u][r], active |-> TRUE,
                       origin |-> "manual", status |-> "current"]]
    /\ todo' = [todo EXCEPT ![u] = NoTodo]
    /\ TextGoto(u, "announceSave")
    /\ UNCHANGED <<source, cached, jobVars, doing, found, plan, tally, used>>

(* Fault: the version is not incremented after the save.                   *)
FaultReservedOnly(u) ==
    /\ pc[u] = "announceSave"
    /\ TextGoto(u, "idle")
    /\ UNCHANGED <<source, row, cached, jobVars, localVars, used>>

AnnounceSave(u) ==
    /\ pc[u] = "announceSave"
    /\ IncrementVersion
    /\ TextGoto(u, "idle")
    /\ UNCHANGED <<source, row, jobVars, localVars, used>>

-----------------------------------------------------------------------------
(* Jobs and their leases.                                                  *)

QueueProjectTranslationJob(j) ==
    /\ jobStatus[j] = "absent"
    /\ jobStatus' = [jobStatus EXCEPT ![j] = "pending"]
    /\ UNCHANGED <<source, row, cached, owner, lapsed, pc, localVars, used>>

(* Fault: the claim is only read before the content is written.            *)
FaultNoFence(j) == FALSE

(* The claim fence of the content transaction that is open locks the job.  *)
JobLocked(j) == \E w \in Translators : doing[w] = j /\ pc[w] = "storing"


(* Fault: a running job whose lease has passed is never leased again.      *)
FaultPendingOnly(j) == jobStatus[j] = "pending"

Leasable(j) == \/ jobStatus[j] = "pending"
               \/ jobStatus[j] = "running" /\ lapsed[j]

LeaseNextJob(w, j) ==
    /\ pc[w] = "idle" /\ Leasable(j) /\ ~JobLocked(j)
    /\ jobStatus' = [jobStatus EXCEPT ![j] = "running"]
    /\ owner' = [owner EXCEPT ![j] = w]
    /\ lapsed' = [lapsed EXCEPT ![j] = FALSE]
    /\ doing' = [doing EXCEPT ![w] = j]
    /\ TextGoto(w, "discover")
    /\ UNCHANGED <<source, row, cached, found, plan, todo, tally, used>>

Processes(w, j) == doing[w] = j /\ owner[j] = w

(* The lease of a dead worker ends; that of a live one, which is renewed   *)
(* long before, ends only when the worker is paused.                       *)
TextLeaseLapse(j) ==
    /\ jobStatus[j] = "running" /\ ~lapsed[j]
    /\ lapsed' = [lapsed EXCEPT ![j] = TRUE]
    /\ IF \E w \in Translators : Processes(w, j)
         THEN used.stops < MaxStops /\ used' = [used EXCEPT !.stops = @ + 1]
         ELSE UNCHANGED used
    /\ UNCHANGED <<source, row, cached, jobStatus, owner, pc, localVars>>

(* localizationJobClaimFilter.                                             *)
HoldsClaim(w) == /\ doing[w] # NoText
                 /\ jobStatus[doing[w]] = "running"
                 /\ owner[doing[w]] = w /\ ~lapsed[doing[w]]

Forget(a) == /\ TextGoto(a, "idle")
             /\ doing' = [doing EXCEPT ![a] = NoText]
             /\ found' = [found EXCEPT ![a] = NoTodo]
             /\ plan' = [plan EXCEPT ![a] = NoPlan]
             /\ todo' = [todo EXCEPT ![a] = NoTodo]
             /\ tally' = [tally EXCEPT ![a] = NoTally]

(* A process stops, or an operation fails and ends the request, or leaves  *)
(* the job running until its lease ends.                                   *)
Stop(a) ==
    /\ pc[a] # "idle" /\ used.stops < MaxStops
    /\ Forget(a)
    /\ used' = [used EXCEPT !.stops = @ + 1]
    /\ UNCHANGED <<source, row, cached, jobVars>>

-----------------------------------------------------------------------------
(* ProcessProjectTranslationJob, after the reconciliation.                 *)

Selectable(e) == /\ e.active
                 /\ ~(e.origin = "manual" /\ e.text # NoHash)
                 /\ \/ e.status \in {"missing", "failed"}
                    \/ e.status = "outdated" /\ e.origin # "manual"

(* selectTranslationJobEntries from the listed rows, then SetJobRunning,   *)
(* which ends the job of a worker that lost its claim.                     *)
SelectEntries(w) ==
    /\ pc[w] = "select" /\ HoldsClaim(w)
    /\ todo' = [todo EXCEPT ![w] =
                  [r \in Rows |-> IF Selectable(row[r]) THEN row[r].hash ELSE NoHash]]
    /\ TextGoto(w, IF todo'[w] = NoTodo THEN "finish" ELSE "prepare")
    /\ UNCHANGED <<source, row, cached, jobVars, doing, found, plan, tally, used>>

ClaimLost(w) ==
    /\ pc[w] \in {"select", "finish"} /\ ~HoldsClaim(w)
    /\ Forget(w)
    /\ UNCHANGED <<source, row, cached, jobVars, used>>

ReserveGenerated(w) ==
    /\ pc[w] = "prepare"
    /\ IncrementVersion
    /\ TextGoto(w, "translate")
    /\ UNCHANGED <<source, row, jobVars, localVars, used>>

(* writeContentWithClaim: the transaction of the next row begins with the  *)
(* update of the claim.  Without the claim nothing is written, the rows    *)
(* count as failed, and UpdateJobProgress then ends the job.               *)
BeginWrite(w) ==
    /\ pc[w] = "translate" /\ todo[w] # NoTodo
    /\ IF HoldsClaim(w)
         THEN TextGoto(w, "storing") /\ UNCHANGED localVars
         ELSE Forget(w)
    /\ UNCHANGED <<source, row, cached, jobVars, used>>

(* generatedTranslationFilter.                                             *)
Writable(e, h) == /\ e.origin # "manual" /\ e.hash = h /\ e.active
                  /\ e.status \in {"missing", "outdated", "failed"}

(* The transaction of row r ends.  Its outcomes: UpsertGeneratedTranslation *)
(* of a valid output, which skips a row that has changed since it was       *)
(* selected; the same, committed but reported as an error; the row marked   *)
(* by MarkGeneratedTranslationFailed; not even that.                        *)
CommitWrite(w, r) ==
    /\ pc[w] = "storing" /\ todo[w][r] # NoHash
    /\ \E outcome \in {"stored", "unacknowledged", "marked", "unmarked"} :
         LET writable == Writable(row[r], todo[w][r]) IN
         /\ row' = [row EXCEPT ![r] =
                      CASE writable /\ outcome \in {"stored", "unacknowledged"} ->
                             [@ EXCEPT !.text = todo[w][r], !.origin = "ai", !.status = "current"]
                        [] writable /\ outcome = "marked" -> [@ EXCEPT !.status = "failed"]
                        [] OTHER -> @]
         /\ tally' = [tally EXCEPT ![w] = [stored |-> @.stored \/ (writable /\ outcome = "stored"),
                                          failed |-> @.failed \/ outcome # "stored"]]
         /\ IF outcome = "unacknowledged"
              THEN used.stops < MaxStops /\ used' = [used EXCEPT !.stops = @ + 1]
              ELSE UNCHANGED used
    /\ todo' = [todo EXCEPT ![w][r] = NoHash]
    /\ TextGoto(w, IF todo'[w] # NoTodo THEN "translate"
               ELSE IF tally'[w].stored THEN "publish" ELSE "finish")
    /\ UNCHANGED <<source, cached, jobVars, doing, found, plan>>

PublishGenerated(w) ==
    /\ pc[w] = "publish"
    /\ IncrementVersion
    /\ TextGoto(w, "finish")
    /\ UNCHANGED <<source, row, jobVars, localVars, used>>

PublishFails(w) ==
    /\ pc[w] = "publish" /\ used.stops < MaxStops
    /\ used' = [used EXCEPT !.stops = @ + 1]
    /\ tally' = [tally EXCEPT ![w].failed = TRUE]
    /\ TextGoto(w, "finish")
    /\ UNCHANGED <<source, row, cached, jobVars, doing, found, plan, todo>>

(* Repository CompleteJob, which the claim of the worker guards.            *)
Complete(w, result) ==
    /\ HoldsClaim(w)
    /\ jobStatus' = [jobStatus EXCEPT ![doing[w]] = result]
    /\ owner' = [owner EXCEPT ![doing[w]] = NoText]
    /\ Forget(w)
    /\ UNCHANGED <<source, row, cached, lapsed>>

CompleteJob(w) ==
    /\ pc[w] = "finish"
    /\ Complete(w, IF tally[w].failed THEN "failed" ELSE "completed")
    /\ UNCHANGED used

(* An operation before the translation fails.                               *)
CompleteJobWithError(w) ==
    /\ pc[w] \in ReconcilePc \cup {"prepare"} /\ used.stops < MaxStops
    /\ used' = [used EXCEPT !.stops = @ + 1]
    /\ Complete(w, "failed")

-----------------------------------------------------------------------------
Reconcile(a) == \/ DiscoverAllProjectStrings(a)
                \/ BuildProjectTranslationReconciliation(a)
                \/ ReserveReconcile(a)
                \/ \E r \in Rows : ApplyReconciledEntry(a, r)
                \/ AnnounceReconcile(a)

Request(u) == \/ StartReconcile(u)
              \/ \E r \in Rows : GetTranslation(u, r)
              \/ ReserveSave(u) \/ UpsertManualTranslation(u) \/ AnnounceSave(u)

ProcessProjectTranslationJob(w) ==
    \/ SelectEntries(w) \/ ClaimLost(w) \/ ReserveGenerated(w) \/ BeginWrite(w)
    \/ \E r \in Rows : CommitWrite(w, r)
    \/ PublishGenerated(w) \/ CompleteJob(w)

Work(w) == \/ \E j \in TextJobs : LeaseNextJob(w, j)
           \/ Reconcile(w) \/ ProcessProjectTranslationJob(w)

TextsNext == \/ \E r \in Rows, h \in Sources : EditSource(r, h)
        \/ Fetch
        \/ \E u \in Users : Request(u) \/ Reconcile(u)
        \/ \E j \in TextJobs : QueueProjectTranslationJob(j) \/ TextLeaseLapse(j)
        \/ \E w \in Translators : Work(w) \/ PublishFails(w) \/ CompleteJobWithError(w)
        \/ \E a \in Actors : Stop(a)

TextsSpec == TextsInit /\ [][TextsNext]_textVars

(* Workers keep polling and go on with a job, and a lease that nobody       *)
(* renews ends.  Nothing else is fair: a client need not fetch, a user need *)
(* not finish a request.                                                    *)
AbandonedLeaseLapses(j) ==
    TextLeaseLapse(j) /\ ~ \E w \in Translators : Processes(w, j)

TextsFairness == /\ \A w \in Translators : WF_textVars(Work(w))
                 /\ \A j \in TextJobs : WF_textVars(AbandonedLeaseLapses(j))

TextsFairSpec == TextsSpec /\ TextsFairness

-----------------------------------------------------------------------------
(* Every variable has its type, and a worker has a job exactly while it is *)
(* not idle (StartLocalizationWorker leases again only when a job is over). *)
TextsTypeOK == /\ source \in [Rows -> Sources]
          /\ row \in [Rows -> RowRecords]
          /\ cached \in SUBSET [Rows -> Sources]
          /\ jobStatus \in [TextJobs -> JobStatus]
          /\ owner \in [TextJobs -> Translators \cup {NoText}]
          /\ lapsed \in [TextJobs -> BOOLEAN]
          /\ pc \in [Actors -> TextPc]
          /\ doing \in [Actors -> TextJobs \cup {NoText}]
          /\ found \in [Actors -> [Rows -> Sources]]
          /\ plan \in [Actors -> [Rows -> Changes]]
          /\ todo \in [Actors -> [Rows -> Sources]]
          /\ tally \in [Actors -> [stored : BOOLEAN, failed : BOOLEAN]]
          /\ used \in [edits : 0..MaxEdits, saves : 0..MaxSaves, stops : 0..MaxStops]
          /\ \A w \in Translators : pc[w] = "idle" <=> doing[w] = NoText

(* A row that is shown was translated from the source text the row now     *)
(* holds: neither a worker that selected it under an older text, nor a      *)
(* reconciliation that listed it before it changed, makes it current.       *)
CurrentMatchesSource ==
    \A r \in Rows : row[r].status = "current" => row[r].text = row[r].hash

(* What a user saved by hand is replaced only by a user: no job, however   *)
(* late its result, and no reconciliation overwrites a manual text. And a   *)
(* generated text enters a row only by the worker the job is leased to at   *)
(* that moment: a worker that was replaced writes nothing any more.         *)
TextsHaveTheirWriter ==
    [][\A r \in Rows :
          /\ row[r].origin = "manual" =>
               \/ row'[r].origin = "manual" /\ row'[r].text = row[r].text
               \/ \E u \in Users : pc[u] = "save" /\ todo[u][r] # NoHash
          /\ row'[r].origin = "ai" /\ row'[r].text # row[r].text =>
               \E w \in Translators : /\ pc[w] = "storing" /\ pc'[w] # "storing"
                                 /\ todo[w][r] = row'[r].text
                                 /\ owner[doing[w]] = w]_textVars

(* While nothing stops or fails, what clients have cached under the present *)
(* version differs from what is shown only while an actor that changed a    *)
(* row has still to increment the version.                                  *)
OwesIncrement(a) == \/ pc[a] \in {"apply", "announce", "announceSave"}
                    \/ pc[a] \in {"translate", "storing", "publish"} /\ tally[a].stored

PublishedIsFresh ==
    used.stops = 0 =>
      cached \subseteq {Shown} \/ \E a \in Actors : OwesIncrement(a)

(* Once every request is over and every queued job is reported completed,   *)
(* what clients have cached under the present version is what is shown: the *)
(* version has changed after every change of the runtime output.            *)
Settled == /\ \A a \in Actors : pc[a] = "idle"
           /\ \A j \in TextJobs : jobStatus[j] \in {"absent", "completed"}

SettledIsFresh == Settled => cached \subseteq {Shown}

(* A job that is queued is completed or failed in the end, whatever stops. *)
EventuallyHandled ==
    \A j \in TextJobs : jobStatus[j] = "pending" ~> jobStatus[j] \in {"completed", "failed"}

=============================================================================
