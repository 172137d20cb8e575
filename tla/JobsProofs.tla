------------------------------ MODULE JobsProofs ------------------------------
(* Theorems about the durable jobs: the two halves of the cron scheduler,    *)
(* CronRoots, for any roots, processors and attempts, and CronSchedule, for  *)
(* any replicas, contents, definitions and instants; and Outbox, for any     *)
(* documents, keys, processors and bounds.                                   *)
EXTENDS CronRoots, CronSchedule, OutboxRefinement, FiniteSetTheorems, SequenceTheorems, WellFoundedInduction, TLAPS


Recorded(e) == \E i \in 1..Len(journal) : journal[i].root = e

HoldsScope(w) == rootPc[w] \in {"running", "fenced"}

(* The fence of the workflow's cursor lets in one transaction at a time.   *)
OneHoldsScope == \A w, q \in RootWorkers : HoldsScope(w) /\ HoldsScope(q) => w = q

(* A transaction with the scope, or that may still get it, works on a      *)
(* snapshot no root has committed after.                                   *)
SnapshotOK(w) ==
    HoldsScope(w) \/ (rootPc[w] = "begun" /\ "scope" \notin rootStale[w])
      => seen[w] = Len(journal) /\ Root(w) \notin rootMarker

(* What the position of a processor says of the event it serves.           *)
ClaimOK(w) ==
    /\ rootPc[w] # "idle" => rootServing[w] \in RootRuns
    /\ rootPc[w] = "fenced" => OwnsRoot(Root(w), RootAttempt(w))
    /\ rootPc[w] = "ok" => Root(w) \in rootMarker

MarkerIsRecord == \A e \in Roots : e \in rootMarker <=> Recorded(e)

DoneHasCommitted == \A e \in Roots : rootStatus[e] = "done" => e \in rootMarker

RootsIInv ==
    /\ RootsTypeOK
    /\ OneHoldsScope
    /\ \A w \in RootWorkers : SnapshotOK(w) /\ ClaimOK(w)
    /\ MarkerIsRecord
    /\ DoneHasCommitted
    /\ RootsCommitOnce
    /\ RootsAreSerial

-----------------------------------------------------------------------------

LEMMA RootsInitIInv == RootsInit => RootsIInv
<1> SUFFICES ASSUME RootsInit PROVE RootsIInv
  OBVIOUS
<1>1. RootsTypeOK
  BY RootBoundsAssumption DEF RootsInit, RootsTypeOK, RootStatus, RootPc
<1>2. Len(journal) = 0 /\ 1..Len(journal) = {}
  BY DEF RootsInit
<1>3. OneHoldsScope /\ \A w \in RootWorkers : SnapshotOK(w) /\ ClaimOK(w)
  BY DEF RootsInit, OneHoldsScope, HoldsScope, SnapshotOK, ClaimOK
<1>4. MarkerIsRecord /\ DoneHasCommitted
  BY <1>2 DEF RootsInit, MarkerIsRecord, Recorded, DoneHasCommitted
<1>5. RootsCommitOnce /\ RootsAreSerial
  BY <1>2 DEF RootsCommitOnce, RootsAreSerial
<1> QED
  BY <1>1, <1>3, <1>4, <1>5 DEF RootsIInv

(* A processor that is not idle serves one of the events.                  *)
LEMMA ServesARoot ==
  ASSUME RootsTypeOK, NEW w \in RootWorkers, ClaimOK(w), rootPc[w] # "idle"
  PROVE  /\ Root(w) \in Roots
         /\ RootAttempt(w) \in 1..MaxRootAttempts
         /\ rootServing[w] = <<Root(w), RootAttempt(w)>>
BY DEF ClaimOK, RootRuns, Root, RootAttempt

LEMMA WrittenType ==
  ASSUME RootsTypeOK, NEW E
  PROVE  RootWritten(E) \in [RootWorkers -> SUBSET {"scope", "claim"}]
BY DEF RootsTypeOK, RootWritten

LEMMA RootsTypeStep == RootsIInv /\ [RootsNext]_rootsVars => RootsTypeOK'
<1> SUFFICES ASSUME RootsIInv, [RootsNext]_rootsVars PROVE RootsTypeOK'
  OBVIOUS
<1> USE RootBoundsAssumption DEF rootDocVars, rootDataVars, txnVars
<1>0. RootsTypeOK /\ \A w \in RootWorkers : ClaimOK(w)
  BY DEF RootsIInv
<1>1. CASE EditWorkflow
  BY <1>0, <1>1 DEF RootsTypeOK, EditWorkflow
<1>2. CASE RecoverExhaustedRoots
  BY <1>0, <1>2 DEF RootsTypeOK, RecoverExhaustedRoots, RootWritten, RootStatus
<1>3. ASSUME NEW e \in Roots, QueueRoot(e) \/ RootLeaseLapse(e)
      PROVE  RootsTypeOK'
  BY <1>0, <1>3 DEF RootsTypeOK, QueueRoot, RootLeaseLapse, RootStatus
<1>4. ASSUME NEW w \in RootWorkers, NEW e \in Roots, ClaimRoot(w, e)
      PROVE  RootsTypeOK'
  <2>1. rootAttempts[e] + 1 \in 1..MaxRootAttempts
    BY <1>0, <1>4 DEF RootsTypeOK, ClaimRoot
  <2>2. rootServing' \in [RootWorkers -> RootRuns \cup {NoRoot}]
    BY <1>0, <1>4, <2>1 DEF RootsTypeOK, ClaimRoot, RootRuns
  <2>3. rootStale' \in [RootWorkers -> SUBSET {"scope", "claim"}]
    BY <1>0, <1>4, WrittenType DEF ClaimRoot
  <2>4. rootAttempts' \in [Roots -> 0..MaxRootAttempts]
    BY <1>0, <1>4, <2>1 DEF RootsTypeOK, ClaimRoot
  <2>5. rootStatus' \in [Roots -> RootStatus] /\ rootPc' \in [RootWorkers -> RootPc]
    BY <1>0, <1>4 DEF RootsTypeOK, ClaimRoot, RootStatus, RootPc
  <2> QED
    BY <1>0, <1>4, <2>2, <2>3, <2>4, <2>5 DEF RootsTypeOK, ClaimRoot
<1>5. ASSUME NEW w \in RootWorkers, AbandonRoot(w)
      PROVE  RootsTypeOK'
  BY <1>0, <1>5 DEF RootsTypeOK, AbandonRoot, Idle, RootPc
<1>6. ASSUME NEW w \in RootWorkers, RootStep(w)
      PROVE  RootsTypeOK'
  <2>1. CASE ReserveRootLease(w)
    BY <1>0, <2>1 DEF RootsTypeOK, ReserveRootLease, RootWritten, RootPc
  <2>2. CASE BeginRoot(w)
    <3>1. Len(journal) \in Nat
      BY <1>0, LenProperties DEF RootsTypeOK
    <3> QED
      BY <1>0, <2>2, <3>1 DEF RootsTypeOK, BeginRoot, RootPc
  <2>3. CASE FenceCronWorkflowScope(w) \/ FenceCronOutboxClaim(w)
    BY <1>0, <2>3 DEF RootsTypeOK, FenceCronWorkflowScope, FenceCronOutboxClaim, RootPc
  <2>4. CASE CommitRoot(w)
    <3>1. Root(w) \in Roots
      BY <1>0, <2>4, ServesARoot DEF CommitRoot
    <3>2. [root |-> Root(w), seen |-> seen[w], ran |-> enabled[w]] \in RootCommits
      BY <1>0, <3>1 DEF RootsTypeOK, RootCommits
    <3>3. journal' \in Seq(RootCommits)
      BY <1>0, <2>4, <3>2 DEF RootsTypeOK, CommitRoot
    <3> QED
      BY <1>0, <2>4, <3>1, <3>3 DEF RootsTypeOK, CommitRoot, RootPc
  <2>5. CASE RetryRoot(w) \/ AbortRoot(w)
    BY <1>0, <2>5 DEF RootsTypeOK, RetryRoot, AbortRoot, RootPc
  <2>6. ASSUME NEW e \in Roots, NEW n \in 1..MaxRootAttempts,
               NEW verdict \in RootStatus, AcknowledgeRoot(w, e, n, verdict)
        PROVE  RootsTypeOK'
    <3>1. rootStale' \in [RootWorkers -> SUBSET {"scope", "claim"}]
      BY <1>0, <2>6, WrittenType DEF AcknowledgeRoot, RootsTypeOK
    <3>2. rootStatus' \in [Roots -> RootStatus] /\ rootDue' \in [Roots -> BOOLEAN]
      BY <1>0, <2>6 DEF AcknowledgeRoot, RootsTypeOK
    <3>3. /\ rootPc' \in [RootWorkers -> RootPc]
          /\ rootServing' \in [RootWorkers -> RootRuns \cup {NoRoot}]
      BY <1>0, <2>6 DEF AcknowledgeRoot, Idle, RootsTypeOK, RootPc
    <3> QED
      BY <1>0, <2>6, <3>1, <3>2, <3>3 DEF AcknowledgeRoot, RootsTypeOK
  <2>7. CASE MarkRootDone(w) \/ MarkRootFailed(w)
    BY <2>6, <2>7 DEF MarkRootDone, MarkRootFailed, RootStatus
  <2> QED
    BY <1>6, <2>1, <2>2, <2>3, <2>4, <2>5, <2>6, <2>7 DEF RootStep
<1>7. CASE UNCHANGED rootsVars
  BY <1>0, <1>7 DEF RootsTypeOK, rootsVars
<1> QED
  BY <1>1, <1>2, <1>3, <1>4, <1>5, <1>6, <1>7 DEF RootsNext

-----------------------------------------------------------------------------
(* Steps that commit nothing.                                              *)

LEMMA LogKept ==
  ASSUME RootsIInv, UNCHANGED rootDataVars
  PROVE  MarkerIsRecord' /\ RootsCommitOnce' /\ RootsAreSerial'
BY DEF RootsIInv, rootDataVars, MarkerIsRecord, Recorded, RootsCommitOnce, RootsAreSerial

(* What the steps have in common that commit nothing: at most one processor*)
(* moves, a snapshot stays behind once it is, no claim that is fenced is   *)
(* taken away, and an event is done only when its root has committed.      *)
MovesOnly(W) ==
    /\ UNCHANGED rootDataVars
    /\ \A w, q \in W : w = q
    /\ \A q \in RootWorkers \ W :
         UNCHANGED <<rootPc[q], rootServing[q], seen[q]>> /\ rootStale[q] \subseteq rootStale'[q]
    /\ \A e \in Roots, n \in 1..MaxRootAttempts :
         ClaimLocked(e) /\ OwnsRoot(e, n) => OwnsRoot(e, n)'
    /\ \A e \in Roots : rootStatus'[e] = "done" => e \in rootMarker

LEMMA MoveStep ==
  ASSUME RootsIInv, RootsTypeOK', NEW W \in SUBSET RootWorkers, MovesOnly(W),
         \A w \in W : /\ SnapshotOK(w)' /\ ClaimOK(w)'
                      /\ HoldsScope(w)' => HoldsScope(w) \/ ~ScopeLocked(w)
  PROVE  RootsIInv'
<1>0. RootsTypeOK /\ OneHoldsScope /\ \A w \in RootWorkers : SnapshotOK(w) /\ ClaimOK(w)
  BY DEF RootsIInv
<1>1. OneHoldsScope'
  BY <1>0 DEF MovesOnly, OneHoldsScope, HoldsScope, ScopeLocked
<1>2. DoneHasCommitted'
  BY DEF MovesOnly, DoneHasCommitted, rootDataVars
<1>3. ASSUME NEW q \in RootWorkers \ W
      PROVE  SnapshotOK(q)'
  BY <1>0 DEF MovesOnly, SnapshotOK, HoldsScope, Root, rootDataVars
<1>4. ASSUME NEW q \in RootWorkers \ W
      PROVE  ClaimOK(q)'
  <2>1. CASE rootPc[q] = "fenced"
    <3>1. Root(q) \in Roots /\ RootAttempt(q) \in 1..MaxRootAttempts /\ ClaimLocked(Root(q))
      BY <1>0, <2>1, ServesARoot DEF ClaimLocked, Root
    <3>2. OwnsRoot(Root(q), RootAttempt(q))'
      BY <1>0, <2>1, <3>1 DEF ClaimOK, MovesOnly, Root, RootAttempt
    <3> QED
      BY <1>0, <2>1, <3>2 DEF ClaimOK, MovesOnly
  <2>2. CASE rootPc[q] # "fenced"
    BY <1>0, <2>2 DEF ClaimOK, MovesOnly, Root, rootDataVars
  <2> QED
    BY <2>1, <2>2
<1>5. MarkerIsRecord' /\ RootsCommitOnce' /\ RootsAreSerial'
  BY LogKept DEF MovesOnly
<1> QED
  BY <1>1, <1>2, <1>3, <1>4, <1>5 DEF RootsIInv

LEMMA RootCommitStep ==
  ASSUME RootsIInv, RootsTypeOK', NEW w \in RootWorkers, CommitRoot(w)
  PROVE  RootsIInv'
<1>0. /\ RootsTypeOK /\ OneHoldsScope /\ MarkerIsRecord /\ DoneHasCommitted
      /\ RootsCommitOnce /\ RootsAreSerial
      /\ \A q \in RootWorkers : SnapshotOK(q) /\ ClaimOK(q)
  BY DEF RootsIInv
<1> DEFINE commit == [root |-> Root(w), seen |-> seen[w], ran |-> enabled[w]]
<1>1. /\ rootPc[w] = "fenced"
      /\ journal' = Append(journal, commit)
      /\ rootMarker' = rootMarker \cup {Root(w)}
      /\ rootPc' \in {[rootPc EXCEPT ![w] = r] : r \in {"ok", "err"}}
      /\ rootStale' = [q \in RootWorkers |-> IF rootPc[q] = "begun" THEN rootStale[q] \cup {"scope"}
                                                                   ELSE rootStale[q]]
      /\ UNCHANGED <<rootStatus, rootAttempts, rootServing, seen>>
  BY DEF CommitRoot, rootDocVars, txnVars
<1>2. Root(w) \in Roots /\ RootAttempt(w) \in 1..MaxRootAttempts
  BY <1>0, <1>1, ServesARoot
<1>3. Len(journal) \in Nat /\ seen[w] = Len(journal) /\ Root(w) \notin rootMarker
  BY <1>0, <1>1, LenProperties DEF SnapshotOK, HoldsScope, RootsTypeOK
<1>4. /\ Len(journal') = Len(journal) + 1
      /\ \A i \in 1..Len(journal) : journal'[i] = journal[i]
      /\ journal'[Len(journal) + 1] = commit
  BY <1>0, <1>1, AppendProperties DEF RootsTypeOK
<1>5. RootsAreSerial'
  BY <1>0, <1>3, <1>4 DEF RootsAreSerial
<1>6. RootsCommitOnce'
  <2>1. \A i \in 1..Len(journal) : journal[i].root # Root(w)
    BY <1>0, <1>2, <1>3 DEF MarkerIsRecord, Recorded
  <2> QED
    BY <1>0, <1>3, <1>4, <2>1 DEF RootsCommitOnce
<1>7. MarkerIsRecord'
  <2> SUFFICES ASSUME NEW e \in Roots
               PROVE  e \in rootMarker' <=> Recorded(e)'
    BY DEF MarkerIsRecord
  <2>1. Recorded(e)' <=> Recorded(e) \/ e = Root(w)
    BY <1>3, <1>4 DEF Recorded
  <2> QED
    BY <1>0, <1>1, <2>1 DEF MarkerIsRecord
<1>8. DoneHasCommitted'
  BY <1>0, <1>1 DEF DoneHasCommitted
<1>9. OneHoldsScope'
  BY <1>0, <1>1 DEF OneHoldsScope, HoldsScope, RootsTypeOK
<1>10. ASSUME NEW q \in RootWorkers
       PROVE  SnapshotOK(q)' /\ ClaimOK(q)'
  <2>1. CASE q = w
    BY <1>0, <1>1, <1>2, <2>1 DEF SnapshotOK, ClaimOK, HoldsScope, Root, RootsTypeOK
  <2>2. CASE q # w
    <3>1. ~HoldsScope(q) /\ rootPc'[q] = rootPc[q]
      BY <1>0, <1>1, <2>2 DEF OneHoldsScope, HoldsScope, RootsTypeOK
    <3>2. SnapshotOK(q)'
      BY <1>1, <3>1 DEF SnapshotOK, HoldsScope
    <3>3. ClaimOK(q)'
      BY <1>0, <1>1, <3>1 DEF ClaimOK, OwnsRoot, HoldsScope, Root, RootAttempt
    <3> QED
      BY <3>2, <3>3
  <2> QED
    BY <2>1, <2>2
<1> QED
  BY <1>0, <1>5, <1>6, <1>7, <1>8, <1>9, <1>10 DEF RootsIInv

LEMMA DocStep ==
  ASSUME RootsIInv, RootsTypeOK',
         \/ EditWorkflow \/ RecoverExhaustedRoots \/ UNCHANGED rootsVars
         \/ \E e \in Roots : QueueRoot(e) \/ RootLeaseLapse(e)
  PROVE  RootsIInv'
<1>0. RootsTypeOK /\ DoneHasCommitted
  BY DEF RootsIInv
<1> USE DEF rootDocVars, txnVars
<1>1. CASE EditWorkflow \/ UNCHANGED rootsVars
  <2>1. MovesOnly({})
    BY <1>0, <1>1 DEF MovesOnly, EditWorkflow, rootsVars, OwnsRoot, DoneHasCommitted
  <2> QED
    BY <2>1, MoveStep
<1>2. CASE RecoverExhaustedRoots
  <2>1. MovesOnly({})
    BY <1>0, <1>2
    DEF MovesOnly, RecoverExhaustedRoots, OwnsRoot, DoneHasCommitted, RootWritten
  <2> QED
    BY <2>1, MoveStep
<1>3. ASSUME NEW e \in Roots, QueueRoot(e) \/ RootLeaseLapse(e)
      PROVE  RootsIInv'
  <2>1. MovesOnly({})
    BY <1>0, <1>3
    DEF MovesOnly, QueueRoot, RootLeaseLapse, OwnsRoot, DoneHasCommitted, RootsTypeOK
  <2> QED
    BY <2>1, MoveStep
<1> QED
  BY <1>1, <1>2, <1>3

LEMMA AcknowledgeStep ==
  ASSUME RootsIInv, RootsTypeOK', NEW w \in RootWorkers,
         NEW e \in Roots, NEW n \in 1..MaxRootAttempts, NEW verdict \in RootStatus,
         AcknowledgeRoot(w, e, n, verdict),
         verdict = "done" => rootPc[w] = "ok"
  PROVE  RootsIInv'
<1>0. RootsTypeOK /\ DoneHasCommitted /\ ClaimOK(w)
  BY DEF RootsIInv
<1>1. rootPc'[w] = "idle"
  BY <1>0 DEF AcknowledgeRoot, Idle, RootsTypeOK
<1>2. SnapshotOK(w)' /\ ClaimOK(w)' /\ ~HoldsScope(w)'
  BY <1>1 DEF SnapshotOK, ClaimOK, HoldsScope
<1>3. verdict = "done" => e \in rootMarker
  BY <1>0 DEF AcknowledgeRoot, ClaimOK, Root
<1>4. \A q \in RootWorkers \ {w} :
        UNCHANGED <<rootPc[q], rootServing[q], seen[q]>> /\ rootStale[q] \subseteq rootStale'[q]
  <2>1. rootStale' = rootStale \/ rootStale' = RootWritten({e})
    BY DEF AcknowledgeRoot
  <2>2. \A q \in RootWorkers : rootStale[q] \subseteq RootWritten({e})[q]
    BY DEF RootWritten
  <2>3. \A q \in RootWorkers \ {w} : UNCHANGED <<rootPc[q], rootServing[q], seen[q]>>
    BY <1>0 DEF AcknowledgeRoot, Idle, RootsTypeOK, txnVars
  <2> QED
    BY <2>1, <2>2, <2>3
<1>5. \A f \in Roots, m \in 1..MaxRootAttempts :
        ClaimLocked(f) /\ OwnsRoot(f, m) => OwnsRoot(f, m)'
  BY <1>0 DEF AcknowledgeRoot, OwnsRoot, RootsTypeOK
<1>6. \A f \in Roots : rootStatus'[f] = "done" => f \in rootMarker
  BY <1>0, <1>3 DEF AcknowledgeRoot, DoneHasCommitted, RootsTypeOK
<1>7. MovesOnly({w})
  BY <1>4, <1>5, <1>6 DEF MovesOnly, AcknowledgeRoot
<1> QED
  BY <1>2, <1>7, MoveStep

LEMMA WorkerStep ==
  ASSUME RootsIInv, RootsTypeOK', NEW w \in RootWorkers,
         AbandonRoot(w) \/ RootStep(w) \/ \E e \in Roots : ClaimRoot(w, e)
  PROVE  RootsIInv'
<1>0. RootsTypeOK /\ DoneHasCommitted /\ SnapshotOK(w) /\ ClaimOK(w)
  BY DEF RootsIInv
<1> USE DEF rootDocVars, txnVars
<1>1. ASSUME NEW e \in Roots, ClaimRoot(w, e)
      PROVE  RootsIInv'
  <2>1. rootPc'[w] = "claimed" /\ rootServing'[w] \in RootRuns
    BY <1>0, <1>1 DEF ClaimRoot, RootsTypeOK, RootRuns
  <2>2. MovesOnly({w})
    BY <1>0, <1>1 DEF MovesOnly, ClaimRoot, OwnsRoot, DoneHasCommitted, RootWritten, RootsTypeOK
  <2> QED
    BY <2>1, <2>2, MoveStep DEF SnapshotOK, ClaimOK, HoldsScope
<1>2. CASE AbandonRoot(w)
  <2>1. rootPc'[w] = "idle"
    BY <1>0, <1>2 DEF AbandonRoot, Idle, RootsTypeOK
  <2>2. MovesOnly({w})
    BY <1>0, <1>2 DEF MovesOnly, AbandonRoot, Idle, OwnsRoot, DoneHasCommitted, RootsTypeOK
  <2> QED
    BY <2>1, <2>2, MoveStep DEF SnapshotOK, ClaimOK, HoldsScope
<1>3. CASE ReserveRootLease(w)
  <2>1. rootPc'[w] = "leased" /\ rootServing'[w] \in RootRuns
    BY <1>0, <1>3 DEF ReserveRootLease, RootsTypeOK, ClaimOK
  <2>2. MovesOnly({w})
    BY <1>0, <1>3
    DEF MovesOnly, ReserveRootLease, OwnsRoot, DoneHasCommitted, RootWritten, RootsTypeOK
  <2> QED
    BY <2>1, <2>2, MoveStep DEF SnapshotOK, ClaimOK, HoldsScope
<1>4. CASE BeginRoot(w)
  <2>1. /\ rootPc'[w] = (IF Root(w) \in rootMarker THEN "ok" ELSE "begun")
        /\ rootServing'[w] \in RootRuns
        /\ seen'[w] = Len(journal)
    BY <1>0, <1>4 DEF BeginRoot, RootsTypeOK, ClaimOK
  <2>2. MovesOnly({w})
    BY <1>0, <1>4 DEF MovesOnly, BeginRoot, OwnsRoot, DoneHasCommitted, RootsTypeOK
  <2>3. SnapshotOK(w)' /\ ClaimOK(w)' /\ ~HoldsScope(w)'
    BY <1>4, <2>1 DEF BeginRoot, SnapshotOK, ClaimOK, HoldsScope, Root, rootDataVars
  <2> QED
    BY <2>2, <2>3, MoveStep
<1>5. CASE FenceCronWorkflowScope(w)
  <2>1. rootPc'[w] = "running" /\ rootServing'[w] \in RootRuns
    BY <1>0, <1>5 DEF FenceCronWorkflowScope, RootsTypeOK, ClaimOK
  <2>2. MovesOnly({w})
    BY <1>0, <1>5 DEF MovesOnly, FenceCronWorkflowScope, OwnsRoot, DoneHasCommitted, RootsTypeOK
  <2>3. SnapshotOK(w)' /\ ClaimOK(w)' /\ ~ScopeLocked(w)
    BY <1>0, <1>5, <2>1
    DEF FenceCronWorkflowScope, SnapshotOK, ClaimOK, HoldsScope, Root, rootDataVars
  <2> QED
    BY <2>2, <2>3, MoveStep
<1>6. CASE FenceCronOutboxClaim(w)
  <2>1. /\ rootPc'[w] = (IF OwnsRoot(Root(w), RootAttempt(w)) /\ ~rootDue[Root(w)]
                          THEN "fenced" ELSE "err")
        /\ rootServing'[w] \in RootRuns
    BY <1>0, <1>6 DEF FenceCronOutboxClaim, RootsTypeOK, ClaimOK
  <2>2. MovesOnly({w})
    BY <1>0, <1>6 DEF MovesOnly, FenceCronOutboxClaim, OwnsRoot, DoneHasCommitted, RootsTypeOK
  <2>3. SnapshotOK(w)' /\ ClaimOK(w)' /\ HoldsScope(w)
    BY <1>0, <1>6, <2>1 DEF FenceCronOutboxClaim, SnapshotOK, ClaimOK, HoldsScope,
       OwnsRoot, Root, RootAttempt, rootDataVars
  <2> QED
    BY <2>2, <2>3, MoveStep
<1>7. CASE RetryRoot(w) \/ AbortRoot(w)
  <2>1. rootPc'[w] \in {"leased", "err"} /\ rootServing'[w] \in RootRuns
    BY <1>0, <1>7 DEF RetryRoot, AbortRoot, RootsTypeOK, ClaimOK
  <2>2. MovesOnly({w})
    BY <1>0, <1>7 DEF MovesOnly, RetryRoot, AbortRoot, OwnsRoot, DoneHasCommitted, RootsTypeOK
  <2> QED
    BY <2>1, <2>2, MoveStep DEF SnapshotOK, ClaimOK, HoldsScope
<1>8. CASE MarkRootDone(w) \/ MarkRootFailed(w)
  BY <1>8, AcknowledgeStep DEF MarkRootDone, MarkRootFailed, RootStatus
<1> QED
  BY <1>1, <1>2, <1>3, <1>4, <1>5, <1>6, <1>7, <1>8, RootCommitStep DEF RootStep

LEMMA RootsInductive == RootsSpec => []RootsIInv
<1>1. RootsIInv /\ [RootsNext]_rootsVars => RootsIInv'
  BY RootsTypeStep, DocStep, WorkerStep DEF RootsNext
<1> QED
  BY <1>1, RootsInitIInv, PTL DEF RootsSpec

-----------------------------------------------------------------------------

(* The status, the attempts and the transaction of every root are well     *)
(* formed, and no event is claimed more often than maxAttempts.            *)
THEOREM CronRootsTypes == RootsSpec => []RootsTypeOK
BY RootsInductive, PTL DEF RootsIInv

(* However often a root is claimed, retried, taken over by another replica *)
(* or reported as failed after its commit, its transaction commits once.   *)
THEOREM CronRootsCommitOnce == RootsSpec => []RootsCommitOnce
BY RootsInductive, PTL DEF RootsIInv

(* Every committed root of a workflow has read the effects of all the roots*)
(* that committed before it.                                               *)
THEOREM CronRootsAreSerial == RootsSpec => []RootsAreSerial
BY RootsInductive, PTL DEF RootsIInv

(* An attempt whose claim has been taken over commits nothing.             *)
THEOREM CronRootsCommitUnderClaim == RootsSpec => CommitsUnderClaim
<1>1. RootsIInv /\ [RootsNext]_rootsVars =>
        [journal' # journal =>
           \E w \in RootWorkers : /\ rootPc[w] = "fenced" /\ rootPc'[w] # "fenced"
                                  /\ OwnsRoot(Root(w), RootAttempt(w))
                                  /\ journal'[Len(journal')].root = Root(w)]_rootsVars
  <2> DEFINE Committed(w) == /\ rootPc[w] = "fenced" /\ rootPc'[w] # "fenced"
                             /\ OwnsRoot(Root(w), RootAttempt(w))
                             /\ journal'[Len(journal')].root = Root(w)
  <2> SUFFICES ASSUME RootsIInv, RootsNext, journal' # journal
               PROVE  \E w \in RootWorkers : Committed(w)
    BY DEF rootsVars
  <2>0. RootsTypeOK /\ \A w \in RootWorkers : ClaimOK(w)
    BY DEF RootsIInv
  <2>1. ASSUME NEW w \in RootWorkers, CommitRoot(w)
        PROVE  Committed(w)
    <3>1. journal'[Len(journal')].root = Root(w)
      BY <2>0, <2>1, AppendProperties, ServesARoot DEF CommitRoot, RootsTypeOK, RootCommits
    <3> QED
      BY <2>0, <2>1, <3>1 DEF CommitRoot, ClaimOK, RootsTypeOK
  <2>2. \E w \in RootWorkers : CommitRoot(w)
    BY DEF RootsNext, RootStep, EditWorkflow, RecoverExhaustedRoots, QueueRoot,
       RootLeaseLapse, ClaimRoot, AbandonRoot, ReserveRootLease, BeginRoot,
       FenceCronWorkflowScope, FenceCronOutboxClaim, RetryRoot, AbortRoot,
       MarkRootDone, MarkRootFailed, AcknowledgeRoot, rootDataVars
  <2> QED
    BY <2>1, <2>2
<1> QED
  BY <1>1, RootsInductive, PTL DEF RootsSpec, CommitsUnderClaim

-----------------------------------------------------------------------------
(* Refinement.                                                             *)

LEMMA RootsInitMaps == RootsInit => RootJobs!Init
<1> SUFFICES ASSUME RootsInit PROVE RootJobs!Init
  OBVIOUS
<1>1. \A e \in Roots : CommitsOf(e) = {}
  BY DEF RootsInit, CommitsOf
<1>2. \A e \in Roots : Cardinality(CommitsOf(e)) = 0
  BY <1>1, FS_EmptySet
<1> QED
  BY <1>2 DEF RootsInit, RootJobs!Init, RootPhase, UnfinishedRoot

(* A step that keeps the journal and moves no event between phases.        *)
LEMMA RootsStutter ==
  ASSUME UNCHANGED rootDataVars,
         \A e \in Roots : RootPhase(e)' = RootPhase(e) /\ (rootStatus'[e] = "absent" <=> rootStatus[e] = "absent")
  PROVE  UNCHANGED RootJobs!vars
<1>1. \A e \in Roots : CommitsOf(e)' = CommitsOf(e)
  BY DEF CommitsOf, rootDataVars
<1> QED
  BY <1>1 DEF RootJobs!vars, rootDataVars

(* A batch of events, or one, is given up.                                 *)
LEMMA RootsGiveUp ==
  ASSUME RootsTypeOK, UNCHANGED rootDataVars, NEW E \in SUBSET Roots,
         \A e \in E : UnfinishedRoot(e),
         \A e \in Roots : rootStatus'[e] = IF e \in E THEN "failed" ELSE rootStatus[e]
  PROVE  RootJobs!Next
<1>1. \A e \in Roots : CommitsOf(e)' = CommitsOf(e)
  BY DEF CommitsOf, rootDataVars
<1>2. \A e \in E : RootPhase(e) = "queued" /\ rootStatus[e] # "absent"
  BY DEF RootPhase, UnfinishedRoot
<1>3. \A e \in Roots : RootPhase(e)' = IF e \in E THEN "failed" ELSE RootPhase(e)
  BY DEF RootPhase, UnfinishedRoot
<1>4. RootJobs!GiveUp(E)
  BY <1>1, <1>2, <1>3 DEF RootJobs!GiveUp, rootDataVars
<1> QED
  BY <1>4 DEF RootJobs!Next

(* Queueing an event submits it, as the only submission of its key.        *)
LEMMA RootsSubmit ==
  ASSUME RootsTypeOK, NEW e \in Roots, QueueRoot(e)
  PROVE  RootJobs!Next
<1>1. \A f \in Roots : CommitsOf(f)' = CommitsOf(f)
  BY DEF QueueRoot, CommitsOf, rootDataVars
<1>2. RootPhase(e) = "absent"
  BY DEF QueueRoot, RootPhase, UnfinishedRoot
<1>3. \A f \in Roots : /\ RootPhase(f)' = (IF f = e THEN "queued" ELSE RootPhase(f))
                       /\ rootStatus'[f] = "absent" <=> rootStatus[f] = "absent" /\ f # e
  BY DEF QueueRoot, RootPhase, UnfinishedRoot, RootsTypeOK
<1>4. RootJobs!Submit(e, e)
  BY <1>1, <1>2, <1>3, RootsAssumption DEF RootJobs!Submit, RootJobs!Keys, QueueRoot, rootDataVars
<1> QED
  BY <1>4 DEF RootJobs!Next, RootJobs!Keys

(* A commit performs the job of its root, which was not performed before.  *)
LEMMA RootsPerform ==
  ASSUME RootsIInv, NEW w \in RootWorkers, CommitRoot(w)
  PROVE  RootJobs!Next
<1>0. RootsTypeOK /\ ClaimOK(w) /\ SnapshotOK(w)
  BY DEF RootsIInv
<1>1. Root(w) \in Roots /\ rootStatus[Root(w)] = "processing"
  BY <1>0, ServesARoot DEF CommitRoot, ClaimOK, OwnsRoot
<1>2. Len(journal) \in Nat /\ Root(w) \notin rootMarker
  BY <1>0, LenProperties DEF SnapshotOK, HoldsScope, CommitRoot, RootsTypeOK
<1>3. /\ Len(journal') = Len(journal) + 1
      /\ \A i \in 1..Len(journal) : journal'[i] = journal[i]
      /\ journal'[Len(journal) + 1].root = Root(w)
  BY <1>0, AppendProperties DEF CommitRoot, RootsTypeOK
<1>4. \A e \in Roots :
        CommitsOf(e)' = IF e = Root(w) THEN CommitsOf(e) \cup {Len(journal) + 1} ELSE CommitsOf(e)
  BY <1>2, <1>3 DEF CommitsOf
<1>5. \A e \in Roots : /\ IsFiniteSet(CommitsOf(e))
                       /\ Len(journal) + 1 \notin CommitsOf(e)
  <2> SUFFICES ASSUME NEW e \in Roots
               PROVE  IsFiniteSet(CommitsOf(e)) /\ Len(journal) + 1 \notin CommitsOf(e)
    OBVIOUS
  <2>1. IsFiniteSet(1..Len(journal)) /\ CommitsOf(e) \in SUBSET (1..Len(journal))
    BY <1>2, FS_Interval DEF CommitsOf
  <2> QED
    BY <1>2, <2>1, FS_Subset
<1>6. \A e \in Roots : Cardinality(CommitsOf(e) \cup {Len(journal) + 1}) = Cardinality(CommitsOf(e)) + 1
  BY <1>5, FS_AddElement
<1>7. \A e \in Roots :
        Cardinality(CommitsOf(e)') = IF e = Root(w) THEN Cardinality(CommitsOf(e)) + 1
                                                    ELSE Cardinality(CommitsOf(e))
  BY <1>4, <1>6
<1>8. UNCHANGED rootStatus /\ rootMarker' = rootMarker \cup {Root(w)}
  BY DEF CommitRoot, rootDocVars
<1>9. RootJobs!Perform(Root(w))
  BY <1>1, <1>2, <1>7, <1>8 DEF RootJobs!Perform, RootPhase, UnfinishedRoot
<1> QED
  BY <1>1, <1>9 DEF RootJobs!Next

LEMMA RootsAcknowledgeMaps ==
  ASSUME RootsIInv, NEW w \in RootWorkers, MarkRootDone(w) \/ MarkRootFailed(w)
  PROVE  [RootJobs!Next]_(RootJobs!vars)
<1>0. RootsTypeOK /\ ClaimOK(w)
  BY DEF RootsIInv
<1>1. PICK e \in Roots, n \in 1..MaxRootAttempts, verdict \in {"done", "failed", "pending"} :
         AcknowledgeRoot(w, e, n, verdict) /\ (verdict = "done" => rootPc[w] = "ok")
  BY DEF MarkRootDone, MarkRootFailed
<1>2. UNCHANGED rootDataVars
  BY <1>1 DEF AcknowledgeRoot
<1>3. CASE ~OwnsRoot(e, n) \/ verdict = "pending"
  <2>1. \A f \in Roots : /\ RootPhase(f)' = RootPhase(f)
                         /\ rootStatus'[f] = "absent" <=> rootStatus[f] = "absent"
    BY <1>0, <1>1, <1>3 DEF AcknowledgeRoot, RootPhase, UnfinishedRoot, OwnsRoot, RootsTypeOK
  <2> QED
    BY <1>2, <2>1, RootsStutter
<1>4. CASE OwnsRoot(e, n) /\ verdict = "failed"
  <2>1. \A f \in Roots : rootStatus'[f] = IF f \in {e} THEN "failed" ELSE rootStatus[f]
    BY <1>0, <1>1, <1>4 DEF AcknowledgeRoot, RootsTypeOK
  <2> QED
    BY <1>0, <1>2, <1>4, <2>1, RootsGiveUp DEF OwnsRoot, UnfinishedRoot
<1>5. CASE OwnsRoot(e, n) /\ verdict = "done"
  <2>1. RootPhase(e) = "queued" /\ rootStatus[e] # "absent"
    BY <1>5 DEF OwnsRoot, RootPhase, UnfinishedRoot
  <2>2. e \in rootMarker
    BY <1>0, <1>1, <1>5 DEF AcknowledgeRoot, ClaimOK, Root
  <2>3. \A f \in Roots : /\ RootPhase(f)' = (IF f = e THEN "done" ELSE RootPhase(f))
                         /\ rootStatus'[f] = "absent" <=> rootStatus[f] = "absent"
    BY <1>0, <1>1, <1>5, <2>1 DEF AcknowledgeRoot, RootPhase, UnfinishedRoot, RootsTypeOK
  <2>4. \A f \in Roots : CommitsOf(f)' = CommitsOf(f)
    BY <1>2 DEF CommitsOf, rootDataVars
  <2>5. RootJobs!Finish(e)
    BY <1>2, <2>1, <2>2, <2>3, <2>4
    DEF RootJobs!Finish, RootJobs!Complete, RootJobs!Keys, rootDataVars
  <2> QED
    BY <2>5 DEF RootJobs!Next
<1> QED
  BY <1>1, <1>3, <1>4, <1>5

LEMMA RootsStepMaps == RootsIInv /\ [RootsNext]_rootsVars => [RootJobs!Next]_(RootJobs!vars)
<1> SUFFICES ASSUME RootsIInv, [RootsNext]_rootsVars PROVE [RootJobs!Next]_(RootJobs!vars)
  OBVIOUS
<1>0. RootsTypeOK
  BY DEF RootsIInv
<1>1. CASE RecoverExhaustedRoots
  <2> DEFINE E == {e \in Roots : /\ UnfinishedRoot(e) /\ rootDue[e] /\ ~ClaimLocked(e)
                                /\ rootAttempts[e] >= MaxRootAttempts}
  <2>1. \A e \in Roots : rootStatus'[e] = IF e \in E THEN "failed" ELSE rootStatus[e]
    BY <1>1 DEF RecoverExhaustedRoots
  <2> QED
    BY <1>0, <1>1, <2>1, RootsGiveUp DEF RecoverExhaustedRoots
<1>2. ASSUME NEW w \in RootWorkers, NEW e \in Roots, ClaimRoot(w, e)
      PROVE  UNCHANGED RootJobs!vars
  <2>1. \A f \in Roots : /\ RootPhase(f)' = RootPhase(f)
                         /\ rootStatus'[f] = "absent" <=> rootStatus[f] = "absent"
    BY <1>0, <1>2 DEF ClaimRoot, RootPhase, UnfinishedRoot, RootsTypeOK
  <2> QED
    BY <1>2, <2>1, RootsStutter DEF ClaimRoot
<1>3. ASSUME UNCHANGED <<rootDataVars, rootStatus>>
      PROVE  UNCHANGED RootJobs!vars
  BY <1>3, RootsStutter DEF RootPhase, UnfinishedRoot
<1>4. ASSUME NEW w \in RootWorkers,
             \/ AbandonRoot(w) \/ ReserveRootLease(w) \/ BeginRoot(w)
             \/ FenceCronWorkflowScope(w) \/ FenceCronOutboxClaim(w)
             \/ RetryRoot(w) \/ AbortRoot(w)
      PROVE  UNCHANGED RootJobs!vars
  BY <1>3, <1>4 DEF AbandonRoot, ReserveRootLease, BeginRoot, FenceCronWorkflowScope,
     FenceCronOutboxClaim, RetryRoot, AbortRoot, rootDocVars
<1>5. CASE EditWorkflow \/ (\E e \in Roots : RootLeaseLapse(e)) \/ UNCHANGED rootsVars
  BY <1>3, <1>5 DEF EditWorkflow, RootLeaseLapse, rootsVars, rootDocVars
<1> QED
  BY <1>0, <1>1, <1>2, <1>4, <1>5, RootsSubmit, RootsPerform, RootsAcknowledgeMaps
  DEF RootsNext, RootStep

(* To the scheduler the roots are durable jobs: submitted once, performed  *)
(* at most once, done only when performed, and final when they are done or *)
(* failed, whatever the processors do.                                     *)
THEOREM CronRootsAreJobs == RootsSpec => RootsAreJobs
BY RootsInitMaps, RootsStepMaps, RootsInductive, PTL DEF RootsSpec, RootJobs!Spec, RootsAreJobs

-----------------------------------------------------------------------------
(* The schedule.                                                             *)

(* The cursor stands at an instant of its definition.                      *)
CursorFires == cursor # NoCursor => cursor.nextAt \in Fires[cursor.revision]

(* A poll works for a definition, at a time that has come.                 *)
Busy(r) == progress[r] # "idle" => Defined(snapshot[r])
Polled(r) == polled[r] <= clock

(* What the steps of a poll rely on: a registration finds a later instant, *)
(* a skip an instant inside the horizon, and an event is due.              *)
Registers(r) ==
  progress[r] \in {"register", "registering"} => Later(Definition(r), polled[r]) # {} /\ queued[r] = 0
Skips(r) ==
  /\ progress[r] \in {"skip", "skipping"} => held[r] + Horizon < polled[r] /\ queued[r] = 0
  /\ progress[r] = "skipping" => {x \in Fires[Definition(r)] : x >= Cutoff(r)} # {}
Queues(r) ==
  /\ progress[r] \in {"queue", "queueing"} => held[r] <= polled[r] /\ queued[r] < Batch
  /\ progress[r] = "queueing" => Later(Definition(r), held[r]) # {}

(* A transaction that can still commit has seen the live workflows, and    *)
(* the cursor as it is.                                                    *)
Fresh(r) ==
  progress[r] \in Open /\ stale[r] = {} =>
    /\ FenceHolds(r)
    /\ progress[r] = "registering" => ~(cursor # NoCursor /\ cursor.revision = Definition(r))
    /\ progress[r] \in {"skipping", "queueing"} => CursorUnmoved(r)

ReplicaOK(r) == Busy(r) /\ Polled(r) /\ Registers(r) /\ Skips(r) /\ Queues(r) /\ Fresh(r)

ScheduleInv ==
  /\ ScheduleTypeOK
  /\ CursorFires
  /\ \A r \in Replicas : ReplicaOK(r)
  /\ NoOccurrenceLost
  /\ OncePerInstant

-----------------------------------------------------------------------------
(* Instants.                                                               *)

LEMMA EarliestLeast ==
  ASSUME NEW S, S \subseteq Nat, S # {}
  PROVE  Earliest(S) \in S /\ \A y \in S : Earliest(S) <= y
<1> DEFINE R == {pair \in Nat \X Nat : pair[1] < pair[2]}
<1>1. OpToRel(<, Nat) = R
  BY Zenon DEF OpToRel
<1>2. IsWellFoundedOn(R, Nat)
  BY <1>1, NatLessThanWellFounded, Zenon
<1>3. \A x, y \in Nat : <<y, x>> \notin R => x <= y
  OBVIOUS
<1> HIDE DEF R
<1>4. PICK x \in S : \A y \in S : <<y, x>> \notin R
  BY <1>2, WFMin, Zenon
<1>5. \A y \in S : x <= y
  BY <1>3, <1>4
<1> QED
  BY <1>5 DEF Earliest

LEMMA NextIsLater ==
  ASSUME NEW f \in Revisions, NEW t \in Nat, Later(f, t) # {}
  PROVE  /\ NextAfter(f, t) \in Fires[f] /\ NextAfter(f, t) \in Nat /\ NextAfter(f, t) > t
         /\ \A x \in Fires[f] : x <= t \/ x >= NextAfter(f, t)
<1>1. Later(f, t) \subseteq Nat /\ Fires[f] \subseteq Nat
  BY FiresAssumption DEF Later
<1>2. NextAfter(f, t) \in Later(f, t) /\ \A x \in Later(f, t) : NextAfter(f, t) <= x
  BY <1>1, EarliestLeast DEF NextAfter
<1> QED
  BY <1>1, <1>2 DEF Later

LEMMA RetainedIsFirst ==
  ASSUME NEW r \in Replicas, Definition(r) \in Revisions, polled[r] \in Nat,
         {x \in Fires[Definition(r)] : x >= Cutoff(r)} # {}
  PROVE  /\ Retained(r) \in Fires[Definition(r)] /\ Retained(r) \in Nat /\ Retained(r) >= Cutoff(r)
         /\ \A x \in Fires[Definition(r)] : x < Cutoff(r) \/ x >= Retained(r)
<1> DEFINE S == {x \in Fires[Definition(r)] : x >= Cutoff(r)}
<1>1. S \subseteq Nat /\ Fires[Definition(r)] \subseteq Nat
  BY FiresAssumption
<1>2. Retained(r) \in S /\ \A x \in S : Retained(r) <= x
  BY <1>1, EarliestLeast DEF Retained
<1>3. \A x \in Fires[Definition(r)] : x >= Cutoff(r) => Retained(r) <= x
  BY <1>2
<1>4. \A x \in Fires[Definition(r)] : x \in Nat
  BY <1>1
<1> QED
  BY <1>2, <1>3, <1>4, ScheduleBoundsAssumption DEF Cutoff

-----------------------------------------------------------------------------
(* A step of one replica, as the others see it.                            *)

Untouched(q) ==
  /\ snapshot'[q] = snapshot[q] /\ polled'[q] = polled[q] /\ held'[q] = held[q]
  /\ queued'[q] = queued[q] /\ progress'[q] = progress[q]

LEMMA UntouchedOK ==
  ASSUME ScheduleTypeOK, clock' \in Nat, clock <= clock', NEW q \in Replicas, ReplicaOK(q), Untouched(q), Fresh(q)'
  PROVE  ReplicaOK(q)'
<1>1. Definition(q)' = Definition(q) /\ Cutoff(q)' = Cutoff(q)
  BY DEF Definition, Cutoff, Untouched
<1>2. Busy(q)' /\ Polled(q)'
  BY DEF ReplicaOK, Busy, Polled, Untouched, ScheduleTypeOK
<1>3. Registers(q)' /\ Skips(q)' /\ Queues(q)'
  BY <1>1 DEF ReplicaOK, Registers, Skips, Queues, Untouched
<1> QED
  BY <1>2, <1>3 DEF ReplicaOK

(* What is written dooms every other open transaction.                     *)
LEMMA ConflictDooms ==
  ASSUME ScheduleTypeOK, NEW r, NEW docs \in SUBSET {"container", "cursor"}, "container" \in docs,
         stale' = Conflicting(docs, r)
  PROVE  /\ stale' \in [Replicas -> SUBSET {"container", "cursor"}]
         /\ \A q \in Replicas : q = r => stale'[q] = {}
         /\ \A q \in Replicas : q # r /\ progress[q] \in Open => stale'[q] # {}
         /\ \A q \in Replicas : stale[q] # {} /\ q # r => stale'[q] # {}
BY DEF ScheduleTypeOK, Conflicting

(* A step of r that writes nothing but its own state, or only the fence.   *)
LEMMA LocalStep ==
  ASSUME ScheduleInv, NEW r \in Replicas, UNCHANGED <<clock, live, cursor, since, queue>>, ScheduleTypeOK',
         \A q \in Replicas \ {r} : Untouched(q) /\ (stale[q] # {} => stale'[q] # {}),
         ReplicaOK(r)'
  PROVE  ScheduleInv'
<1>1. ASSUME NEW q \in Replicas, q # r
      PROVE  ReplicaOK(q)'
  <2>1. ReplicaOK(q) /\ Untouched(q) /\ ScheduleTypeOK
    BY <1>1 DEF ScheduleInv
  <2>2. Fresh(q)'
    BY <1>1, <2>1 DEF ReplicaOK, Fresh, FenceHolds, CursorUnmoved, Definition, Untouched
  <2> QED
    BY <2>1, <2>2, UntouchedOK DEF ScheduleTypeOK
<1>2. CursorFires' /\ NoOccurrenceLost' /\ OncePerInstant'
  BY DEF ScheduleInv, CursorFires, NoOccurrenceLost, OncePerInstant, QueuedInstants
<1> QED
  BY <1>1, <1>2 DEF ScheduleInv

(* The steps of r that change only where it stands.                        *)
LEMMA GoType ==
  ASSUME ScheduleTypeOK, NEW r \in Replicas, NEW at \in SchedulePc, UNCHANGED <<clock, storeVars, edits, pollVars>>,
         progress' = [progress EXCEPT ![r] = at], stale' = [stale EXCEPT ![r] = {}]
  PROVE  /\ ScheduleTypeOK' /\ progress'[r] = at /\ stale'[r] = {}
         /\ \A q \in Replicas \ {r} : Untouched(q) /\ stale'[q] = stale[q]
BY DEF ScheduleTypeOK, storeVars, pollVars, Untouched

LEMMA ReloadStep ==
  ASSUME ScheduleInv, NEW r \in Replicas, Reload(r) \/ StopReplica(r)
  PROVE  ScheduleInv'
<1>0. ScheduleTypeOK /\ ReplicaOK(r) /\ "idle" \in SchedulePc
  BY DEF ScheduleInv, SchedulePc
<1>1. ScheduleTypeOK'
  BY <1>0 DEF ScheduleTypeOK, Reload, StopReplica, storeVars
<1>2. progress'[r] = "idle" /\ UNCHANGED <<clock, live, cursor, since, queue>> /\ polled'[r] = polled[r]
  BY <1>0 DEF ScheduleTypeOK, Reload, StopReplica, storeVars
<1>3. \A q \in Replicas \ {r} : Untouched(q) /\ (stale[q] # {} => stale'[q] # {})
  BY <1>0 DEF ScheduleTypeOK, Reload, StopReplica, Untouched
<1>4. ReplicaOK(r)'
  BY <1>0, <1>2 DEF ReplicaOK, Busy, Polled, Registers, Skips, Queues, Fresh, Open
<1> QED
  BY <1>1, <1>2, <1>3, <1>4, LocalStep

(* Where a poll goes on once it holds nextAt = h.                          *)
LEMMA LoopStands ==
  ASSUME NEW h \in Nat, NEW n \in Nat, NEW t \in Nat
  PROVE  /\ LoopPc(h, n, t) \in {"queue", "idle"}
         /\ LoopPc(h, n, t) = "queue" => h <= t /\ n < Batch
BY DEF LoopPc

LEMMA EnsuredStands ==
  ASSUME NEW h \in Nat, NEW t \in Nat
  PROVE  /\ EnsuredPc(h, t) \in {"skip", "queue", "idle"}
         /\ EnsuredPc(h, t) = "skip" => h + Horizon < t
         /\ EnsuredPc(h, t) = "queue" => h <= t
BY LoopStands DEF EnsuredPc

LEMMA PollStep ==
  ASSUME ScheduleInv, NEW r \in Replicas, Poll(r)
  PROVE  ScheduleInv'
<1>0. ScheduleTypeOK /\ ReplicaOK(r) /\ Batch \in Nat \ {0}
  BY ScheduleBoundsAssumption DEF ScheduleInv
<1>1. cursor # NoCursor => cursor.nextAt \in Nat
  BY <1>0 DEF ScheduleTypeOK, Cursors
<1>2. /\ polled'[r] = clock /\ queued'[r] = 0 /\ UNCHANGED <<clock, live, cursor, since, queue, edits, snapshot, stale>>
      /\ polled' \in [Replicas -> Nat] /\ queued' \in [Replicas -> 0..Batch]
  BY <1>0 DEF ScheduleTypeOK, Poll, storeVars
<1>3. \A q \in Replicas \ {r} : Untouched(q) /\ (stale[q] # {} => stale'[q] # {})
  BY <1>0 DEF ScheduleTypeOK, Poll, Untouched
<1>4. CASE cursor # NoCursor /\ cursor.revision = Definition(r)
  <2>1. /\ progress'[r] = EnsuredPc(cursor.nextAt, clock) /\ held'[r] = cursor.nextAt
        /\ progress' = [progress EXCEPT ![r] = EnsuredPc(cursor.nextAt, clock)]
        /\ held' \in [Replicas -> Nat]
    BY <1>0, <1>1, <1>4 DEF Poll, ScheduleTypeOK
  <2>2. /\ progress'[r] \in {"skip", "queue", "idle"}
        /\ progress'[r] = "skip" => held'[r] + Horizon < polled'[r]
        /\ progress'[r] = "queue" => held'[r] <= polled'[r]
    BY <1>0, <1>1, <1>2, <1>4, <2>1, EnsuredStands DEF ScheduleTypeOK
  <2>3. progress' \in [Replicas -> SchedulePc]
    BY <1>0, <2>1, <2>2 DEF ScheduleTypeOK, SchedulePc
  <2>4. ScheduleTypeOK'
    BY <1>0, <1>2, <2>1, <2>3 DEF ScheduleTypeOK
  <2>5. ReplicaOK(r)'
    BY <1>0, <1>2, <2>2 DEF Poll, ReplicaOK, Busy, Polled, Registers, Skips, Queues, Fresh, Open, ScheduleTypeOK
  <2> QED
    BY <1>2, <1>3, <2>4, <2>5, LocalStep
<1>5. CASE ~(cursor # NoCursor /\ cursor.revision = Definition(r))
  <2>1. progress'[r] = "register" /\ progress' = [progress EXCEPT ![r] = "register"] /\ held' = held
    BY <1>0, <1>5 DEF Poll, ScheduleTypeOK
  <2>2. ScheduleTypeOK'
    BY <1>0, <1>2, <2>1 DEF ScheduleTypeOK, SchedulePc
  <2>3. Definition(r)' = Definition(r)
    BY <1>2 DEF Definition
  <2>4. ReplicaOK(r)'
    BY <1>0, <1>2, <2>1, <2>3 DEF Poll, ReplicaOK, Busy, Polled, Registers, Skips, Queues, Fresh, Open, ScheduleTypeOK
  <2> QED
    BY <1>2, <1>3, <2>2, <2>4, LocalStep
<1> QED
  BY <1>4, <1>5

LEMMA RedoStep ==
  ASSUME ScheduleInv, NEW r \in Replicas, RedoConflict(r)
  PROVE  ScheduleInv'
<1>0. ScheduleTypeOK /\ ReplicaOK(r)
  BY DEF ScheduleInv
<1> DEFINE at == CASE progress[r] = "registering" -> "register"
                   [] progress[r] = "skipping" -> "skip"
                   [] progress[r] = "queueing" -> "queue"
<1>1. /\ at \in {"register", "skip", "queue"}
      /\ at = "register" => progress[r] = "registering"
      /\ at = "skip" => progress[r] = "skipping"
      /\ at = "queue" => progress[r] = "queueing"
  BY DEF RedoConflict, Open
<1>2. progress' = [progress EXCEPT ![r] = at]
  BY <1>0 DEF RedoConflict, ScheduleTypeOK
<1> HIDE DEF at
<1>3. at \in SchedulePc
  BY <1>1 DEF SchedulePc
<1>4. /\ ScheduleTypeOK' /\ progress'[r] = at
      /\ \A q \in Replicas \ {r} : Untouched(q) /\ stale'[q] = stale[q]
  BY <1>0, <1>2, <1>3, GoType DEF RedoConflict
<1>5. UNCHANGED <<clock, live, cursor, since, queue, snapshot, polled, held, queued>>
  BY DEF RedoConflict, storeVars, pollVars
<1>6. ReplicaOK(r)'
  BY <1>0, <1>1, <1>4, <1>5 DEF RedoConflict, ReplicaOK, Busy, Polled, Registers, Skips, Queues, Fresh, Open,
    Definition, Cutoff
<1> QED
  BY <1>4, <1>5, <1>6, LocalStep

(* A transaction begins, or its poll gives up.                             *)
LEMMA BeginStep ==
  ASSUME ScheduleInv, NEW r \in Replicas, Begin(r)
  PROVE  ScheduleInv'
<1>0. ScheduleTypeOK /\ ReplicaOK(r) /\ Open \cup {"idle"} \subseteq SchedulePc
  BY DEF ScheduleInv, SchedulePc
<1>1. ASSUME NEW ok \in BOOLEAN, NEW inside \in Open, BeginOrGiveUp(r, ok, inside),
             UNCHANGED <<clock, storeVars, edits, pollVars>>,
             progress[r] # "idle",
             ok => /\ FenceHolds(r)
                   /\ inside = "registering" => /\ progress[r] = "register"
                                                /\ ~(cursor # NoCursor /\ cursor.revision = Definition(r))
                   /\ inside \in {"skipping", "queueing"} => CursorUnmoved(r)
                   /\ inside = "skipping" => /\ progress[r] = "skip"
                                             /\ {x \in Fires[Definition(r)] : x >= Cutoff(r)} # {}
                   /\ inside = "queueing" => progress[r] = "queue" /\ Later(Definition(r), held[r]) # {}
      PROVE  ScheduleInv'
  <2> DEFINE at == IF ok THEN inside ELSE "idle"
  <2>1. at \in SchedulePc
    BY <1>0
  <2>2. /\ ScheduleTypeOK' /\ progress'[r] = at
        /\ \A q \in Replicas \ {r} : Untouched(q) /\ stale'[q] = stale[q]
    BY <1>0, <1>1, <2>1, GoType DEF BeginOrGiveUp
  <2>3. UNCHANGED <<clock, live, cursor, since, queue, snapshot, polled, held, queued>>
    BY <1>1 DEF storeVars, pollVars
  <2>4. ReplicaOK(r)'
    BY <1>0, <1>1, <2>2, <2>3 DEF ReplicaOK, Busy, Polled, Registers, Skips, Queues, Fresh, Open,
      Definition, Cutoff, FenceHolds, CursorUnmoved
  <2> QED
    BY <2>2, <2>3, <2>4, LocalStep
<1>2. CASE BeginSkip(r)
  BY <1>1, <1>2 DEF BeginSkip, Open
<1>3. CASE BeginQueue(r)
  BY <1>1, <1>3 DEF BeginQueue, Open
<1>4. CASE BeginRegister(r) /\ ~(FenceHolds(r) /\ cursor # NoCursor /\ cursor.revision = Definition(r))
  <2>1. BeginOrGiveUp(r, FenceHolds(r), "registering") /\ progress[r] = "register"
    BY <1>4 DEF BeginRegister
  <2>2. UNCHANGED <<clock, storeVars, edits, pollVars>>
    BY <1>4 DEF BeginRegister, pollVars
  <2>3. FenceHolds(r) \in BOOLEAN /\ "registering" \in Open
    BY DEF FenceHolds, Open
  <2> QED
    BY <1>1, <1>4, <2>1, <2>2, <2>3
<1>5. CASE BeginRegister(r) /\ FenceHolds(r) /\ cursor # NoCursor /\ cursor.revision = Definition(r)
  <2>1. cursor.nextAt \in Nat
    BY <1>0, <1>5 DEF ScheduleTypeOK, Cursors
  <2>2. /\ progress' = [progress EXCEPT ![r] = EnsuredPc(cursor.nextAt, polled[r])]
        /\ progress'[r] = EnsuredPc(cursor.nextAt, polled[r]) /\ held'[r] = cursor.nextAt
        /\ held' \in [Replicas -> Nat] /\ stale' = Conflicting({"container"}, r)
        /\ UNCHANGED <<clock, live, cursor, since, queue, edits, snapshot, polled, queued>>
    BY <1>0, <1>5, <2>1 DEF BeginRegister, ScheduleTypeOK, storeVars
  <2>3. /\ progress'[r] \in {"skip", "queue", "idle"}
        /\ progress'[r] = "skip" => held'[r] + Horizon < polled'[r]
        /\ progress'[r] = "queue" => held'[r] <= polled'[r]
    BY <1>0, <2>1, <2>2, EnsuredStands DEF ScheduleTypeOK
  <2>4. progress' \in [Replicas -> SchedulePc]
    BY <1>0, <2>2, <2>3 DEF ScheduleTypeOK, SchedulePc
  <2>5. /\ stale' \in [Replicas -> SUBSET {"container", "cursor"}]
        /\ \A q \in Replicas \ {r} : stale[q] # {} => stale'[q] # {}
    BY <1>0, <2>2, ConflictDooms
  <2>6. ScheduleTypeOK'
    BY <1>0, <2>2, <2>4, <2>5 DEF ScheduleTypeOK
  <2>7. \A q \in Replicas \ {r} : Untouched(q)
    BY <1>0, <2>2, <1>5 DEF BeginRegister, ScheduleTypeOK, Untouched
  <2>8. ReplicaOK(r)'
    BY <1>0, <1>5, <2>2, <2>3, ScheduleBoundsAssumption DEF BeginRegister, ReplicaOK, Busy, Polled, Registers,
      Skips, Queues, Fresh, Open
  <2> QED
    BY <2>2, <2>5, <2>6, <2>7, <2>8, LocalStep
<1> QED
  BY <1>2, <1>3, <1>4, <1>5 DEF Begin

-----------------------------------------------------------------------------
(* Commits.                                                                *)

(* The others keep their place; the open ones among them are doomed.       *)
LEMMA CommitOthers ==
  ASSUME ScheduleInv, NEW r \in Replicas, UNCHANGED clock, stale' = Conflicting({"container", "cursor"}, r),
         \A q \in Replicas \ {r} : Untouched(q),
         NEW q \in Replicas, q # r
  PROVE  ReplicaOK(q)'
<1>1. ScheduleTypeOK /\ ReplicaOK(q) /\ Untouched(q)
  BY DEF ScheduleInv
<1>2. progress[q] \in Open => stale'[q] # {}
  BY <1>1, ConflictDooms
<1>3. Fresh(q)'
  BY <1>1, <1>2 DEF Fresh, Untouched
<1> QED
  BY <1>1, <1>3, UntouchedOK DEF ScheduleTypeOK

(* What a transaction that can commit relies on.                           *)
LEMMA CommitFacts ==
  ASSUME ScheduleInv, NEW r \in Replicas, progress[r] \in Open, CanCommit(r)
  PROVE  /\ live = snapshot[r] /\ Defined(live) /\ Definition(r) = Revision[live] /\ Definition(r) \in Revisions
         /\ polled[r] \in Nat /\ polled[r] <= clock /\ clock \in Nat /\ held[r] \in Nat /\ queued[r] \in 0..Batch
         /\ progress[r] = "registering" => ~(cursor # NoCursor /\ cursor.revision = Definition(r))
         /\ progress[r] \in {"skipping", "queueing"} =>
              /\ cursor \in Cursors /\ cursor # NoCursor /\ cursor.revision = Definition(r)
              /\ cursor.nextAt = held[r] /\ held[r] \in Fires[Definition(r)]
<1>1. ScheduleTypeOK /\ ReplicaOK(r) /\ CursorFires
  BY DEF ScheduleInv
<1>2. live = snapshot[r] /\ Defined(snapshot[r])
  BY <1>1 DEF ReplicaOK, Fresh, CanCommit, FenceHolds, Busy, Open
<1>3. progress[r] \in {"skipping", "queueing"} => CursorUnmoved(r)
  BY <1>1 DEF ReplicaOK, Fresh, CanCommit
<1> QED
  BY <1>1, <1>2, <1>3 DEF ReplicaOK, Fresh, CanCommit, Polled, ScheduleTypeOK, Definition, Defined, CursorUnmoved,
    CursorFires

LEMMA RegisterStep ==
  ASSUME ScheduleInv, NEW r \in Replicas, CommitRegister(r)
  PROVE  ScheduleInv'
<1> DEFINE first == NextAfter(Definition(r), polled[r])
           next == [revision |-> Definition(r), nextAt |-> first, skipped |-> 0]
<1>0. ScheduleTypeOK /\ ReplicaOK(r) /\ progress[r] \in Open /\ CanCommit(r)
  BY DEF ScheduleInv, CommitRegister, Open
<1>1. Definition(r) \in Revisions /\ polled[r] \in Nat /\ Later(Definition(r), polled[r]) # {}
  BY <1>0, CommitFacts DEF ReplicaOK, Registers, CommitRegister
<1>2. first \in Fires[Definition(r)] /\ first \in Nat
  BY <1>1, NextIsLater
<1>3. cursor' = next /\ since' = first /\ held' = [held EXCEPT ![r] = first]
  BY DEF CommitRegister
<1> HIDE DEF first
<1>4. /\ cursor' \in Cursors /\ cursor' # NoCursor
      /\ cursor'.revision = Definition(r) /\ cursor'.nextAt = first /\ cursor'.skipped = 0
  BY <1>1, <1>2, <1>3, CursorAssumption DEF Cursors
<1>5. /\ progress' = [progress EXCEPT ![r] = "idle"] /\ stale' = Conflicting({"container", "cursor"}, r)
      /\ UNCHANGED <<clock, live, queue, edits, snapshot, polled, queued>>
  BY DEF CommitRegister
<1>6. ScheduleTypeOK'
  BY <1>0, <1>2, <1>3, <1>4, <1>5, ConflictDooms DEF ScheduleTypeOK, SchedulePc
<1>7. \A q \in Replicas \ {r} : Untouched(q)
  BY <1>0, <1>3, <1>5 DEF ScheduleTypeOK, Untouched
<1>8. ReplicaOK(r)'
  BY <1>0, <1>5 DEF ReplicaOK, Busy, Polled, Registers, Skips, Queues, Fresh, Open, ScheduleTypeOK
<1>9. \A q \in Replicas : ReplicaOK(q)'
  BY <1>5, <1>7, <1>8, CommitOthers
<1>10. CursorFires' /\ OncePerInstant'
  BY <1>2, <1>4, <1>5 DEF ScheduleInv, CursorFires, OncePerInstant
<1>11. NoOccurrenceLost'
  BY <1>1, <1>2, <1>3, <1>4, FiresAssumption DEF NoOccurrenceLost
<1> QED
  BY <1>6, <1>9, <1>10, <1>11 DEF ScheduleInv

LEMMA SkipStep ==
  ASSUME ScheduleInv, NEW r \in Replicas, CommitSkip(r)
  PROVE  ScheduleInv'
<1> DEFINE first == Retained(r)
           at == LoopPc(first, queued[r], polled[r])
<1>0. ScheduleTypeOK /\ ReplicaOK(r) /\ progress[r] \in Open /\ CanCommit(r) /\ progress[r] = "skipping"
      /\ CursorFires /\ NoOccurrenceLost /\ Horizon \in Nat
  BY ScheduleBoundsAssumption DEF ScheduleInv, CommitSkip, Open
<1>1. /\ Definition(r) \in Revisions /\ polled[r] \in Nat /\ polled[r] <= clock /\ clock \in Nat /\ held[r] \in Nat
      /\ queued[r] \in Nat
      /\ cursor \in Cursors /\ cursor.revision = Definition(r) /\ cursor.nextAt = held[r] /\ cursor # NoCursor
      /\ held[r] \in Fires[Definition(r)]
  BY <1>0, CommitFacts
<1>2. /\ held[r] + Horizon < polled[r] /\ {x \in Fires[Definition(r)] : x >= Cutoff(r)} # {}
  BY <1>0 DEF ReplicaOK, Skips
<1>3. Cutoff(r) \in Nat /\ held[r] < Cutoff(r) /\ Cutoff(r) + Horizon <= clock
  BY <1>0, <1>1, <1>2 DEF Cutoff
<1>4. /\ first \in Fires[Definition(r)] /\ first \in Nat /\ first >= Cutoff(r)
      /\ \A x \in Fires[Definition(r)] : x < Cutoff(r) \/ x >= first
  BY <1>1, <1>2, RetainedIsFirst
<1>5. at \in {"queue", "idle"} /\ (at = "queue" => first <= polled[r] /\ queued[r] < Batch)
  BY <1>1, <1>4, LoopStands
<1>6. /\ cursor' = [cursor EXCEPT !.nextAt = first, !.skipped = Cutoff(r)] /\ held' = [held EXCEPT ![r] = first]
      /\ progress' = [progress EXCEPT ![r] = at] /\ stale' = Conflicting({"container", "cursor"}, r)
      /\ UNCHANGED <<clock, live, since, queue, edits, snapshot, polled, queued>>
  BY DEF CommitSkip
<1> HIDE DEF first, at
<1>7. /\ cursor' \in Cursors /\ cursor' # NoCursor
      /\ cursor'.revision = Definition(r) /\ cursor'.nextAt = first /\ cursor'.skipped = Cutoff(r)
  BY <1>1, <1>3, <1>4, <1>6, CursorAssumption DEF Cursors
<1>8. ScheduleTypeOK'
  BY <1>0, <1>4, <1>5, <1>6, <1>7, ConflictDooms DEF ScheduleTypeOK, SchedulePc
<1>9. \A q \in Replicas \ {r} : Untouched(q)
  BY <1>0, <1>6 DEF ScheduleTypeOK, Untouched
<1>10. ReplicaOK(r)'
  BY <1>0, <1>1, <1>5, <1>6 DEF ReplicaOK, Busy, Polled, Registers, Skips, Queues, Fresh, Open, ScheduleTypeOK
<1>11. \A q \in Replicas : ReplicaOK(q)'
  BY <1>6, <1>9, <1>10, CommitOthers
<1>12. CursorFires' /\ OncePerInstant'
  BY <1>4, <1>6, <1>7 DEF ScheduleInv, CursorFires, OncePerInstant
<1>13. NoOccurrenceLost'
  BY <1>1, <1>3, <1>4, <1>6, <1>7, FiresAssumption DEF NoOccurrenceLost
<1> QED
  BY <1>8, <1>11, <1>12, <1>13 DEF ScheduleInv

LEMMA QueueStep ==
  ASSUME ScheduleInv, NEW r \in Replicas, CommitQueue(r)
  PROVE  ScheduleInv'
<1> DEFINE next == NextAfter(Definition(r), held[r])
           at == LoopPc(next, queued[r] + 1, polled[r])
<1>0. ScheduleTypeOK /\ ReplicaOK(r) /\ progress[r] \in Open /\ CanCommit(r) /\ progress[r] = "queueing"
      /\ CursorFires /\ NoOccurrenceLost /\ OncePerInstant /\ Batch \in Nat
  BY ScheduleBoundsAssumption DEF ScheduleInv, CommitQueue, Open
<1>1. /\ Definition(r) \in Revisions /\ polled[r] \in Nat /\ held[r] \in Nat /\ snapshot[r] \in Contents
      /\ queued[r] \in Nat /\ Defined(snapshot[r])
      /\ cursor \in Cursors /\ cursor.revision = Definition(r) /\ cursor.nextAt = held[r] /\ cursor # NoCursor
      /\ held[r] \in Fires[Definition(r)]
  BY <1>0, CommitFacts DEF Defined
<1>2. queued[r] < Batch /\ Later(Definition(r), held[r]) # {}
  BY <1>0 DEF ReplicaOK, Queues
<1>3. /\ next \in Fires[Definition(r)] /\ next \in Nat /\ next > held[r]
      /\ \A x \in Fires[Definition(r)] : x <= held[r] \/ x >= next
  BY <1>1, <1>2, NextIsLater
<1>4. at \in {"queue", "idle"} /\ (at = "queue" => next <= polled[r] /\ queued[r] + 1 < Batch)
  BY <1>1, <1>3, LoopStands
<1>5. /\ cursor' = [cursor EXCEPT !.nextAt = next] /\ held' = [held EXCEPT ![r] = next]
      /\ progress' = [progress EXCEPT ![r] = at] /\ stale' = Conflicting({"container", "cursor"}, r)
      /\ queue' = Inserted(held[r], snapshot[r]) /\ queued' = [queued EXCEPT ![r] = @ + 1]
      /\ UNCHANGED <<clock, live, since, edits, snapshot, polled>>
  BY DEF CommitQueue
<1> HIDE DEF next, at
<1>6. /\ cursor' \in Cursors /\ cursor' # NoCursor
      /\ cursor'.revision = Definition(r) /\ cursor'.nextAt = next /\ cursor'.skipped = cursor.skipped
  BY <1>1, <1>3, <1>5, CursorAssumption DEF Cursors
<1>7. queue' \subseteq Nat \X Contents /\ QueuedInstants' = QueuedInstants \cup {held[r]} /\ OncePerInstant'
  <2>1. CASE held[r] \in QueuedInstants
    BY <1>0, <1>5, <2>1 DEF Inserted, QueuedInstants, ScheduleTypeOK, OncePerInstant
  <2>2. CASE held[r] \notin QueuedInstants
    <3>1. queue' = queue \cup {<<held[r], snapshot[r]>>}
      BY <1>5, <2>2 DEF Inserted
    <3>2. queue' \subseteq Nat \X Contents
      BY <1>0, <1>1, <3>1 DEF ScheduleTypeOK
    <3>3. QueuedInstants' = QueuedInstants \cup {held[r]}
      <4>1. \A t : t \in QueuedInstants' <=> \E e \in queue' : t = e[1]
        BY DEF QueuedInstants
      <4>2. \A t : t \in QueuedInstants <=> \E e \in queue : t = e[1]
        BY DEF QueuedInstants
      <4>3. \A t : t \in QueuedInstants' <=> t \in QueuedInstants \/ t = held[r]
        <5> DEFINE new == <<held[r], snapshot[r]>>
        <5>1. new[1] = held[r] /\ queue' = queue \cup {new}
          BY <3>1
        <5> HIDE DEF new
        <5> QED
          BY <4>1, <4>2, <5>1, Zenon
      <4> QED
        BY <4>3
    <3>4. OncePerInstant'
      <4>1. \A e \in queue : e[1] # held[r]
        BY <2>2 DEF QueuedInstants
      <4> QED
        BY <1>0, <3>1, <4>1 DEF OncePerInstant
    <3> QED
      BY <3>2, <3>3, <3>4
  <2> QED
    BY <2>1, <2>2
<1>8. ScheduleTypeOK'
  <2>1. queued' \in [Replicas -> 0..Batch]
    BY <1>0, <1>1, <1>2, <1>5 DEF ScheduleTypeOK
  <2> QED
    BY <1>0, <1>3, <1>4, <1>5, <1>6, <1>7, <2>1, ConflictDooms DEF ScheduleTypeOK, SchedulePc
<1>9. \A q \in Replicas \ {r} : Untouched(q)
  BY <1>0, <1>5 DEF ScheduleTypeOK, Untouched
<1>10. ReplicaOK(r)'
  BY <1>0, <1>1, <1>4, <1>5 DEF ReplicaOK, Busy, Polled, Registers, Skips, Queues, Fresh, Open, ScheduleTypeOK
<1>11. \A q \in Replicas : ReplicaOK(q)'
  BY <1>5, <1>9, <1>10, CommitOthers
<1>12. CursorFires'
  BY <1>3, <1>6 DEF CursorFires
<1>13. NoOccurrenceLost'
  BY <1>0, <1>1, <1>3, <1>5, <1>6, <1>7, FiresAssumption DEF NoOccurrenceLost
<1> QED
  BY <1>7, <1>8, <1>11, <1>12, <1>13 DEF ScheduleInv

(* Time passes, the container is edited, or nothing happens.               *)
LEMMA OutsideStep ==
  ASSUME ScheduleInv, Tick \/ (\E c \in Contents : EditWorkflows(c)) \/ UNCHANGED scheduleVars
  PROVE  ScheduleInv'
<1>0. ScheduleTypeOK /\ CursorFires /\ NoOccurrenceLost /\ OncePerInstant
  BY DEF ScheduleInv
<1>1. /\ UNCHANGED <<cursor, since, queue, snapshot, polled, held, queued, progress>>
      /\ clock' \in Nat /\ clock <= clock'
  BY <1>0 DEF Tick, EditWorkflows, scheduleVars, storeVars, pollVars, ScheduleTypeOK
<1>2. CASE \E c \in Contents : EditWorkflows(c)
  <2>1. PICK c \in Contents : EditWorkflows(c)
    BY <1>2
  <2>2. edits' \in 0..MaxContainerEdits /\ live' \in Contents
    BY <1>0, <2>1, ScheduleBoundsAssumption DEF EditWorkflows, ScheduleTypeOK
  <2>3. /\ stale' \in [Replicas -> SUBSET {"container", "cursor"}]
        /\ \A q \in Replicas : progress[q] \in Open => stale'[q] # {}
    BY <1>0, <2>1, ConflictDooms, ContentsAssumption DEF EditWorkflows
  <2>4. ASSUME NEW q \in Replicas
        PROVE  ReplicaOK(q)'
    <3>1. Fresh(q)'
      BY <1>1, <2>3 DEF Fresh
    <3> QED
      BY <1>0, <1>1, <3>1, UntouchedOK DEF ScheduleInv, Untouched
  <2> QED
    BY <1>0, <1>1, <2>1, <2>2, <2>3, <2>4 DEF ScheduleInv, ScheduleTypeOK, CursorFires, NoOccurrenceLost, OncePerInstant,
      QueuedInstants, EditWorkflows
<1>3. CASE Tick \/ UNCHANGED scheduleVars
  <2>1. UNCHANGED <<live, edits, stale>>
    BY <1>3 DEF Tick, scheduleVars, storeVars
  <2>2. ASSUME NEW q \in Replicas
        PROVE  ReplicaOK(q)'
    <3>1. Fresh(q)'
      BY <1>1, <2>1 DEF ScheduleInv, ReplicaOK, Fresh, FenceHolds, Definition, CursorUnmoved
    <3> QED
      BY <1>0, <1>1, <3>1, UntouchedOK DEF ScheduleInv, Untouched
  <2>3. NoOccurrenceLost'
    BY <1>0, <1>1, ScheduleBoundsAssumption DEF NoOccurrenceLost, QueuedInstants, ScheduleTypeOK, Cursors
  <2> QED
    BY <1>0, <1>1, <2>1, <2>2, <2>3 DEF ScheduleInv, ScheduleTypeOK, CursorFires, OncePerInstant
<1> QED
  BY <1>2, <1>3

-----------------------------------------------------------------------------

LEMMA ScheduleStart == ScheduleInit => ScheduleInv
<1> SUFFICES ASSUME ScheduleInit
             PROVE  ScheduleInv
  OBVIOUS
<1>1. ScheduleTypeOK
  BY ScheduleBoundsAssumption DEF ScheduleInit, ScheduleTypeOK, SchedulePc
<1>2. \A r \in Replicas : ReplicaOK(r)
  BY DEF ScheduleInit, ReplicaOK, Busy, Polled, Registers, Skips, Queues, Fresh, Open
<1> QED
  BY <1>1, <1>2 DEF ScheduleInit, ScheduleInv, CursorFires, NoOccurrenceLost, OncePerInstant

LEMMA ScheduleStep == ScheduleInv /\ [ScheduleNext]_scheduleVars => ScheduleInv'
BY OutsideStep, ReloadStep, PollStep, BeginStep, RegisterStep, SkipStep, QueueStep, RedoStep
   DEF ScheduleNext, Transaction, Commit

LEMMA ScheduleInvariant == ScheduleSpec => []ScheduleInv
BY ScheduleStart, ScheduleStep, PTL DEF ScheduleSpec

(* Every variable keeps its type.                                          *)
THEOREM CronScheduleTypes == ScheduleSpec => []ScheduleTypeOK
<1>1. ScheduleInv => ScheduleTypeOK
  BY DEF ScheduleInv
<1> QED
  BY <1>1, ScheduleInvariant, PTL

(* Every instant between the first one of the cursor's definition and the  *)
(* cursor has a root event or was given up as older than the horizon: the  *)
(* cursor and the event of the instant it leaves commit together.          *)
THEOREM CronScheduleLosesNothing == ScheduleSpec => []NoOccurrenceLost
<1>1. ScheduleInv => NoOccurrenceLost
  BY DEF ScheduleInv
<1> QED
  BY <1>1, ScheduleInvariant, PTL

(* An instant has one root event, whatever is edited and registered again. *)
THEOREM CronScheduleOnce == ScheduleSpec => []OncePerInstant
<1>1. ScheduleInv => OncePerInstant
  BY DEF ScheduleInv
<1> QED
  BY <1>1, ScheduleInvariant, PTL

-----------------------------------------------------------------------------
(* What a step may write.                                                  *)
StaleWritesNothing ==
  /\ \A e \in queue' \ queue :
       /\ e[2] = live /\ Defined(live)
       /\ e[1] \in Fires[Revision[live]] /\ e[1] <= clock
  /\ cursor' # cursor =>
       /\ cursor'.revision = Revision[live]
       /\ cursor # NoCursor /\ cursor.revision = cursor'.revision => cursor'.nextAt > cursor.nextAt

LEMMA RegisterWrites ==
  ASSUME ScheduleInv, NEW r \in Replicas, CommitRegister(r)
  PROVE  StaleWritesNothing
<1>1. /\ Definition(r) = Revision[live]
      /\ ~(cursor # NoCursor /\ cursor.revision = Definition(r))
  BY CommitFacts DEF CommitRegister, Open
<1>2. queue' = queue /\ cursor'.revision = Definition(r)
  BY DEF CommitRegister
<1> QED
  BY <1>1, <1>2 DEF StaleWritesNothing

LEMMA SkipWrites ==
  ASSUME ScheduleInv, NEW r \in Replicas, CommitSkip(r)
  PROVE  StaleWritesNothing
<1>0. ReplicaOK(r) /\ Horizon \in Nat
  BY ScheduleBoundsAssumption DEF ScheduleInv
<1>1. /\ Definition(r) = Revision[live] /\ Definition(r) \in Revisions /\ polled[r] \in Nat /\ held[r] \in Nat
      /\ cursor \in Cursors /\ cursor.revision = Definition(r) /\ cursor.nextAt = held[r]
  BY CommitFacts DEF CommitSkip, Open
<1>2. held[r] + Horizon < polled[r] /\ {x \in Fires[Definition(r)] : x >= Cutoff(r)} # {}
  BY <1>0 DEF ReplicaOK, Skips, CommitSkip
<1>3. Retained(r) \in Nat /\ Retained(r) > held[r]
  BY <1>0, <1>1, <1>2, RetainedIsFirst DEF Cutoff
<1>4. queue' = queue /\ cursor' = [cursor EXCEPT !.nextAt = Retained(r), !.skipped = Cutoff(r)]
  BY DEF CommitSkip
<1>5. cursor'.revision = Definition(r) /\ cursor'.nextAt = Retained(r)
  BY <1>1, <1>4 DEF Cursors
<1> QED
  BY <1>1, <1>3, <1>4, <1>5 DEF StaleWritesNothing

LEMMA QueueWrites ==
  ASSUME ScheduleInv, NEW r \in Replicas, CommitQueue(r)
  PROVE  StaleWritesNothing
<1>0. ReplicaOK(r)
  BY DEF ScheduleInv
<1>1. /\ Definition(r) = Revision[live] /\ Definition(r) \in Revisions /\ live = snapshot[r] /\ Defined(live)
      /\ polled[r] \in Nat /\ polled[r] <= clock /\ clock \in Nat /\ held[r] \in Nat
      /\ cursor \in Cursors /\ cursor.revision = Definition(r) /\ cursor.nextAt = held[r]
      /\ held[r] \in Fires[Definition(r)]
  BY CommitFacts DEF CommitQueue, Open
<1>2. held[r] <= polled[r] /\ Later(Definition(r), held[r]) # {}
  BY <1>0 DEF ReplicaOK, Queues, CommitQueue
<1>3. NextAfter(Definition(r), held[r]) \in Nat /\ NextAfter(Definition(r), held[r]) > held[r]
  BY <1>1, <1>2, NextIsLater
<1>4. queue' = Inserted(held[r], snapshot[r]) /\ cursor' = [cursor EXCEPT !.nextAt = NextAfter(Definition(r), held[r])]
  BY DEF CommitQueue
<1>5. cursor'.revision = Definition(r) /\ cursor'.nextAt = NextAfter(Definition(r), held[r])
  BY <1>1, <1>4 DEF Cursors
<1>6. \A e \in queue' \ queue : e = <<held[r], snapshot[r]>>
  BY <1>4 DEF Inserted
<1>7. held[r] <= clock
  BY <1>1, <1>2
<1> QED
  BY <1>1, <1>3, <1>5, <1>6, <1>7 DEF StaleWritesNothing

LEMMA NothingWritten ==
  ASSUME UNCHANGED <<queue, cursor>>
  PROVE  StaleWritesNothing
BY DEF StaleWritesNothing

LEMMA StepWrites ==
  ASSUME ScheduleInv, ScheduleNext
  PROVE  StaleWritesNothing
<1>1. CASE Tick \/ \E c \in Contents : EditWorkflows(c)
  BY <1>1, NothingWritten DEF Tick, EditWorkflows, storeVars
<1>2. CASE \E r \in Replicas : Reload(r) \/ Poll(r) \/ StopReplica(r) \/ RedoConflict(r)
  BY <1>2, NothingWritten DEF Reload, Poll, StopReplica, RedoConflict, storeVars
<1>3. CASE \E r \in Replicas : Begin(r)
  BY <1>3, NothingWritten DEF Begin, BeginRegister, BeginSkip, BeginQueue, storeVars
<1>4. CASE \E r \in Replicas : Commit(r)
  BY <1>4, RegisterWrites, SkipWrites, QueueWrites DEF Commit
<1> QED
  BY <1>1, <1>2, <1>3, <1>4 DEF ScheduleNext, Transaction

(* A stale scheduler queues no obsolete code, restores no old definition   *)
(* and goes back to no earlier instant: fenceCronSource and the filter of  *)
(* AdvanceCronSchedule, in the transaction that writes.                    *)
THEOREM CronScheduleFresh == ScheduleSpec => NothingStaleIsWritten
<1>1. ScheduleInv /\ [ScheduleNext]_scheduleVars => [StaleWritesNothing]_scheduleVars
  BY StepWrites
<1>2. [StaleWritesNothing]_scheduleVars =>
        [/\ \A e \in queue' \ queue :
             /\ e[2] = live /\ Defined(live)
             /\ e[1] \in Fires[Revision[live]] /\ e[1] <= clock
         /\ cursor' # cursor =>
             /\ cursor'.revision = Revision[live]
             /\ cursor # NoCursor /\ cursor.revision = cursor'.revision =>
                  cursor'.nextAt > cursor.nextAt]_scheduleVars
  BY DEF StaleWritesNothing
<1> QED
  BY <1>1, <1>2, ScheduleInvariant, PTL DEF ScheduleSpec, NothingStaleIsWritten

-----------------------------------------------------------------------------
(* The outbox.                                                             *)

(* Where a dispatch can stand for its job, and what it has achieved there. *)
RunOK(d, n) ==
    /\ run[d][n] # "none" => status[d] # "absent"
    /\ run[d][n] = "called" => job[d] \in ExternalKeys /\ effect[job[d]] > 0
    /\ run[d][n] = "audited" => job[d] \in PostWrites /\ d \in audited
    /\ run[d][n] = "ok" => Performed(d)

RunInv == \A d \in Docs, n \in Attempts : RunOK(d, n)

AbsentInv == \A d \in Docs : status[d] = "absent" => attempts[d] = 0

(* A recorded external step was called.                                    *)
MarkerInv == \A k \in marker : effect[k] > 0

OutboxInv == /\ TypeOK
        /\ RunInv
        /\ AbsentInv
        /\ MarkerInv
        /\ ExactlyOnce
        /\ DoneIsPerformed
        /\ RetryHasNoOwner

-----------------------------------------------------------------------------

LEMMA OutboxStart == Init => OutboxInv
<1> SUFFICES ASSUME Init PROVE OutboxInv
  OBVIOUS
<1>1. TypeOK
  BY BoundsAssumption, DocsAssumption DEF Init, TypeOK, Status, Pc, Attempts
<1>2. RunInv /\ AbsentInv /\ MarkerInv
  BY DEF Init, RunInv, RunOK, AbsentInv, MarkerInv, Attempts
<1>3. ExactlyOnce
  BY DEF Init, ExactlyOnce, Keys
<1>4. DoneIsPerformed /\ RetryHasNoOwner
  BY DEF Init, DoneIsPerformed, RetryHasNoOwner, Attempts
<1> QED
  BY <1>1, <1>2, <1>3, <1>4 DEF OutboxInv

(* A dispatch moves its own attempt only.                                  *)
LEMMA DispatchRun ==
  ASSUME NEW d \in Docs, NEW n \in Attempts, DispatchStep(d, n)
  PROVE  \E pc \in Pc : run' = [run EXCEPT ![d][n] = pc]
<1>1. ASSUME NEW pc \in Pc, Goto(d, n, pc)
      PROVE  \E q \in Pc : run' = [run EXCEPT ![d][n] = q]
  BY <1>1 DEF Goto, Pc
<1>2. {"ok", "err", "recheck", "execute", "called", "audited", "over"} \subseteq Pc
  BY DEF Pc
<1>3. CASE OptimisticCheck(d, n) \/ Recheck(d, n)
  BY <1>1, <1>2, <1>3 DEF OptimisticCheck, Recheck
<1>4. CASE CommitStep(d, n) \/ RetryConflict(d, n)
  BY <1>1, <1>2, <1>4 DEF CommitStep, RetryConflict
<1>5. CASE CallExternal(d, n) \/ MarkWorkflowStepExecutionDone(d, n)
  BY <1>1, <1>2, <1>5 DEF CallExternal, MarkWorkflowStepExecutionDone
<1>6. CASE LogAudit(d, n) \/ EmitInvalidate(d, n)
  BY <1>1, <1>2, <1>6 DEF LogAudit, EmitInvalidate
<1>7. CASE DispatchError(d, n) \/ DispatchStops(d, n)
  BY <1>1, <1>2, <1>7 DEF DispatchError, DispatchStops
<1> QED
  BY <1>3, <1>4, <1>5, <1>6, <1>7 DEF DispatchStep

LEMMA TypeStep == TypeOK /\ [Next]_vars => TypeOK'
<1> SUFFICES ASSUME TypeOK, [Next]_vars PROVE TypeOK'
  OBVIOUS
<1> USE BoundsAssumption
<1>1. ASSUME NEW d \in Docs, NEW j \in Keys \cup PostWrites, InsertOutboxEvent(d, j)
      PROVE  TypeOK'
  BY <1>1 DEF TypeOK, InsertOutboxEvent, Status, workVars, dataVars
<1>2. ASSUME NEW d \in Docs, LeaseLapse(d) \/ ExpireTTL(d)
      PROVE  TypeOK'
  BY <1>2 DEF TypeOK, LeaseLapse, ExpireTTL, Status, workVars, dataVars
<1>3. ASSUME NEW w \in Workers, ProcessorStep(w)
      PROVE  TypeOK'
  <2>1. CASE StartBatch(w)
    BY <2>1 DEF TypeOK, StartBatch, Status, dataVars
  <2>2. CASE ClaimPendingOutboxEvent(w)
    <3>1. PICK d \in Docs :
             /\ Claimable(d)
             /\ status' = [status EXCEPT ![d] = "processing"]
             /\ due' = [due EXCEPT ![d] = FALSE]
             /\ attempts' = [attempts EXCEPT ![d] = @ + 1]
             /\ run' = [run EXCEPT ![d][attempts[d] + 1] = "check"]
             /\ serving' = [serving EXCEPT ![w] = <<d, attempts[d] + 1>>]
      BY <2>2 DEF ClaimPendingOutboxEvent
    <3>2. attempts[d] + 1 \in Attempts
      BY <3>1 DEF TypeOK, Claimable, Attempts
    <3>3. left' \in [Workers -> 0..BatchLimit] /\ UNCHANGED <<job, dataVars>>
      BY <2>2 DEF TypeOK, ClaimPendingOutboxEvent
    <3>4. run' \in [Docs -> [Attempts -> Pc]]
      BY <3>1, <3>2 DEF TypeOK, Pc
    <3>5. serving' \in [Workers -> Runs \cup {NoRun}]
      BY <3>1, <3>2 DEF TypeOK, Runs
    <3> QED
      BY <3>1, <3>2, <3>3, <3>4, <3>5 DEF TypeOK, Status, Attempts, dataVars
  <2>3. CASE EndBatch(w)
    BY <2>3 DEF TypeOK, EndBatch, docVars, dataVars
  <2>4. CASE RenewOutboxEventLease(w)
    BY <2>4 DEF TypeOK, RenewOutboxEventLease, workVars, dataVars
  <2>5. CASE LoseLease(w)
    BY <2>5 DEF TypeOK, LoseLease, docVars, dataVars
  <2>6. CASE Crash(w)
    BY <2>6 DEF TypeOK, Crash, docVars, dataVars
  <2>7. CASE MarkClaimedOutboxEventDone(w)
    BY <2>7 DEF TypeOK, MarkClaimedOutboxEventDone, Status, Pc, dataVars
  <2>8. CASE MarkClaimedOutboxEventFailed(w)
    <3>1. PICK d \in Docs, n \in Attempts :
             /\ run' = [run EXCEPT ![d][n] = "over"]
             /\ serving' = [serving EXCEPT ![w] = NoRun]
             /\ IF OwnsClaim(d, n)
                  THEN /\ status' = [status EXCEPT ![d] =
                                       IF n >= MaxAttempts THEN "failed" ELSE "pending"]
                       /\ due' = [due EXCEPT ![d] = FALSE]
                  ELSE UNCHANGED <<status, due>>
             /\ UNCHANGED <<attempts, job, left, dataVars>>
      BY <2>8 DEF MarkClaimedOutboxEventFailed
    <3>2. status' \in [Docs -> Status] /\ due' \in [Docs -> BOOLEAN]
      BY <3>1 DEF TypeOK, Status
    <3> QED
      BY <3>1, <3>2 DEF TypeOK, Pc, dataVars
  <2>9. CASE MarkError(w)
    BY <2>9 DEF TypeOK, MarkError, Pc, docVars, dataVars
  <2> QED
    BY <1>3, <2>1, <2>2, <2>3, <2>4, <2>5, <2>6, <2>7, <2>8, <2>9 DEF ProcessorStep
<1>4. ASSUME NEW d \in Docs, NEW n \in Attempts, DispatchStep(d, n)
      PROVE  TypeOK'
  <2>1. run' \in [Docs -> [Attempts -> Pc]]
    <3>1. PICK pc \in Pc : run' = [run EXCEPT ![d][n] = pc]
      BY <1>4, DispatchRun
    <3> QED
      BY <3>1 DEF TypeOK
  <2>2. UNCHANGED <<status, due, attempts, job, serving, left>>
    BY <1>4 DEF DispatchStep, OptimisticCheck, Recheck, CommitStep,
       RetryConflict, CallExternal, MarkWorkflowStepExecutionDone, LogAudit,
       EmitInvalidate, DispatchError, DispatchStops, docVars, workVars
  <2>3. /\ marker' \in SUBSET Keys
        /\ effect' \in [Keys -> Nat]
        /\ audited' \in SUBSET Docs
        /\ emitted' \in SUBSET Docs
    BY <1>4 DEF TypeOK, DispatchStep, OptimisticCheck, Recheck, CommitStep,
       RetryConflict, CallExternal, MarkWorkflowStepExecutionDone, LogAudit,
       EmitInvalidate, DispatchError, DispatchStops, dataVars, Keys
  <2> QED
    BY <2>1, <2>2, <2>3 DEF TypeOK
<1>5. CASE UNCHANGED vars
  BY <1>5 DEF TypeOK, vars, docVars, workVars, dataVars
<1> QED
  BY <1>1, <1>2, <1>3, <1>4, <1>5 DEF Next

-----------------------------------------------------------------------------
(* Only a dispatch writes data, and only a dispatch or a processor moves an*)
(* attempt.                                                                *)

LEMMA DispatchFrame ==
  ASSUME NEW d \in Docs, NEW n \in Attempts, DispatchStep(d, n)
  PROVE  UNCHANGED <<docVars, workVars>>
BY DEF DispatchStep, OptimisticCheck, Recheck, CommitStep, RetryConflict,
   CallExternal, MarkWorkflowStepExecutionDone, LogAudit, EmitInvalidate,
   DispatchError, DispatchStops

LEMMA ProcessorFrame ==
  ASSUME NEW w \in Workers, ProcessorStep(w)
  PROVE  UNCHANGED <<job, dataVars>>
BY DEF ProcessorStep, StartBatch, ClaimPendingOutboxEvent, EndBatch,
   RenewOutboxEventLease, LoseLease, Crash, MarkClaimedOutboxEventDone,
   MarkClaimedOutboxEventFailed, MarkError, docVars

(* A processor's step leaves an attempt where it is, starts the next one,  *)
(* or ends one that returned.                                              *)
LEMMA ProcessorRun ==
  ASSUME TypeOK, NEW w \in Workers, ProcessorStep(w),
         NEW d \in Docs, NEW n \in Attempts
  PROVE  run'[d][n] \in {run[d][n], "over"}
           \/ (run'[d][n] = "check" /\ Claimable(d) /\ status'[d] = "processing")
<1>1. CASE ClaimPendingOutboxEvent(w)
  <2>1. PICK e \in Docs : /\ Claimable(e)
                          /\ status' = [status EXCEPT ![e] = "processing"]
                          /\ run' = [run EXCEPT ![e][attempts[e] + 1] = "check"]
    BY <1>1 DEF ClaimPendingOutboxEvent
  <2>2. attempts[e] + 1 \in Attempts
    BY <2>1, BoundsAssumption DEF TypeOK, Claimable, Attempts
  <2> QED
    BY <2>1, <2>2 DEF TypeOK
<1>2. CASE StartBatch(w) \/ EndBatch(w) \/ RenewOutboxEventLease(w) \/ LoseLease(w) \/ Crash(w)
  BY <1>2 DEF StartBatch, EndBatch, RenewOutboxEventLease, LoseLease, Crash
<1>3. CASE \/ MarkClaimedOutboxEventDone(w)
           \/ MarkClaimedOutboxEventFailed(w)
           \/ MarkError(w)
  <2>1. PICK e \in Docs, m \in Attempts : run' = [run EXCEPT ![e][m] = "over"]
    BY <1>3 DEF MarkClaimedOutboxEventDone, MarkClaimedOutboxEventFailed, MarkError
  <2> QED
    BY <2>1 DEF TypeOK
<1> QED
  BY <1>1, <1>2, <1>3 DEF ProcessorStep

(* How a processor moves the status of a document.                         *)
LEMMA ProcessorStatus ==
  ASSUME TypeOK, NEW w \in Workers, ProcessorStep(w), NEW d \in Docs
  PROVE  \/ status'[d] = status[d]
         \/ status'[d] = "failed" /\ Unfinished(d)
         \/ status'[d] = "processing" /\ Claimable(d)
         \/ /\ status'[d] = "done" /\ status[d] = "processing"
            /\ \E n \in Attempts : attempts[d] = n /\ run[d][n] = "ok"
         \/ /\ status'[d] = "pending" /\ status[d] = "processing"
            /\ \E n \in Attempts : /\ attempts[d] = n /\ run[d][n] = "err"
                                   /\ attempts' = attempts
                                   /\ run'[d][n] = "over"
<1>1. CASE ClaimPendingOutboxEvent(w)
  BY <1>1 DEF ClaimPendingOutboxEvent, TypeOK
<1>2. CASE EndBatch(w) \/ RenewOutboxEventLease(w) \/ LoseLease(w) \/ Crash(w) \/ MarkError(w)
  BY <1>2 DEF EndBatch, RenewOutboxEventLease, LoseLease, Crash, MarkError, docVars
<1>3. CASE StartBatch(w)
  BY <1>3 DEF StartBatch, Exhausted
<1>4. CASE MarkClaimedOutboxEventDone(w)
  BY <1>4 DEF MarkClaimedOutboxEventDone, OwnsClaim, TypeOK
<1>5. CASE MarkClaimedOutboxEventFailed(w)
  <2>1. PICK e \in Docs, m \in Attempts :
           /\ run[e][m] = "err"
           /\ run' = [run EXCEPT ![e][m] = "over"]
           /\ IF OwnsClaim(e, m)
                THEN status' = [status EXCEPT ![e] =
                                  IF m >= MaxAttempts THEN "failed" ELSE "pending"]
                ELSE status' = status
           /\ attempts' = attempts
    BY <1>5 DEF MarkClaimedOutboxEventFailed
  <2>2. CASE OwnsClaim(e, m) /\ d = e
    BY <2>1, <2>2 DEF OwnsClaim, Unfinished, TypeOK
  <2>3. CASE ~(OwnsClaim(e, m) /\ d = e)
    BY <2>1, <2>3 DEF TypeOK
  <2> QED
    BY <2>2, <2>3
<1> QED
  BY <1>1, <1>2, <1>3, <1>4, <1>5 DEF ProcessorStep

(* Data only grows, and a document keeps its job for ever.                 *)
Grows == /\ marker \subseteq marker'
         /\ audited \subseteq audited'
         /\ emitted \subseteq emitted'
         /\ \A k \in Keys : effect'[k] >= effect[k]
         /\ \A d \in Docs : status[d] # "absent" =>
               status'[d] # "absent" /\ job'[d] = job[d]

LEMMA Growth == TypeOK /\ [Next]_vars => Grows
<1> SUFFICES ASSUME TypeOK, [Next]_vars PROVE Grows
  OBVIOUS
<1>0. \A k \in Keys : effect[k] \in Nat
  BY DEF TypeOK
<1>1. ASSUME NEW d \in Docs, NEW j \in Keys \cup PostWrites, InsertOutboxEvent(d, j)
      PROVE  Grows
  BY <1>0, <1>1 DEF InsertOutboxEvent, dataVars, TypeOK, Grows
<1>2. ASSUME NEW d \in Docs, LeaseLapse(d) \/ ExpireTTL(d)
      PROVE  Grows
  BY <1>0, <1>2 DEF LeaseLapse, ExpireTTL, dataVars, TypeOK, Grows
<1>3. ASSUME NEW w \in Workers, ProcessorStep(w)
      PROVE  Grows
  <2>1. UNCHANGED <<job, dataVars>>
    BY <1>3, ProcessorFrame
  <2>2. \A d \in Docs : status[d] # "absent" => status'[d] # "absent"
    BY <1>3, ProcessorStatus
  <2> QED
    BY <1>0, <2>1, <2>2 DEF Grows, dataVars
<1>4. ASSUME NEW d \in Docs, NEW n \in Attempts, DispatchStep(d, n)
      PROVE  Grows
  <2>1. UNCHANGED docVars
    BY <1>4, DispatchFrame
  <2>2. \A k \in Keys : effect'[k] >= effect[k]
    BY <1>0, <1>4 DEF TypeOK, DispatchStep, OptimisticCheck, Recheck, CommitStep,
       RetryConflict, CallExternal, MarkWorkflowStepExecutionDone, LogAudit,
       EmitInvalidate, DispatchError, DispatchStops, dataVars, Keys
  <2>3. marker \subseteq marker' /\ audited \subseteq audited' /\ emitted \subseteq emitted'
    BY <1>4 DEF DispatchStep, OptimisticCheck, Recheck, CommitStep,
       RetryConflict, CallExternal, MarkWorkflowStepExecutionDone, LogAudit,
       EmitInvalidate, DispatchError, DispatchStops, dataVars
  <2> QED
    BY <2>1, <2>2, <2>3 DEF Grows, docVars
<1>5. CASE UNCHANGED vars
  BY <1>0, <1>5 DEF Grows, vars, docVars, dataVars
<1> QED
  BY <1>1, <1>2, <1>3, <1>4, <1>5 DEF Next

(* What an event has achieved is never lost.                               *)
LEMMA PerformedStays ==
  ASSUME TypeOK, TypeOK', Grows, NEW d \in Docs, status[d] # "absent", Performed(d)
  PROVE  Performed(d)'
<1>1. job'[d] = job[d]
  BY DEF Grows
<1>2. CASE job[d] \in Keys
  <2>1. effect[job[d]] \in Nat /\ effect'[job[d]] \in Nat
    BY <1>2 DEF TypeOK
  <2> QED
    BY <1>1, <1>2, <2>1 DEF Grows, Performed
<1>3. CASE job[d] \notin Keys
  BY <1>1, <1>3 DEF Grows, Performed
<1> QED
  BY <1>2, <1>3

-----------------------------------------------------------------------------
(* The parts of OutboxInv, each over every step.                                *)

LEMMA EffectStep == OutboxInv /\ [Next]_vars => MarkerInv' /\ ExactlyOnce'
<1> SUFFICES ASSUME OutboxInv, [Next]_vars PROVE MarkerInv' /\ ExactlyOnce'
  OBVIOUS
<1>0. TypeOK /\ MarkerInv /\ ExactlyOnce
  BY DEF OutboxInv
<1>1. ASSUME UNCHANGED dataVars PROVE MarkerInv' /\ ExactlyOnce'
  BY <1>0, <1>1 DEF MarkerInv, ExactlyOnce, dataVars
<1>2. ASSUME NEW d \in Docs, NEW n \in Attempts, DispatchStep(d, n)
      PROVE  MarkerInv' /\ ExactlyOnce'
  <2>1. CASE CommitStep(d, n)
    BY <1>0, <2>1, JobsAssumption DEF CommitStep, TypeOK, MarkerInv, ExactlyOnce, Keys
  <2>2. CASE CallExternal(d, n)
    BY <1>0, <2>2, JobsAssumption DEF CallExternal, TypeOK, MarkerInv, ExactlyOnce, Keys
  <2>3. CASE MarkWorkflowStepExecutionDone(d, n)
    <3>1. effect[job[d]] > 0
      BY <2>3 DEF MarkWorkflowStepExecutionDone, OutboxInv, RunInv, RunOK
    <3> QED
      BY <1>0, <2>3, <3>1, JobsAssumption
      DEF MarkWorkflowStepExecutionDone, TypeOK, MarkerInv, ExactlyOnce, Keys
  <2>4. CASE LogAudit(d, n) \/ EmitInvalidate(d, n)
    BY <1>0, <2>4 DEF LogAudit, EmitInvalidate, MarkerInv, ExactlyOnce
  <2>5. CASE \/ OptimisticCheck(d, n) \/ Recheck(d, n) \/ RetryConflict(d, n)
             \/ DispatchError(d, n) \/ DispatchStops(d, n)
    BY <1>1, <2>5 DEF OptimisticCheck, Recheck, RetryConflict, DispatchError, DispatchStops
  <2> QED
    BY <1>2, <2>1, <2>2, <2>3, <2>4, <2>5 DEF DispatchStep
<1>3. ASSUME NEW d \in Docs,
             (\E j \in Keys \cup PostWrites : InsertOutboxEvent(d, j))
               \/ LeaseLapse(d) \/ ExpireTTL(d)
      PROVE  UNCHANGED dataVars
  BY <1>3 DEF InsertOutboxEvent, LeaseLapse, ExpireTTL
<1>4. CASE UNCHANGED vars
  BY <1>1, <1>4 DEF vars
<1> QED
  BY <1>1, <1>2, <1>3, <1>4, ProcessorFrame DEF Next, dataVars

(* An attempt that stays where it is, or ends, stays consistent.           *)
LEMMA RunKept ==
  ASSUME OutboxInv, TypeOK', Grows, NEW d \in Docs, NEW n \in Attempts,
         run'[d][n] \in {run[d][n], "over", "err"},
         run'[d][n] # "none" => status[d] # "absent"
  PROVE  RunOK(d, n)'
<1>1. TypeOK /\ RunOK(d, n)
  BY DEF OutboxInv, RunInv
<1>2. CASE run'[d][n] = "none"
  BY <1>2 DEF RunOK
<1>3. CASE run'[d][n] # "none"
  <2>1. status[d] # "absent" /\ status'[d] # "absent" /\ job'[d] = job[d]
    BY <1>3 DEF Grows
  <2>2. run'[d][n] = "ok" => Performed(d)'
    BY <1>1, <2>1, PerformedStays DEF RunOK
  <2>3. ASSUME run'[d][n] = "called"
        PROVE  job'[d] \in ExternalKeys /\ effect'[job'[d]] > 0
    <3>1. job[d] \in ExternalKeys /\ effect[job[d]] > 0
      BY <1>1, <2>3 DEF RunOK
    <3>2. effect[job[d]] \in Nat /\ effect'[job[d]] \in Nat
      BY <3>1, <1>1 DEF TypeOK, Keys
    <3> QED
      BY <2>1, <3>1, <3>2 DEF Grows, Keys
  <2>4. run'[d][n] = "audited" => job'[d] \in PostWrites /\ d \in audited'
    BY <1>1, <2>1 DEF RunOK, Grows
  <2> QED
    BY <2>1, <2>2, <2>3, <2>4 DEF RunOK
<1> QED
  BY <1>2, <1>3

LEMMA RunStep == OutboxInv /\ TypeOK' /\ [Next]_vars => RunInv'
<1> SUFFICES ASSUME OutboxInv, TypeOK', [Next]_vars, NEW e \in Docs, NEW m \in Attempts
             PROVE  RunOK(e, m)'
  BY DEF RunInv
<1>0. TypeOK /\ RunOK(e, m) /\ Grows
  BY Growth DEF OutboxInv, RunInv
<1>1. ASSUME run' = run PROVE RunOK(e, m)'
  BY <1>0, <1>1, RunKept DEF RunOK
<1>2. ASSUME NEW w \in Workers, ProcessorStep(w)
      PROVE  RunOK(e, m)'
  <2>1. CASE run'[e][m] = "check" /\ Claimable(e) /\ status'[e] = "processing"
    BY <2>1 DEF RunOK
  <2>2. CASE run'[e][m] = run[e][m]
    BY <1>0, <2>2, RunKept DEF RunOK
  <2>3. CASE run'[e][m] = "over" /\ run[e][m] = "none"
    <3>1. \A d \in Docs, n \in Attempts : run[d][n] \in {"ok", "err"} =>
             ~(d = e /\ n = m)
      BY <2>3
    <3>2. run'[e][m] = run[e][m] \/ run'[e][m] = "check"
      <4>1. CASE ClaimPendingOutboxEvent(w)
        <5>1. PICK d \in Docs : /\ Claimable(d)
                                /\ run' = [run EXCEPT ![d][attempts[d] + 1] = "check"]
          BY <4>1 DEF ClaimPendingOutboxEvent
        <5> QED
          BY <5>1, <1>0, BoundsAssumption DEF TypeOK, Claimable, Attempts
      <4>2. CASE \/ MarkClaimedOutboxEventDone(w)
                 \/ MarkClaimedOutboxEventFailed(w)
                 \/ MarkError(w)
        <5>1. PICK d \in Docs, n \in Attempts :
                 /\ run[d][n] \in {"ok", "err"}
                 /\ run' = [run EXCEPT ![d][n] = "over"]
          BY <4>2 DEF MarkClaimedOutboxEventDone, MarkClaimedOutboxEventFailed, MarkError
        <5> QED
          BY <5>1, <3>1, <1>0 DEF TypeOK
      <4>3. CASE \/ StartBatch(w) \/ EndBatch(w) \/ RenewOutboxEventLease(w)
                 \/ LoseLease(w) \/ Crash(w)
        BY <4>3 DEF StartBatch, EndBatch, RenewOutboxEventLease, LoseLease, Crash
      <4> QED
        BY <1>2, <4>1, <4>2, <4>3 DEF ProcessorStep
    <3> QED
      BY <2>3, <3>2
  <2>4. CASE run'[e][m] = "over" /\ run[e][m] # "none"
    BY <1>0, <2>4, RunKept DEF RunOK
  <2> QED
    BY <1>0, <1>2, <2>1, <2>2, <2>3, <2>4, ProcessorRun
<1>3. ASSUME NEW d \in Docs, NEW n \in Attempts, DispatchStep(d, n)
      PROVE  RunOK(e, m)'
  <2>1. PICK pc \in Pc : run' = [run EXCEPT ![d][n] = pc]
    BY <1>3, DispatchRun
  <2>2. UNCHANGED <<status, job>>
    BY <1>3, DispatchFrame DEF docVars
  <2>3. CASE <<e, m>> # <<d, n>>
    <3>1. run'[e][m] = run[e][m]
      BY <1>0, <2>1, <2>3 DEF TypeOK
    <3> QED
      BY <1>0, <3>1, RunKept DEF RunOK
  <2>4. RunOK(d, n)'
    <3>0. RunOK(d, n)
      BY DEF OutboxInv, RunInv
    <3>1. run'[d][n] = pc /\ run[d][n] # "none" /\ status[d] # "absent"
      <4>1. run[d][n] # "none"
        BY <1>3 DEF DispatchStep, OptimisticCheck, Recheck, CommitStep, RetryConflict,
           CallExternal, MarkWorkflowStepExecutionDone, LogAudit, EmitInvalidate,
           DispatchError, DispatchStops, Dispatching
      <4> QED
        BY <1>0, <2>1, <3>0, <4>1 DEF TypeOK, RunOK
    <3>2. ASSUME run'[d][n] \in {"over", "err"} PROVE RunOK(d, n)'
      BY <1>0, <3>1, <3>2, RunKept
    <3>3. ASSUME run'[d][n] \in {"recheck", "execute"} PROVE RunOK(d, n)'
      BY <2>2, <3>1, <3>3 DEF RunOK
    <3>4. ASSUME NEW q \in Pc, Goto(d, n, q) PROVE run'[d][n] \in {q, "over"}
      BY <1>0, <3>4 DEF Goto, TypeOK
    <3>5. CASE OptimisticCheck(d, n) \/ Recheck(d, n)
      <4>1. CASE job[d] \in marker
        <5>1. run'[d][n] \in {"ok", "over"} /\ job[d] \in Keys /\ UNCHANGED dataVars
          BY <3>4, <3>5, <4>1 DEF OptimisticCheck, Recheck, Pc
        <5>2. Performed(d)'
          BY <4>1, <5>1, <2>2 DEF OutboxInv, MarkerInv, Performed, dataVars
        <5> QED
          BY <2>2, <3>1, <5>1, <5>2, <3>2 DEF RunOK
      <4>2. CASE job[d] \notin marker
        <5>1. run'[d][n] \in {"recheck", "execute", "over"}
          BY <3>4, <3>5, <4>2 DEF OptimisticCheck, Recheck, Pc
        <5> QED
          BY <5>1, <3>2, <3>3
      <4> QED
        BY <4>1, <4>2
    <3>6. CASE CommitStep(d, n)
      <4>1. run'[d][n] \in {"ok", "err", "over"}
        BY <3>4, <3>6 DEF CommitStep, Pc
      <4>2. Performed(d)'
        BY <1>0, <2>2, <3>6 DEF CommitStep, Performed, TypeOK, Keys
      <4> QED
        BY <2>2, <3>1, <3>2, <4>1, <4>2 DEF RunOK
    <3>7. CASE CallExternal(d, n)
      <4>1. run'[d][n] \in {"called", "err", "over"}
        BY <3>4, <3>7 DEF CallExternal, Pc
      <4>2. job'[d] \in ExternalKeys /\ effect'[job'[d]] > 0
        BY <1>0, <2>2, <3>7 DEF CallExternal, TypeOK, Keys
      <4> QED
        BY <2>2, <3>1, <3>2, <4>1, <4>2 DEF RunOK
    <3>8. CASE MarkWorkflowStepExecutionDone(d, n)
      <4>1. run'[d][n] \in {"ok", "err", "over"}
        BY <3>4, <3>8 DEF MarkWorkflowStepExecutionDone, Pc
      <4>2. Performed(d)'
        BY <1>0, <2>2, <3>8 DEF MarkWorkflowStepExecutionDone, Performed, RunOK, Keys, OutboxInv, RunInv
      <4> QED
        BY <2>2, <3>1, <3>2, <4>1, <4>2 DEF RunOK
    <3>9. CASE LogAudit(d, n)
      <4>1. run'[d][n] \in {"audited", "err", "over"}
        BY <1>0, <3>4, <3>9 DEF LogAudit, Pc, TypeOK
      <4>2. job'[d] \in PostWrites /\ d \in audited'
        BY <2>2, <3>9 DEF LogAudit
      <4> QED
        BY <2>2, <3>1, <3>2, <4>1, <4>2 DEF RunOK
    <3>10. CASE EmitInvalidate(d, n)
      <4>1. run'[d][n] \in {"ok", "over"}
        BY <3>4, <3>10 DEF EmitInvalidate, Pc
      <4>2. Performed(d)'
        BY <2>2, <3>10, JobsAssumption DEF EmitInvalidate, Performed, OutboxInv, RunInv, RunOK, Keys
      <4> QED
        BY <2>2, <3>1, <3>2, <4>1, <4>2 DEF RunOK
    <3>11. CASE RetryConflict(d, n) \/ DispatchError(d, n) \/ DispatchStops(d, n)
      <4>1. run'[d][n] \in {"recheck", "err", "over"}
        BY <1>0, <3>4, <3>11 DEF RetryConflict, DispatchError, DispatchStops, Pc, TypeOK
      <4> QED
        BY <4>1, <3>2, <3>3
    <3> QED
      BY <1>3, <3>5, <3>6, <3>7, <3>8, <3>9, <3>10, <3>11 DEF DispatchStep
  <2> QED
    BY <2>3, <2>4 DEF RunOK, Performed
<1>4. ASSUME NEW d \in Docs,
             (\E j \in Keys \cup PostWrites : InsertOutboxEvent(d, j))
               \/ LeaseLapse(d) \/ ExpireTTL(d)
      PROVE  run' = run
  BY <1>4 DEF InsertOutboxEvent, LeaseLapse, ExpireTTL
<1>5. CASE UNCHANGED vars
  BY <1>1, <1>5 DEF vars
<1> QED
  BY <1>1, <1>2, <1>3, <1>4, <1>5 DEF Next

(* How any step moves the status of a document that exists.                *)
LEMMA StatusStep ==
  ASSUME TypeOK, [Next]_vars, NEW d \in Docs, status[d] # "absent"
  PROVE  \/ status'[d] = status[d]
         \/ status'[d] = "failed" /\ Unfinished(d)
         \/ status'[d] = "processing" /\ Claimable(d)
         \/ status'[d] = "expired" /\ status[d] \in {"done", "failed"}
         \/ /\ status'[d] = "done" /\ status[d] = "processing"
            /\ \E n \in Attempts : attempts[d] = n /\ run[d][n] = "ok"
         \/ /\ status'[d] = "pending" /\ status[d] = "processing"
            /\ \E n \in Attempts : /\ attempts[d] = n /\ run[d][n] = "err"
                                   /\ attempts' = attempts
                                   /\ run'[d][n] = "over"
<1>1. ASSUME NEW e \in Docs,
             (\E j \in Keys \cup PostWrites : InsertOutboxEvent(e, j)) \/ LeaseLapse(e)
      PROVE  status'[d] = status[d]
  BY <1>1 DEF InsertOutboxEvent, LeaseLapse, TypeOK
<1>2. ASSUME NEW e \in Docs, ExpireTTL(e)
      PROVE  status'[d] = status[d]
               \/ (status'[d] = "expired" /\ status[d] \in {"done", "failed"})
  BY <1>2 DEF ExpireTTL, TypeOK
<1>3. ASSUME NEW e \in Docs, NEW n \in Attempts, DispatchStep(e, n)
      PROVE  status'[d] = status[d]
  BY <1>3, DispatchFrame DEF docVars
<1>4. CASE UNCHANGED vars
  BY <1>4 DEF vars, docVars
<1> QED
  BY <1>1, <1>2, <1>3, <1>4, ProcessorStatus DEF Next

LEMMA AbsentStep == OutboxInv /\ [Next]_vars => AbsentInv'
<1> SUFFICES ASSUME OutboxInv, [Next]_vars, NEW d \in Docs, status'[d] = "absent"
             PROVE  attempts'[d] = 0
  BY DEF AbsentInv
<1>0. TypeOK
  BY DEF OutboxInv
<1>1. status[d] = "absent"
  BY <1>0, Growth DEF Grows
<1>2. attempts[d] = 0
  BY <1>1 DEF OutboxInv, AbsentInv
<1>3. ASSUME NEW w \in Workers, ClaimPendingOutboxEvent(w)
      PROVE  attempts'[d] = attempts[d]
  BY <1>0, <1>1, <1>3 DEF ClaimPendingOutboxEvent, Claimable, Unfinished, TypeOK
<1>4. ASSUME NEW w \in Workers, ProcessorStep(w), ~ClaimPendingOutboxEvent(w)
      PROVE  attempts' = attempts
  BY <1>4 DEF ProcessorStep, StartBatch, EndBatch, RenewOutboxEventLease, LoseLease,
     Crash, MarkClaimedOutboxEventDone, MarkClaimedOutboxEventFailed, MarkError, docVars
<1>5. ASSUME NEW e \in Docs, NEW n \in Attempts, DispatchStep(e, n)
      PROVE  attempts' = attempts
  BY <1>5, DispatchFrame DEF docVars
<1>6. ASSUME NEW e \in Docs,
             (\E j \in Keys \cup PostWrites : InsertOutboxEvent(e, j))
               \/ LeaseLapse(e) \/ ExpireTTL(e)
      PROVE  attempts' = attempts
  BY <1>6 DEF InsertOutboxEvent, LeaseLapse, ExpireTTL
<1>7. CASE UNCHANGED vars
  BY <1>2, <1>7 DEF vars, docVars
<1> QED
  BY <1>2, <1>3, <1>4, <1>5, <1>6, <1>7 DEF Next

LEMMA DoneStep == OutboxInv /\ TypeOK' /\ [Next]_vars => DoneIsPerformed'
<1> SUFFICES ASSUME OutboxInv, TypeOK', [Next]_vars, NEW d \in Docs, status'[d] = "done"
             PROVE  Performed(d)'
  BY DEF DoneIsPerformed
<1>0. TypeOK /\ Grows
  BY Growth DEF OutboxInv
<1>1. status[d] # "absent"
  <2>1. ASSUME NEW e \in Docs, NEW j \in Keys \cup PostWrites, InsertOutboxEvent(e, j)
        PROVE  status'[d] \in {status[d], "pending"}
    BY <1>0, <2>1 DEF InsertOutboxEvent, TypeOK
  <2>2. ASSUME NEW e \in Docs, LeaseLapse(e) \/ ExpireTTL(e)
        PROVE  status'[d] \in {status[d], "expired"}
    BY <1>0, <2>2 DEF LeaseLapse, ExpireTTL, TypeOK
  <2>3. ASSUME NEW w \in Workers, ProcessorStep(w), status[d] = "absent"
        PROVE  status'[d] # "done"
    BY <1>0, <2>3, ProcessorStatus
  <2>4. ASSUME NEW e \in Docs, NEW n \in Attempts, DispatchStep(e, n)
        PROVE  status' = status
    BY <2>4, DispatchFrame DEF docVars
  <2>5. CASE UNCHANGED vars
    BY <2>5 DEF vars, docVars
  <2> QED
    BY <2>1, <2>2, <2>3, <2>4, <2>5 DEF Next
<1>2. Performed(d)
  <2>1. CASE status[d] = "done"
    BY <2>1 DEF OutboxInv, DoneIsPerformed
  <2>2. CASE status[d] # "done"
    <3>1. PICK n \in Attempts : run[d][n] = "ok"
      BY <1>0, <1>1, <2>2, StatusStep
    <3> QED
      BY <3>1 DEF OutboxInv, RunInv, RunOK
  <2> QED
    BY <2>1, <2>2
<1> QED
  BY <1>0, <1>1, <1>2, PerformedStays

LEMMA RetryStep == OutboxInv /\ TypeOK' /\ [Next]_vars => RetryHasNoOwner'
<1> SUFFICES ASSUME OutboxInv, TypeOK', [Next]_vars, NEW d \in Docs, NEW n \in Attempts,
                    status'[d] = "pending", attempts'[d] = n
             PROVE  run'[d][n] = "over"
  BY DEF RetryHasNoOwner
<1>0. TypeOK /\ n > 0 /\ n \in Nat
  BY BoundsAssumption DEF OutboxInv, Attempts
<1>1. CASE status[d] = "absent"
  <2>1. attempts[d] = 0
    BY <1>1 DEF OutboxInv, AbsentInv
  <2>2. ASSUME NEW e \in Docs, NEW j \in Keys \cup PostWrites, InsertOutboxEvent(e, j)
        PROVE  attempts' = attempts
    BY <2>2 DEF InsertOutboxEvent
  <2>3. ASSUME NEW e \in Docs, LeaseLapse(e) \/ ExpireTTL(e)
        PROVE  attempts' = attempts
    BY <2>3 DEF LeaseLapse, ExpireTTL
  <2>4. ASSUME NEW w \in Workers, ProcessorStep(w)
        PROVE  status'[d] # "pending"
    BY <1>0, <1>1, <2>4, ProcessorStatus
  <2>5. ASSUME NEW e \in Docs, NEW m \in Attempts, DispatchStep(e, m)
        PROVE  attempts' = attempts
    BY <2>5, DispatchFrame DEF docVars
  <2>6. CASE UNCHANGED vars
    BY <1>0, <2>1, <2>6 DEF vars, docVars
  <2> QED
    BY <1>0, <2>1, <2>2, <2>3, <2>4, <2>5, <2>6 DEF Next
<1>2. CASE status[d] = "pending"
  <2>1. attempts'[d] = attempts[d]
    <3>1. ASSUME NEW w \in Workers, ClaimPendingOutboxEvent(w)
          PROVE  attempts'[d] = attempts[d]
      BY <1>0, <3>1 DEF ClaimPendingOutboxEvent, TypeOK
    <3>2. ASSUME NEW w \in Workers, ProcessorStep(w), ~ClaimPendingOutboxEvent(w)
          PROVE  attempts' = attempts
      BY <3>2 DEF ProcessorStep, StartBatch, EndBatch, RenewOutboxEventLease, LoseLease,
         Crash, MarkClaimedOutboxEventDone, MarkClaimedOutboxEventFailed, MarkError, docVars
    <3>3. ASSUME NEW e \in Docs, NEW m \in Attempts, DispatchStep(e, m)
          PROVE  attempts' = attempts
      BY <3>3, DispatchFrame DEF docVars
    <3>4. ASSUME NEW e \in Docs,
                 (\E j \in Keys \cup PostWrites : InsertOutboxEvent(e, j))
                   \/ LeaseLapse(e) \/ ExpireTTL(e)
          PROVE  attempts' = attempts
      BY <3>4 DEF InsertOutboxEvent, LeaseLapse, ExpireTTL
    <3>5. CASE UNCHANGED vars
      BY <3>5 DEF vars, docVars
    <3> QED
      BY <3>1, <3>2, <3>3, <3>4, <3>5 DEF Next
  <2>2. run[d][n] = "over"
    BY <1>2, <2>1 DEF OutboxInv, RetryHasNoOwner
  <2>3. ASSUME NEW e \in Docs, NEW m \in Attempts, DispatchStep(e, m)
        PROVE  run'[d][n] = "over"
    <3>1. PICK pc \in Pc : run' = [run EXCEPT ![e][m] = pc]
      BY <2>3, DispatchRun
    <3>2. run[e][m] # "over"
      BY <2>3 DEF DispatchStep, OptimisticCheck, Recheck, CommitStep, RetryConflict,
         CallExternal, MarkWorkflowStepExecutionDone, LogAudit, EmitInvalidate,
         DispatchError, DispatchStops, Dispatching
    <3> QED
      BY <1>0, <2>2, <3>1, <3>2 DEF TypeOK
  <2>4. ASSUME NEW w \in Workers, ProcessorStep(w)
        PROVE  run'[d][n] = "over"
    BY <1>0, <2>2, <2>4, ProcessorRun
  <2>5. ASSUME NEW e \in Docs,
               (\E j \in Keys \cup PostWrites : InsertOutboxEvent(e, j))
                 \/ LeaseLapse(e) \/ ExpireTTL(e)
        PROVE  run' = run
    BY <2>5 DEF InsertOutboxEvent, LeaseLapse, ExpireTTL
  <2>6. CASE UNCHANGED vars
    BY <2>2, <2>6 DEF vars
  <2> QED
    BY <2>2, <2>3, <2>4, <2>5, <2>6 DEF Next
<1>3. CASE status[d] \notin {"absent", "pending"}
  BY <1>0, <1>3, StatusStep
<1> QED
  BY <1>1, <1>2, <1>3

-----------------------------------------------------------------------------

LEMMA OutboxStep == OutboxInv /\ [Next]_vars => OutboxInv'
<1> SUFFICES ASSUME OutboxInv, [Next]_vars PROVE OutboxInv'
  OBVIOUS
<1>1. TypeOK'
  BY TypeStep DEF OutboxInv
<1> QED
  BY <1>1, EffectStep, RunStep, AbsentStep, DoneStep, RetryStep DEF OutboxInv

LEMMA OutboxInvariant == Spec => []OutboxInv
BY OutboxStart, OutboxStep, PTL DEF Spec

(* The outbox collection, the processors' claims and the markers keep their*)
(* types; in particular no event is claimed more than maxAttempts times.   *)
THEOREM OutboxTypes == Spec => []TypeOK
BY OutboxInvariant, PTL DEF OutboxInv

(* The effect of a transactional workflow step is committed exactly when   *)
(* its marker is, and so at most once, for any number of documents with    *)
(* its key, attempts, processors, crashes and lost leases.                 *)
THEOREM OutboxExactlyOnce == Spec => []ExactlyOnce
BY OutboxInvariant, PTL DEF OutboxInv

(* No event is acknowledged as done before its effect took place.          *)
THEOREM OutboxDoneIsPerformed == Spec => []DoneIsPerformed
BY OutboxInvariant, PTL DEF OutboxInv

(* Only the attempt that owns the claim hands an event back for a retry.   *)
THEOREM OutboxRetryHasNoOwner == Spec => []RetryHasNoOwner
BY OutboxInvariant, PTL DEF OutboxInv

(* A late worker never reopens, or reverses the verdict on, an event.      *)
THEOREM OutboxFinishedIsFinal == Spec => FinishedIsFinal
<1>1. TypeOK /\ [Next]_vars =>
        [\A d \in Docs : status[d] \in {"done", "failed"} =>
            status'[d] \in {status[d], "expired"}]_vars
  BY StatusStep DEF Unfinished, Claimable
<1> QED
  BY <1>1, OutboxTypes, PTL DEF Spec, FinishedIsFinal

-----------------------------------------------------------------------------
(* Refinement.                                                             *)

LEMMA InitMaps == Init => Jobs!Init
BY DEF Init, Jobs!Init, PhaseOf, Unfinished, Keys

(* A step that moves no document between phases and no data is a stutter.  *)
LEMMA StutterMaps ==
  ASSUME UNCHANGED <<job, dataVars>>, \A d \in Docs : PhaseOf(d)' = PhaseOf(d)
  PROVE  UNCHANGED Jobs!vars
BY DEF Jobs!vars, dataVars

LEMMA ProcessorMaps ==
  ASSUME OutboxInv, NEW w \in Workers, ProcessorStep(w)
  PROVE  [Jobs!Next]_(Jobs!vars)
<1>0. TypeOK /\ UNCHANGED <<job, dataVars>>
  BY ProcessorFrame DEF OutboxInv
<1>1. CASE \/ EndBatch(w) \/ RenewOutboxEventLease(w) \/ LoseLease(w)
           \/ Crash(w) \/ MarkError(w)
  <2>1. status' = status
    BY <1>1 DEF EndBatch, RenewOutboxEventLease, LoseLease, Crash, MarkError, docVars
  <2> QED
    BY <1>0, <2>1, StutterMaps DEF PhaseOf, Unfinished
<1>2. CASE ClaimPendingOutboxEvent(w)
  <2>1. \A d \in Docs : PhaseOf(d)' = PhaseOf(d)
    BY <1>0, <1>2 DEF ClaimPendingOutboxEvent, Claimable, PhaseOf, Unfinished, TypeOK
  <2> QED
    BY <1>0, <2>1, StutterMaps
<1>3. CASE StartBatch(w)
  <2> DEFINE D == {d \in Docs : Exhausted(d)}
  <2>1. \A d \in Docs : PhaseOf(d)' = IF d \in D THEN "failed" ELSE PhaseOf(d)
    BY <1>0, <1>3 DEF StartBatch, Exhausted, PhaseOf, Unfinished, TypeOK
  <2>2. \A d \in D : PhaseOf(d) = "queued"
    BY DEF Exhausted, PhaseOf
  <2>3. Jobs!GiveUp(D)
    BY <1>0, <2>1, <2>2 DEF Jobs!GiveUp, dataVars
  <2> QED
    BY <2>3 DEF Jobs!Next
<1>4. CASE MarkClaimedOutboxEventDone(w)
  <2>1. PICK d \in Docs, n \in Attempts :
           /\ run[d][n] = "ok"
           /\ status' = IF OwnsClaim(d, n)
                          THEN [status EXCEPT ![d] = "done"] ELSE status
    BY <1>4 DEF MarkClaimedOutboxEventDone
  <2>2. CASE OwnsClaim(d, n)
    <3>1. PhaseOf(d) = "queued"
      BY <2>2 DEF OwnsClaim, PhaseOf, Unfinished
    <3>2. \A e \in Docs : PhaseOf(e)' = IF e = d THEN "done" ELSE PhaseOf(e)
      BY <1>0, <2>1, <2>2 DEF PhaseOf, Unfinished, TypeOK
    <3>3. Jobs!Complete(d)
      BY <2>1 DEF OutboxInv, RunInv, RunOK, Performed, Jobs!Complete, Keys, Jobs!Keys
    <3>4. Jobs!Finish(d)
      BY <1>0, <3>1, <3>2, <3>3 DEF Jobs!Finish, dataVars
    <3> QED
      BY <3>4 DEF Jobs!Next
  <2>3. CASE ~OwnsClaim(d, n)
    BY <1>0, <2>1, <2>3, StutterMaps DEF PhaseOf, Unfinished
  <2> QED
    BY <2>2, <2>3
<1>5. CASE MarkClaimedOutboxEventFailed(w)
  <2>1. PICK d \in Docs, n \in Attempts :
           IF OwnsClaim(d, n)
             THEN status' = [status EXCEPT ![d] =
                               IF n >= MaxAttempts THEN "failed" ELSE "pending"]
             ELSE status' = status
    BY <1>5 DEF MarkClaimedOutboxEventFailed
  <2>2. CASE OwnsClaim(d, n) /\ n >= MaxAttempts
    <3>1. PhaseOf(d) = "queued"
      BY <2>2 DEF OwnsClaim, PhaseOf, Unfinished
    <3>2. \A e \in Docs : PhaseOf(e)' = IF e \in {d} THEN "failed" ELSE PhaseOf(e)
      BY <1>0, <2>1, <2>2 DEF PhaseOf, Unfinished, TypeOK
    <3>3. Jobs!GiveUp({d})
      BY <1>0, <3>1, <3>2 DEF Jobs!GiveUp, dataVars
    <3> QED
      BY <3>3 DEF Jobs!Next
  <2>3. CASE ~(OwnsClaim(d, n) /\ n >= MaxAttempts)
    <3>1. \A e \in Docs : PhaseOf(e)' = PhaseOf(e)
      BY <1>0, <2>1, <2>3 DEF PhaseOf, Unfinished, OwnsClaim, TypeOK
    <3> QED
      BY <1>0, <3>1, StutterMaps
  <2> QED
    BY <2>2, <2>3
<1> QED
  BY <1>1, <1>2, <1>3, <1>4, <1>5 DEF ProcessorStep

LEMMA DispatchMaps ==
  ASSUME OutboxInv, NEW d \in Docs, NEW n \in Attempts, DispatchStep(d, n)
  PROVE  [Jobs!Next]_(Jobs!vars)
<1>0. TypeOK /\ status' = status /\ job' = job
  BY DispatchFrame DEF OutboxInv, docVars
<1>1. \A e \in Docs : PhaseOf(e)' = PhaseOf(e)
  BY <1>0 DEF PhaseOf, Unfinished
<1>2. CASE \/ OptimisticCheck(d, n) \/ Recheck(d, n) \/ RetryConflict(d, n)
           \/ DispatchError(d, n) \/ DispatchStops(d, n)
  BY <1>0, <1>1, <1>2, StutterMaps
  DEF OptimisticCheck, Recheck, RetryConflict, DispatchError, DispatchStops
<1>3. CASE CommitStep(d, n)
  <2>1. Jobs!Perform(d)
    BY <1>0, <1>1, <1>3 DEF CommitStep, Jobs!Perform, TypeOK, Keys
  <2> QED
    BY <2>1 DEF Jobs!Next
<1>4. CASE CallExternal(d, n)
  <2>1. \A k \in TxnKeys : effect'[k] = effect[k]
    BY <1>0, <1>4, JobsAssumption DEF CallExternal, TypeOK, Keys
  <2> QED
    BY <1>0, <1>1, <1>4, <2>1 DEF CallExternal, Jobs!vars
<1>5. CASE MarkWorkflowStepExecutionDone(d, n)
  <2>1. Jobs!Record(d)
    BY <1>0, <1>1, <1>5 DEF MarkWorkflowStepExecutionDone, Jobs!Record
  <2> QED
    BY <2>1 DEF Jobs!Next
<1>6. CASE LogAudit(d, n)
  BY <1>0, <1>1, <1>6 DEF LogAudit, Jobs!vars
<1>7. CASE EmitInvalidate(d, n)
  <2>1. Jobs!Deliver(d)
    BY <1>0, <1>1, <1>7 DEF EmitInvalidate, Jobs!Deliver
  <2> QED
    BY <2>1 DEF Jobs!Next
<1> QED
  BY <1>2, <1>3, <1>4, <1>5, <1>6, <1>7 DEF DispatchStep

LEMMA StepMaps == OutboxInv /\ [Next]_vars => [Jobs!Next]_(Jobs!vars)
<1> SUFFICES ASSUME OutboxInv, [Next]_vars PROVE [Jobs!Next]_(Jobs!vars)
  OBVIOUS
<1>0. TypeOK
  BY DEF OutboxInv
<1>1. ASSUME NEW d \in Docs, NEW j \in Keys \cup PostWrites, InsertOutboxEvent(d, j)
      PROVE  Jobs!Next
  <2>1. PhaseOf(d) = "absent"
    BY <1>1 DEF InsertOutboxEvent, PhaseOf, Unfinished
  <2>2. \A e \in Docs : PhaseOf(e)' = IF e = d THEN "queued" ELSE PhaseOf(e)
    BY <1>0, <1>1 DEF InsertOutboxEvent, PhaseOf, Unfinished, TypeOK
  <2>3. \A e \in Docs : j \in Jobs!Keys /\ job[e] = j => PhaseOf(e) \in {"absent", "expired"}
    BY <1>1 DEF InsertOutboxEvent, Stored, PhaseOf, Unfinished, Keys, Jobs!Keys
  <2>4. Jobs!Submit(d, j)
    BY <1>1, <2>1, <2>2, <2>3 DEF InsertOutboxEvent, Jobs!Submit, dataVars
  <2> QED
    BY <2>4 DEF Jobs!Next, Keys, Jobs!Keys
<1>2. ASSUME NEW d \in Docs, LeaseLapse(d)
      PROVE  UNCHANGED Jobs!vars
  BY <1>2, StutterMaps DEF LeaseLapse, PhaseOf, Unfinished
<1>3. ASSUME NEW d \in Docs, ExpireTTL(d)
      PROVE  Jobs!Next
  <2>1. PhaseOf(d) \in {"done", "failed"}
    BY <1>3 DEF ExpireTTL, PhaseOf, Unfinished
  <2>2. \A e \in Docs : PhaseOf(e)' = IF e = d THEN "expired" ELSE PhaseOf(e)
    BY <1>0, <1>3 DEF ExpireTTL, PhaseOf, Unfinished, TypeOK
  <2>3. Jobs!Forget(d)
    BY <1>3, <2>1, <2>2 DEF ExpireTTL, Jobs!Forget, dataVars
  <2> QED
    BY <2>3 DEF Jobs!Next
<1>4. CASE UNCHANGED vars
  BY <1>4, StutterMaps DEF vars, docVars, PhaseOf, Unfinished
<1> QED
  BY <1>1, <1>2, <1>3, <1>4, ProcessorMaps, DispatchMaps DEF Next

(* The outbox implements the durable job queue: every step of a processor, *)
(* a dispatch, the clock or the TTL index is a step of the queue or is not *)
(* visible to producers.                                                   *)
THEOREM OutboxImplementsJobs == Spec => ImplementsJobs
<1>1. Init => Jobs!Init
  BY InitMaps
<1>2. OutboxInv /\ [Next]_vars => [Jobs!Next]_(Jobs!vars)
  BY StepMaps
<1> QED
  BY <1>1, <1>2, OutboxInvariant, PTL DEF Spec, Jobs!Spec, ImplementsJobs


=============================================================================
