------------------------------ MODULE CronRoots ------------------------------
(***************************************************************************)
(* The execution of the root events of one cron workflow: the outbox       *)
(* processors claim them and run each inside one Mongo transaction, which  *)
(* holds the workflow's changes, its child jobs and the execution marker.  *)
(*                                                                         *)
(* A write of a transaction locks its document until the transaction ends, *)
(* and fails when another wrote the document since the snapshot: rootStale *)
(* names the documents of a transaction to which that has happened.        *)
(***************************************************************************)
EXTENDS Naturals, Sequences, FiniteSets

CONSTANTS
  Roots,           \* root events of the workflow
  RootWorkers,     \* outbox processors, over all replicas
  MaxRootAttempts, \* maxAttempts of every event
  NoRoot           \* a processor that serves no event

ASSUME RootsAssumption == NoRoot \notin Roots \cup (Roots \X (1..MaxRootAttempts))

ASSUME RootBoundsAssumption == MaxRootAttempts \in Nat \ {0}

VARIABLES
  rootStatus,   \* status of a root event, "absent" before it is queued
  rootDue,      \* nextAttemptAt <= now
  rootAttempts, \* claims made of the event
  active,       \* the live container holds the workflow, active, as cron
  rootMarker,   \* keys recorded in dynamic_workflow_step_executions
  journal,      \* committed root transactions in their order
  rootServing,  \* the event and attempt a processor works on
  rootPc,       \* where its dispatch stands
  seen,         \* length of the journal in its transaction's snapshot
  enabled,      \* active in its transaction's snapshot
  rootStale     \* documents written since its transaction's snapshot

rootDocVars == <<rootStatus, rootDue, rootAttempts>>
rootDataVars == <<rootMarker, journal>>
txnVars == <<seen, enabled>>
rootsVars == <<rootDocVars, active, rootDataVars, rootServing, rootPc, txnVars, rootStale>>

RootRuns == Roots \X (1..MaxRootAttempts)
RootStatus == {"absent", "pending", "processing", "done", "failed"}

(* "running" holds the scope fence, "fenced" the claim fence as well.      *)
RootPc == {"idle", "claimed", "leased", "begun", "running", "fenced", "ok", "err"}

RootsInit ==
        /\ rootStatus = [e \in Roots |-> "absent"]
        /\ rootDue = [e \in Roots |-> FALSE]
        /\ rootAttempts = [e \in Roots |-> 0]
        /\ active \in BOOLEAN
        /\ rootMarker = {}
        /\ journal = <<>>
        /\ rootServing = [w \in RootWorkers |-> NoRoot]
        /\ rootPc = [w \in RootWorkers |-> "idle"]
        /\ seen = [w \in RootWorkers |-> 0]
        /\ enabled = [w \in RootWorkers |-> FALSE]
        /\ rootStale = [w \in RootWorkers |-> {}]

-----------------------------------------------------------------------------
(* The container and the collection dynamic_outbox.                        *)

QueueRoot(e) ==
    /\ rootStatus[e] = "absent"
    /\ rootStatus' = [rootStatus EXCEPT ![e] = "pending"]
    /\ rootDue' = [rootDue EXCEPT ![e] = TRUE]
    /\ UNCHANGED <<rootAttempts, active, rootDataVars, rootServing, rootPc, txnVars, rootStale>>

(* A management edit switches the workflow on or off.                      *)
EditWorkflow ==
    /\ active' = ~active
    /\ UNCHANGED <<rootDocVars, rootDataVars, rootServing, rootPc, txnVars, rootStale>>

UnfinishedRoot(e) == rootStatus[e] \in {"pending", "processing"}

(* Time reaches nextAttemptAt, also under a processor that is paused.      *)
RootLeaseLapse(e) ==
    /\ UnfinishedRoot(e) /\ ~rootDue[e]
    /\ rootDue' = [rootDue EXCEPT ![e] = TRUE]
    /\ UNCHANGED <<rootStatus, rootAttempts, active, rootDataVars, rootServing, rootPc, txnVars, rootStale>>

(* Fault: acknowledgements match the event by its _id alone.               *)
FaultRootById(e, n) == TRUE

OwnsRoot(e, n) == rootStatus[e] = "processing" /\ rootAttempts[e] = n

(* The claim fence of an open transaction keeps other writers waiting.     *)
ClaimLocked(e) == \E w \in RootWorkers : rootPc[w] = "fenced" /\ rootServing[w][1] = e

RootInTransaction(w) == rootPc[w] \in {"begun", "running"}

(* The open transactions over one of the events in E miss a write of it.   *)
RootWritten(E) == [w \in RootWorkers |-> IF RootInTransaction(w) /\ rootServing[w][1] \in E
                                   THEN rootStale[w] \cup {"claim"} ELSE rootStale[w]]

RecoverExhaustedRoots ==
    LET E == {e \in Roots : /\ UnfinishedRoot(e) /\ rootDue[e] /\ ~ClaimLocked(e)
                            /\ rootAttempts[e] >= MaxRootAttempts}
    IN /\ E # {}
       /\ rootStatus' = [e \in Roots |-> IF e \in E THEN "failed" ELSE rootStatus[e]]
       /\ rootStale' = RootWritten(E)
       /\ UNCHANGED <<rootDue, rootAttempts, active, rootDataVars, rootServing, rootPc, txnVars>>

ClaimRoot(w, e) ==
    /\ rootPc[w] = "idle"
    /\ UnfinishedRoot(e) /\ rootDue[e] /\ rootAttempts[e] < MaxRootAttempts /\ ~ClaimLocked(e)
    /\ rootStatus' = [rootStatus EXCEPT ![e] = "processing"]
    /\ rootDue' = [rootDue EXCEPT ![e] = FALSE]
    /\ rootAttempts' = [rootAttempts EXCEPT ![e] = @ + 1]
    /\ rootServing' = [rootServing EXCEPT ![w] = <<e, rootAttempts[e] + 1>>]
    /\ rootPc' = [rootPc EXCEPT ![w] = "claimed"]
    /\ rootStale' = RootWritten({e})
    /\ UNCHANGED <<active, rootDataVars, txnVars>>

-----------------------------------------------------------------------------
(* dispatchDynamicOutboxEventWithLease of a cron root: the lease is        *)
(* reserved once, then the transaction runs in the processor's goroutine.  *)

Idle(w) == /\ rootPc' = [rootPc EXCEPT ![w] = "idle"]
           /\ rootServing' = [rootServing EXCEPT ![w] = NoRoot]

ReserveRootLease(w) ==
    \E e \in Roots, n \in 1..MaxRootAttempts :
      /\ rootPc[w] = "claimed" /\ rootServing[w] = <<e, n>>
      /\ OwnsRoot(e, n) /\ ~ClaimLocked(e)
      /\ rootDue' = [rootDue EXCEPT ![e] = FALSE]
      /\ rootPc' = [rootPc EXCEPT ![w] = "leased"]
      /\ rootStale' = RootWritten({e})
      /\ UNCHANGED <<rootStatus, rootAttempts, active, rootDataVars, rootServing, txnVars>>

(* The renewal fails or finds the claim gone, or the process stops.        *)
AbandonRoot(w) ==
    /\ rootPc[w] # "idle"
    /\ Idle(w)
    /\ rootStale' = [rootStale EXCEPT ![w] = {}]
    /\ UNCHANGED <<rootDocVars, active, rootDataVars, txnVars>>

-----------------------------------------------------------------------------
(* processCronWorkflowOutbox: the root transaction.                        *)

Root(w) == rootServing[w][1]
RootAttempt(w) == rootServing[w][2]

(* The marker is looked up under the snapshot of the transaction.  The     *)
(* container, which is read later, is the one of the snapshot as well.     *)
BeginRoot(w) ==
    /\ rootPc[w] = "leased"
    /\ rootPc' = [rootPc EXCEPT ![w] = IF Root(w) \in rootMarker THEN "ok" ELSE "begun"]
    /\ seen' = [seen EXCEPT ![w] = Len(journal)]
    /\ enabled' = [enabled EXCEPT ![w] = active]
    /\ rootStale' = [rootStale EXCEPT ![w] = {}]
    /\ UNCHANGED <<rootDocVars, active, rootDataVars, rootServing>>

ScopeLocked(w) == \E q \in RootWorkers \ {w} : rootPc[q] \in {"running", "fenced"}

(* Fault: the roots of a workflow are not serialized.                      *)
FaultNoScopeFence(w) ==
    /\ rootPc[w] = "begun"
    /\ rootPc' = [rootPc EXCEPT ![w] = "running"]
    /\ UNCHANGED <<rootDocVars, active, rootDataVars, rootServing, txnVars, rootStale>>

(* The increment of executionFence on the cursor of the workflow.          *)
FenceCronWorkflowScope(w) ==
    /\ rootPc[w] = "begun" /\ ~ScopeLocked(w) /\ "scope" \notin rootStale[w]
    /\ rootPc' = [rootPc EXCEPT ![w] = "running"]
    /\ UNCHANGED <<rootDocVars, active, rootDataVars, rootServing, txnVars, rootStale>>

(* After the workflow has run and its marker is written, the claim must    *)
(* still be the one of this attempt, with its lease unexpired.             *)
FenceCronOutboxClaim(w) ==
    /\ rootPc[w] = "running" /\ "claim" \notin rootStale[w]
    /\ rootPc' = [rootPc EXCEPT ![w] =
                IF OwnsRoot(Root(w), RootAttempt(w)) /\ ~rootDue[Root(w)]
                  THEN "fenced" ELSE "err"]
    /\ UNCHANGED <<rootDocVars, active, rootDataVars, rootServing, txnVars, rootStale>>

(* Fault: the marker is left to the acknowledgement.                       *)
FaultMarkerOutside(w) ==
    /\ rootPc[w] = "fenced"
    /\ journal' = Append(journal, [root |-> Root(w), seen |-> seen[w], ran |-> enabled[w]])
    /\ UNCHANGED rootMarker
    /\ \E result \in {"ok", "err"} : rootPc' = [rootPc EXCEPT ![w] = result]
    /\ rootStale' = [q \in RootWorkers |-> IF rootPc[q] = "begun" THEN rootStale[q] \cup {"scope"}
                                                     ELSE rootStale[q]]
    /\ UNCHANGED <<rootDocVars, active, rootServing, txnVars>>

(* The changes, the child jobs and the marker commit together; a commit    *)
(* may be reported as an error.  A root that was switched off is recorded  *)
(* as complete without having run.                                         *)
CommitRoot(w) ==
    /\ rootPc[w] = "fenced"
    /\ journal' = Append(journal, [root |-> Root(w), seen |-> seen[w], ran |-> enabled[w]])
    /\ rootMarker' = rootMarker \cup {Root(w)}
    /\ \E result \in {"ok", "err"} : rootPc' = [rootPc EXCEPT ![w] = result]
    /\ rootStale' = [q \in RootWorkers |-> IF rootPc[q] = "begun" THEN rootStale[q] \cup {"scope"}
                                                     ELSE rootStale[q]]
    /\ UNCHANGED <<rootDocVars, active, rootServing, txnVars>>

(* A write conflict: WithTransaction runs the callback again.              *)
RetryRoot(w) ==
    /\ \/ rootPc[w] = "begun" /\ (ScopeLocked(w) \/ "scope" \in rootStale[w])
       \/ rootPc[w] = "running" /\ "claim" \in rootStale[w]
    /\ rootPc' = [rootPc EXCEPT ![w] = "leased"]
    /\ rootStale' = [rootStale EXCEPT ![w] = {}]
    /\ UNCHANGED <<rootDocVars, active, rootDataVars, rootServing, txnVars>>

(* The workflow or an operation fails, or the 50 seconds are over.         *)
AbortRoot(w) ==
    /\ rootPc[w] \in {"leased", "begun", "running", "fenced"}
    /\ rootPc' = [rootPc EXCEPT ![w] = "err"]
    /\ rootStale' = [rootStale EXCEPT ![w] = {}]
    /\ UNCHANGED <<rootDocVars, active, rootDataVars, rootServing, txnVars>>

-----------------------------------------------------------------------------
(* The acknowledgement: a verdict of an attempt without its claim changes  *)
(* nothing.                                                                *)

AcknowledgeRoot(w, e, n, verdict) ==
    /\ rootServing[w] = <<e, n>> /\ ~ClaimLocked(e)
    /\ IF OwnsRoot(e, n)
         THEN /\ rootStatus' = [rootStatus EXCEPT ![e] = verdict]
              /\ rootDue' = [rootDue EXCEPT ![e] = FALSE]
              /\ rootStale' = RootWritten({e})
         ELSE UNCHANGED <<rootStatus, rootDue, rootStale>>
    /\ Idle(w)
    /\ UNCHANGED <<rootAttempts, active, rootDataVars, txnVars>>

MarkRootDone(w) ==
    \E e \in Roots, n \in 1..MaxRootAttempts :
      rootPc[w] = "ok" /\ AcknowledgeRoot(w, e, n, "done")

MarkRootFailed(w) ==
    \E e \in Roots, n \in 1..MaxRootAttempts :
      /\ rootPc[w] = "err"
      /\ AcknowledgeRoot(w, e, n, IF n >= MaxRootAttempts THEN "failed" ELSE "pending")

-----------------------------------------------------------------------------

RootStep(w) == \/ ReserveRootLease(w)
               \/ BeginRoot(w)
               \/ FenceCronWorkflowScope(w)
               \/ FenceCronOutboxClaim(w)
               \/ CommitRoot(w)
               \/ RetryRoot(w)
               \/ AbortRoot(w)
               \/ MarkRootDone(w)
               \/ MarkRootFailed(w)

RootsNext ==
        \/ EditWorkflow
        \/ RecoverExhaustedRoots
        \/ \E e \in Roots : QueueRoot(e) \/ RootLeaseLapse(e)
        \/ \E w \in RootWorkers, e \in Roots : ClaimRoot(w, e)
        \/ \E w \in RootWorkers : AbandonRoot(w) \/ RootStep(w)

RootsSpec == RootsInit /\ [][RootsNext]_rootsVars

-----------------------------------------------------------------------------
(* Properties.                                                             *)

RootCommits == [root : Roots, seen : Nat, ran : BOOLEAN]

RootsTypeOK ==
    /\ rootStatus \in [Roots -> RootStatus]
    /\ rootDue \in [Roots -> BOOLEAN]
    /\ rootAttempts \in [Roots -> 0..MaxRootAttempts]
    /\ active \in BOOLEAN
    /\ rootMarker \subseteq Roots
    /\ journal \in Seq(RootCommits)
    /\ rootServing \in [RootWorkers -> RootRuns \cup {NoRoot}]
    /\ rootPc \in [RootWorkers -> RootPc]
    /\ seen \in [RootWorkers -> Nat]
    /\ enabled \in [RootWorkers -> BOOLEAN]
    /\ rootStale \in [RootWorkers -> SUBSET {"scope", "claim"}]

(* A root commits once, however often it is claimed, retried, taken over   *)
(* or reported as failed after its commit.                                 *)
RootsCommitOnce ==
    \A i, j \in 1..Len(journal) : journal[i].root = journal[j].root => i = j

(* The roots of one workflow are serialized: the snapshot of every         *)
(* committed root holds all the roots that committed before it.            *)
RootsAreSerial == \A i \in 1..Len(journal) : journal[i].seen + 1 = i

(* An expired or stolen attempt cannot commit: at the commit of a root the *)
(* event is claimed, and by the attempt that commits.                      *)
CommitsUnderClaim ==
    [][journal' # journal =>
         \E w \in RootWorkers : /\ rootPc[w] = "fenced" /\ rootPc'[w] # "fenced"
                                /\ OwnsRoot(Root(w), RootAttempt(w))
                                /\ journal'[Len(journal')].root = Root(w)]_rootsVars

(* What the scheduler sees of an event, and its commits in the journal.    *)
RootPhase(e) == IF UnfinishedRoot(e) THEN "queued" ELSE rootStatus[e]

CommitsOf(e) == {i \in 1..Len(journal) : journal[i].root = e}

RootJobs == INSTANCE DurableJobs WITH
          Docs <- Roots, TxnKeys <- Roots, ExternalKeys <- {}, PostWrites <- {},
          NoJob <- NoRoot,
          phase <- [e \in Roots |-> RootPhase(e)],
          job <- [e \in Roots |-> IF rootStatus[e] = "absent" THEN NoRoot ELSE e],
          completed <- rootMarker,
          performed <- [e \in Roots |-> Cardinality(CommitsOf(e))],
          delivered <- {}

(* To the scheduler, root events are durable jobs: done only when their    *)
(* transaction has committed, performed once, and final when finished.     *)
RootsAreJobs == RootJobs!Spec

=============================================================================
