------------------------------- MODULE Outbox -------------------------------
(***************************************************************************)
(* The dynamic outbox: documents of the Mongo collection dynamic_outbox,   *)
(* the processors (one goroutine per replica) that claim them in batches,  *)
(* the dispatch goroutines the processors start, and the collection        *)
(* dynamic_workflow_step_executions that records the steps that have run.  *)
(*                                                                         *)
(* Time is abstracted: due[d] says that nextAttemptAt of d has passed, and *)
(* LeaseLapse lets it pass at any moment, so a lease may end under a       *)
(* worker that is paused, and a retry delay may be of any length.          *)
(***************************************************************************)
EXTENDS Naturals, FiniteSets

CONSTANTS Docs,         \* outbox documents, in the order of createdAt
          Workers,      \* outbox processors, over all replicas
          TxnKeys,      \* idempotency keys of steps replayed in a transaction
          ExternalKeys, \* idempotency keys of steps with an external effect
          PostWrites,   \* jobs without a key: the audit log and the invalidation
          NoJob,        \* the job of a document that was never inserted
          NoRun,        \* a processor that serves no event
          MaxAttempts,  \* maxAttempts of every event
          BatchLimit    \* events claimed in one batch

ASSUME DocsAssumption == Docs \subseteq Nat

ASSUME BoundsAssumption == /\ MaxAttempts \in Nat \ {0}
                           /\ BatchLimit \in Nat \ {0}

ASSUME JobsAssumption == /\ TxnKeys \cap ExternalKeys = {}
                         /\ PostWrites \cap (TxnKeys \cup ExternalKeys) = {}
                         /\ NoJob \notin TxnKeys \cup ExternalKeys \cup PostWrites

ASSUME NoRunAssumption == NoRun \notin Docs \X (1..MaxAttempts)

VARIABLES status,    \* status of a document; "absent" before, "expired" after
          due,       \* nextAttemptAt <= now
          attempts,  \* claims made of the document
          job,       \* what the event asks for
          run,       \* run[d][n]: where the dispatch of attempt n of d stands
          serving,   \* the event and attempt a processor waits for
          left,      \* claims left in a processor's batch, 0 between batches
          marker,    \* keys recorded in dynamic_workflow_step_executions
          effect,    \* times the effect of a key was committed or called
          audited,   \* documents whose audit log is written
          emitted    \* documents whose invalidation is broadcast

docVars == <<status, due, attempts, job>>
workVars == <<serving, left>>
dataVars == <<marker, effect, audited, emitted>>
vars == <<docVars, run, workVars, dataVars>>

Keys == TxnKeys \cup ExternalKeys
Attempts == 1..MaxAttempts
Runs == Docs \X Attempts

Status == {"absent", "pending", "processing", "done", "failed", "expired"}

(* "check" precedes the optimistic marker read, "recheck" the one inside    *)
(* executeStep; "execute" is between that read and the effect, "called"    *)
(* between an external call and its marker, "audited" between the audit    *)
(* log and the broadcast.  "over" is a dispatch nobody waits for any more. *)
Pc == {"none", "check", "recheck", "execute", "called", "audited",
       "ok", "err", "over"}

Init == /\ status = [d \in Docs |-> "absent"]
        /\ due = [d \in Docs |-> FALSE]
        /\ attempts = [d \in Docs |-> 0]
        /\ job = [d \in Docs |-> NoJob]
        /\ run = [d \in Docs |-> [n \in Attempts |-> "none"]]
        /\ serving = [w \in Workers |-> NoRun]
        /\ left = [w \in Workers |-> 0]
        /\ marker = {}
        /\ effect = [k \in Keys |-> 0]
        /\ audited = {}
        /\ emitted = {}

-----------------------------------------------------------------------------
(* The collection dynamic_outbox.                                          *)

Stored(d) == status[d] \notin {"absent", "expired"}

Unfinished(d) == status[d] \in {"pending", "processing"}

(* The unique sparse index on payload.idempotencyKey: an insert with the   *)
(* key of a stored document is absorbed by the upsert and adds nothing.    *)
InsertOutboxEvent(d, j) ==
    /\ status[d] = "absent"
    /\ j \in Keys => \A e \in Docs : job[e] = j => ~Stored(e)
    /\ status' = [status EXCEPT ![d] = "pending"]
    /\ due' = [due EXCEPT ![d] = TRUE]
    /\ job' = [job EXCEPT ![d] = j]
    /\ UNCHANGED <<attempts, run, workVars, dataVars>>

(* Fault: claims are not limited by maxAttempts.                           *)
FaultUnlimitedClaims(d) == Unfinished(d) /\ due[d]

Claimable(d) == Unfinished(d) /\ due[d] /\ attempts[d] < MaxAttempts

Exhausted(d) == Unfinished(d) /\ due[d] /\ attempts[d] >= MaxAttempts

(* Fault: an update by _id alone.                                          *)
FaultById(d, n) == TRUE

(* outboxClaimFilter: the claim of attempt n still stands.                 *)
OwnsClaim(d, n) == status[d] = "processing" /\ attempts[d] = n

(* Time reaches nextAttemptAt: a lease or a retry delay ends.              *)
LeaseLapse(d) ==
    /\ Unfinished(d) /\ ~due[d]
    /\ due' = [due EXCEPT ![d] = TRUE]
    /\ UNCHANGED <<status, attempts, job, run, workVars, dataVars>>

(* The TTL index removes a finished document once expireAt has passed.     *)
ExpireTTL(d) ==
    /\ status[d] \in {"done", "failed"}
    /\ status' = [status EXCEPT ![d] = "expired"]
    /\ UNCHANGED <<due, attempts, job, run, workVars, dataVars>>

-----------------------------------------------------------------------------
(* A processor: processDynamicOutboxBatchWithDispatch.                     *)

(* Fault: a batch starts without recovering exhausted claims.              *)
FaultNoRecovery(w) ==
    /\ serving[w] = NoRun /\ left[w] = 0
    /\ left' = [left EXCEPT ![w] = BatchLimit]
    /\ UNCHANGED <<docVars, run, serving, dataVars>>

(* A tick starts a batch with RecoverExhaustedOutboxEvents, one UpdateMany *)
(* over independent documents.                                             *)
StartBatch(w) ==
    /\ serving[w] = NoRun /\ left[w] = 0
    /\ status' = [d \in Docs |-> IF Exhausted(d) THEN "failed" ELSE status[d]]
    /\ left' = [left EXCEPT ![w] = BatchLimit]
    /\ UNCHANGED <<due, attempts, job, run, serving, dataVars>>

(* The oldest claimable document is leased and its attempt counted; the    *)
(* processor then waits for the dispatch of that attempt.                  *)
ClaimPendingOutboxEvent(w) ==
    /\ serving[w] = NoRun /\ left[w] > 0
    /\ \E d \in Docs :
         /\ Claimable(d)
         /\ \A e \in Docs : Claimable(e) => d <= e
         /\ status' = [status EXCEPT ![d] = "processing"]
         /\ due' = [due EXCEPT ![d] = FALSE]
         /\ attempts' = [attempts EXCEPT ![d] = @ + 1]
         /\ run' = [run EXCEPT ![d][attempts[d] + 1] = "check"]
         /\ serving' = [serving EXCEPT ![w] = <<d, attempts[d] + 1>>]
    /\ left' = [left EXCEPT ![w] = @ - 1]
    /\ UNCHANGED <<job, dataVars>>

(* No document to claim, or an error of the claim, ends the batch.         *)
EndBatch(w) ==
    /\ serving[w] = NoRun /\ left[w] > 0
    /\ left' = [left EXCEPT ![w] = 0]
    /\ UNCHANGED <<docVars, run, serving, dataVars>>

RenewOutboxEventLease(w) ==
    \E d \in Docs, n \in Attempts :
      /\ serving[w] = <<d, n>>
      /\ OwnsClaim(d, n)
      /\ due' = [due EXCEPT ![d] = FALSE]
      /\ UNCHANGED <<status, attempts, job, run, workVars, dataVars>>

(* A renewal that fails or finds the claim gone: the processor cancels the *)
(* dispatch without waiting for it and goes on with the batch.             *)
LoseLease(w) ==
    /\ serving[w] # NoRun
    /\ serving' = [serving EXCEPT ![w] = NoRun]
    /\ UNCHANGED <<docVars, run, left, dataVars>>

(* The process stops, or restarts, at any point of the batch.              *)
Crash(w) ==
    /\ serving[w] # NoRun \/ left[w] > 0
    /\ serving' = [serving EXCEPT ![w] = NoRun]
    /\ left' = [left EXCEPT ![w] = 0]
    /\ UNCHANGED <<docVars, run, dataVars>>

(* The dispatch returned nil.  An acknowledgement that finds another claim *)
(* changes nothing; the loop continues either way.                         *)
MarkClaimedOutboxEventDone(w) ==
    \E d \in Docs, n \in Attempts :
      /\ serving[w] = <<d, n>> /\ run[d][n] = "ok"
      /\ run' = [run EXCEPT ![d][n] = "over"]
      /\ serving' = [serving EXCEPT ![w] = NoRun]
      /\ status' = IF OwnsClaim(d, n)
                     THEN [status EXCEPT ![d] = "done"] ELSE status
      /\ UNCHANGED <<due, attempts, job, left, dataVars>>

(* The dispatch returned an error: a delayed retry, or failure for good.   *)
MarkClaimedOutboxEventFailed(w) ==
    \E d \in Docs, n \in Attempts :
      /\ serving[w] = <<d, n>> /\ run[d][n] = "err"
      /\ run' = [run EXCEPT ![d][n] = "over"]
      /\ serving' = [serving EXCEPT ![w] = NoRun]
      /\ IF OwnsClaim(d, n)
           THEN /\ status' = [status EXCEPT ![d] =
                                IF n >= MaxAttempts THEN "failed" ELSE "pending"]
                /\ due' = [due EXCEPT ![d] = FALSE]
           ELSE UNCHANGED <<status, due>>
      /\ UNCHANGED <<attempts, job, left, dataVars>>

(* The acknowledgement itself fails: logged, and the loop continues.       *)
MarkError(w) ==
    \E d \in Docs, n \in Attempts :
      /\ serving[w] = <<d, n>> /\ run[d][n] \in {"ok", "err"}
      /\ run' = [run EXCEPT ![d][n] = "over"]
      /\ serving' = [serving EXCEPT ![w] = NoRun]
      /\ UNCHANGED <<docVars, left, dataVars>>

-----------------------------------------------------------------------------
(* The dispatch of attempt n of document d, a goroutine of its own.        *)

Awaited(d, n) == \E w \in Workers : serving[w] = <<d, n>>

(* A dispatch nobody awaits has a cancelled context: the operation that is *)
(* in flight may still take effect, the next one is not started.           *)
Goto(d, n, pc) ==
    run' = [run EXCEPT ![d][n] = IF Awaited(d, n) THEN pc ELSE "over"]

Dispatching(d, n) == run[d][n] \in {"check", "recheck", "execute", "called", "audited"}

(* WorkflowStepExecutionDone before anything else is prepared.             *)
OptimisticCheck(d, n) ==
    /\ job[d] \in Keys /\ run[d][n] = "check"
    /\ Goto(d, n, IF job[d] \in marker THEN "ok" ELSE "recheck")
    /\ UNCHANGED <<docVars, workVars, dataVars>>

(* WorkflowStepExecutionDone in executeStep: for a transactional step the  *)
(* read also fixes the snapshot of its transaction.                        *)
Recheck(d, n) ==
    /\ job[d] \in Keys /\ run[d][n] = "recheck"
    /\ Goto(d, n, IF job[d] \in marker THEN "ok" ELSE "execute")
    /\ UNCHANGED <<docVars, workVars, dataVars>>

(* Fault: the step's writes do not share a transaction with its marker.    *)
FaultNoTransaction(d, n) ==
    /\ job[d] \in TxnKeys /\ run[d][n] = "execute"
    /\ effect' = [effect EXCEPT ![job[d]] = @ + 1]
    /\ marker' = marker \cup {job[d]}
    /\ \E pc \in {"ok", "err"} : Goto(d, n, pc)
    /\ UNCHANGED <<docVars, workVars, audited, emitted>>

(* The step's writes and MarkWorkflowStepExecutionDone commit together.    *)
(* Mongo aborts the commit when the marker was written after the snapshot. *)
(* An operation that takes effect may still be reported as an error.       *)
CommitStep(d, n) ==
    /\ job[d] \in TxnKeys /\ run[d][n] = "execute"
    /\ job[d] \notin marker
    /\ effect' = [effect EXCEPT ![job[d]] = @ + 1]
    /\ marker' = marker \cup {job[d]}
    /\ \E pc \in {"ok", "err"} : Goto(d, n, pc)
    /\ UNCHANGED <<docVars, workVars, audited, emitted>>

(* WithTransaction runs the callback again, from a new snapshot.           *)
RetryConflict(d, n) ==
    /\ job[d] \in TxnKeys /\ run[d][n] = "execute"
    /\ job[d] \in marker
    /\ Goto(d, n, "recheck")
    /\ UNCHANGED <<docVars, workVars, dataVars>>

CallExternal(d, n) ==
    /\ job[d] \in ExternalKeys /\ run[d][n] = "execute"
    /\ effect' = [effect EXCEPT ![job[d]] = @ + 1]
    /\ \E pc \in {"called", "err"} : Goto(d, n, pc)
    /\ UNCHANGED <<docVars, workVars, marker, audited, emitted>>

MarkWorkflowStepExecutionDone(d, n) ==
    /\ job[d] \in ExternalKeys /\ run[d][n] = "called"
    /\ marker' = marker \cup {job[d]}
    /\ \E pc \in {"ok", "err"} : Goto(d, n, pc)
    /\ UNCHANGED <<docVars, workVars, effect, audited, emitted>>

(* Fault: the dispatch ends after the audit log.                           *)
FaultAuditOnly(d, n) ==
    /\ job[d] \in PostWrites /\ run[d][n] = "check"
    /\ audited' = audited \cup {d}
    /\ Goto(d, n, "ok")
    /\ UNCHANGED <<docVars, workVars, marker, effect, emitted>>

(* The upsert by eventId writes one audit log however often it is run.     *)
(* The broadcast that follows does not look at the context.                *)
LogAudit(d, n) ==
    /\ job[d] \in PostWrites /\ run[d][n] = "check"
    /\ audited' = audited \cup {d}
    /\ \/ run' = [run EXCEPT ![d][n] = "audited"]
       \/ Goto(d, n, "err")
    /\ UNCHANGED <<docVars, workVars, marker, effect, emitted>>

EmitInvalidate(d, n) ==
    /\ job[d] \in PostWrites /\ run[d][n] = "audited"
    /\ emitted' = emitted \cup {d}
    /\ Goto(d, n, "ok")
    /\ UNCHANGED <<docVars, workVars, marker, effect, audited>>

(* An operation fails without effect.  The broadcast reports no error.     *)
DispatchError(d, n) ==
    /\ Dispatching(d, n) /\ run[d][n] # "audited"
    /\ Goto(d, n, "err")
    /\ UNCHANGED <<docVars, workVars, dataVars>>

(* A dispatch nobody awaits notices its cancellation, or its process died. *)
DispatchStops(d, n) ==
    /\ Dispatching(d, n) /\ ~Awaited(d, n)
    /\ run' = [run EXCEPT ![d][n] = "over"]
    /\ UNCHANGED <<docVars, workVars, dataVars>>

DispatchStep(d, n) ==
    \/ OptimisticCheck(d, n)
    \/ Recheck(d, n)
    \/ CommitStep(d, n)
    \/ RetryConflict(d, n)
    \/ CallExternal(d, n)
    \/ MarkWorkflowStepExecutionDone(d, n)
    \/ LogAudit(d, n)
    \/ EmitInvalidate(d, n)
    \/ DispatchError(d, n)
    \/ DispatchStops(d, n)

-----------------------------------------------------------------------------

ProcessorStep(w) ==
    \/ StartBatch(w)
    \/ ClaimPendingOutboxEvent(w)
    \/ EndBatch(w)
    \/ RenewOutboxEventLease(w)
    \/ LoseLease(w)
    \/ Crash(w)
    \/ MarkClaimedOutboxEventDone(w)
    \/ MarkClaimedOutboxEventFailed(w)
    \/ MarkError(w)

Next == \/ \E d \in Docs, j \in Keys \cup PostWrites : InsertOutboxEvent(d, j)
        \/ \E d \in Docs : LeaseLapse(d) \/ ExpireTTL(d)
        \/ \E w \in Workers : ProcessorStep(w)
        \/ \E d \in Docs, n \in Attempts : DispatchStep(d, n)

Spec == Init /\ [][Next]_vars

(* Every dispatch returns, an answer is acknowledged or given up, time     *)
(* passes, ticks come, and a claim that stays possible is made in the end. *)
Fairness ==
    /\ \A d \in Docs : WF_vars(LeaseLapse(d))
    /\ \A w \in Workers : /\ SF_vars(ClaimPendingOutboxEvent(w))
                          /\ WF_vars(StartBatch(w))
                          /\ WF_vars(\/ MarkClaimedOutboxEventDone(w)
                                     \/ MarkClaimedOutboxEventFailed(w))
                          /\ WF_vars(EndBatch(w))
    /\ \A d \in Docs, n \in Attempts : WF_vars(DispatchStep(d, n))

FairSpec == Spec /\ Fairness

-----------------------------------------------------------------------------
(* Properties.                                                             *)

TypeOK ==
    /\ status \in [Docs -> Status]
    /\ due \in [Docs -> BOOLEAN]
    /\ attempts \in [Docs -> 0..MaxAttempts]
    /\ job \in [Docs -> Keys \cup PostWrites \cup {NoJob}]
    /\ run \in [Docs -> [Attempts -> Pc]]
    /\ serving \in [Workers -> Runs \cup {NoRun}]
    /\ left \in [Workers -> 0..BatchLimit]
    /\ marker \in SUBSET Keys
    /\ effect \in [Keys -> Nat]
    /\ audited \in SUBSET Docs
    /\ emitted \in SUBSET Docs

(* The effect of a transactional step is committed once if its marker is   *)
(* recorded and never otherwise, over every retry, every concurrent or     *)
(* abandoned attempt, and every later event with the same key.             *)
ExactlyOnce == \A k \in TxnKeys : effect[k] = IF k \in marker THEN 1 ELSE 0

Performed(d) == IF job[d] \in Keys
                  THEN job[d] \in marker /\ effect[job[d]] > 0
                  ELSE d \in audited /\ d \in emitted

(* An event reported done has had its effect: its step ran and is recorded,*)
(* or its audit log is written and its invalidation was broadcast.         *)
DoneIsPerformed == \A d \in Docs : status[d] = "done" => Performed(d)

(* An event that waits for a retry has no attempt a processor still works  *)
(* for under the current claim: only that attempt's own failure, never the *)
(* failure of an earlier one, hands the event back.                        *)
RetryHasNoOwner ==
    \A d \in Docs, n \in Attempts :
       status[d] = "pending" /\ attempts[d] = n => run[d][n] = "over"

(* What a finished event said stays said: a late worker turns no done or   *)
(* failed event into anything but an expired one.                          *)
FinishedIsFinal ==
    [][\A d \in Docs : status[d] \in {"done", "failed"} =>
          status'[d] \in {status[d], "expired"}]_vars

(* A provider is called at most once for every claim of an event with the  *)
(* key, so maxAttempts bounds how often a call is repeated.                *)
CallsBoundedByClaims ==
    \A k \in ExternalKeys :
       effect[k] <= Cardinality({r \in Runs : /\ job[r[1]] = k
                                             /\ r[2] <= attempts[r[1]]})

(* Every event that is stored is done, failed or expired in the end, even  *)
(* when workers crash at will: no event stays pending or leased for ever.  *)
EventuallyFinished ==
    \A d \in Docs : Unfinished(d) ~> ~Unfinished(d)

=============================================================================
