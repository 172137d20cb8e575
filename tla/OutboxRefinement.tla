-------------------------- MODULE OutboxRefinement --------------------------
(* The outbox implements DurableJobs: pending and processing are one phase,*)
(* and attempts, leases, processors and dispatches are hidden.             *)
EXTENDS Outbox

PhaseOf(d) == IF Unfinished(d) THEN "queued" ELSE status[d]

Jobs == INSTANCE DurableJobs WITH
          phase <- [d \in Docs |-> PhaseOf(d)],
          completed <- marker,
          performed <- [k \in TxnKeys |-> effect[k]],
          delivered <- emitted

(* Every behaviour of the outbox is one of the durable job queue: late     *)
(* workers, crashes, lost leases and expiry are invisible to producers.    *)
ImplementsJobs == Jobs!Spec

=============================================================================
