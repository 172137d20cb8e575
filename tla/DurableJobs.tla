---------------------------- MODULE DurableJobs ----------------------------
(***************************************************************************)
(* What the outbox promises its producers, without claims, leases, workers *)
(* or retries: a submitted job is finished once, as done or as failed; it  *)
(* is done only after its effect took place; and the effect of a keyed     *)
(* transactional step takes place once for all the submissions of the key. *)
(***************************************************************************)
EXTENDS Naturals

CONSTANTS Docs, TxnKeys, ExternalKeys, PostWrites, NoJob

VARIABLES phase,     \* how far a submission has come
          job,       \* the job submitted
          completed, \* keys whose work is complete
          performed, \* how often the work of a transactional key was done
          delivered  \* submissions without a key whose work is complete

vars == <<phase, job, completed, performed, delivered>>

Keys == TxnKeys \cup ExternalKeys

Init == /\ phase = [d \in Docs |-> "absent"]
        /\ job = [d \in Docs |-> NoJob]
        /\ completed = {}
        /\ performed = [k \in TxnKeys |-> 0]
        /\ delivered = {}

(* At most one submission of a key is known at a time.                     *)
Submit(d, j) ==
    /\ phase[d] = "absent"
    /\ \A e \in Docs : j \in Keys /\ job[e] = j => phase[e] \in {"absent", "expired"}
    /\ phase' = [phase EXCEPT ![d] = "queued"]
    /\ job' = [job EXCEPT ![d] = j]
    /\ UNCHANGED <<completed, performed, delivered>>

(* The work and the record that it is complete are one step, and the only  *)
(* one for its key.                                                        *)
Perform(d) ==
    /\ job[d] \in TxnKeys /\ job[d] \notin completed
    /\ completed' = completed \cup {job[d]}
    /\ performed' = [performed EXCEPT ![job[d]] = @ + 1]
    /\ UNCHANGED <<phase, job, delivered>>

(* Work outside the database is only recorded here, once it took place.    *)
Record(d) ==
    /\ job[d] \in ExternalKeys
    /\ completed' = completed \cup {job[d]}
    /\ UNCHANGED <<phase, job, performed, delivered>>

Deliver(d) ==
    /\ job[d] \in PostWrites
    /\ delivered' = delivered \cup {d}
    /\ UNCHANGED <<phase, job, completed, performed>>

Complete(d) == IF job[d] \in Keys THEN job[d] \in completed ELSE d \in delivered

Finish(d) ==
    /\ phase[d] = "queued" /\ Complete(d)
    /\ phase' = [phase EXCEPT ![d] = "done"]
    /\ UNCHANGED <<job, completed, performed, delivered>>

(* A batch may give up several submissions at once.                        *)
GiveUp(D) ==
    /\ \A d \in D : phase[d] = "queued"
    /\ phase' = [d \in Docs |-> IF d \in D THEN "failed" ELSE phase[d]]
    /\ UNCHANGED <<job, completed, performed, delivered>>

Forget(d) ==
    /\ phase[d] \in {"done", "failed"}
    /\ phase' = [phase EXCEPT ![d] = "expired"]
    /\ UNCHANGED <<job, completed, performed, delivered>>

Next == \/ \E d \in Docs, j \in Keys \cup PostWrites : Submit(d, j)
        \/ \E d \in Docs : \/ Perform(d) \/ Record(d) \/ Deliver(d)
                         \/ Finish(d) \/ Forget(d)
        \/ \E D \in SUBSET Docs : GiveUp(D)

Spec == Init /\ [][Next]_vars

=============================================================================
