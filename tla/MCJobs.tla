------------------------------- MODULE MCJobs --------------------------------
(* The two kinds of durable jobs, checked side by side: the events of the    *)
(* outbox and the roots of a cron workflow. part says which of the two a     *)
(* behaviour is about, the other rests in its initial state.                 *)
EXTENDS MCOutbox, CronRoots

VARIABLE part

JobsInit == /\ Init /\ RootsInit
            /\ part \in {"outbox", "roots"}
            /\ part # "roots" => active

JobsNext == /\ UNCHANGED part
            /\ \/ part = "outbox" /\ Next /\ UNCHANGED rootsVars
               \/ part = "roots" /\ RootsNext /\ UNCHANGED vars

JobsSpec == JobsInit /\ [][JobsNext]_<<vars, rootsVars, part>>

JobsSym == Sym \cup Permutations(Roots)
=============================================================================
