------------------------------ MODULE MCTraffic ------------------------------
(* What a request meets, checked side by side: its authentication, the       *)
(* limits and the idempotency of writes, the cached reads, the events it     *)
(* sends and the accounts it registers. part says which of them a behaviour  *)
(* is about, the others rest in an initial state.                            *)
EXTENDS MCReads, MCAuth, MCRequests, WsHub, MCSignups

\* The hub: two servers, one client, three events of two projects, or two and
\* a broken subscription; queues of one: a client and a server at their limit.
Near == <<CHOOSE s \in Servers : TRUE, CHOOSE p \in Projects : TRUE>>
AtNear == [c \in Clients |-> Near]
\* Not another server and another project at once.
OneApart == {<<s, p>> \in Servers \X Projects : s = Near[1] \/ p = Near[2]}

VARIABLE part

TrafficInit ==
  /\ ReadsInit /\ AuthInit /\ RequestsInit /\ HubInit /\ SignupsInit
  /\ part \in {"reads", "auth", "requests", "hub", "signups"}
  /\ container = Plain

TrafficNext ==
  /\ UNCHANGED part
  /\ \/ part = "reads" /\ ReadsNext /\ UNCHANGED <<authVars, requestVars, hubVars, signupVars>>
     \/ part = "auth" /\ AuthNext /\ UNCHANGED <<readVars, requestVars, hubVars, signupVars>>
     \/ part = "requests" /\ RequestsNext /\ UNCHANGED <<readVars, authVars, hubVars, signupVars>>
     \/ part = "hub" /\ HubNext /\ UNCHANGED <<readVars, authVars, requestVars, signupVars>>
     \/ part = "signups" /\ SignupsNext /\ UNCHANGED <<readVars, authVars, requestVars, hubVars>>

\* Readers and Senders are one set of values, so that one permutation swaps both.
TrafficSym == Permutations(Readers)

TrafficSpec == TrafficInit /\ [][TrafficNext]_<<readVars, authVars, requestVars, hubVars, signupVars, part>>
=============================================================================
