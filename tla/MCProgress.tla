------------------------------ MODULE MCProgress ------------------------------
(* What must come to an end in the background, checked side by side: the     *)
(* events of the outbox and the translations. part says which of the two a   *)
(* behaviour is about, the other rests in an initial state.                  *)
EXTENDS MCOutbox, Localization

VARIABLE part

ProgressInit ==
  /\ Init /\ TextsInit
  /\ part \in {"outbox", "texts"}
  /\ part = "outbox" => source = [r \in Rows |-> NoHash]

ProgressNext ==
  /\ UNCHANGED part
  /\ \/ part = "outbox" /\ Next /\ UNCHANGED textVars
     \/ part = "texts" /\ TextsNext /\ UNCHANGED vars

ProgressSpec ==
  /\ ProgressInit /\ [][ProgressNext]_<<vars, textVars, part>>
  /\ (part = "outbox" /\ Fairness) \/ (part = "texts" /\ TextsFairness)
=============================================================================
