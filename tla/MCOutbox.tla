------------------------------ MODULE MCOutbox ------------------------------
(* Instances of Outbox for TLC.                                            *)
EXTENDS OutboxRefinement, TLC

CONSTANTS w1, w2

Sym == Permutations({w1, w2})

=============================================================================
