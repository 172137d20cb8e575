----------------------------- MODULE MCReferences -----------------------------
(* Orders with lines, and lines with notes: a line may be deleted with its   *)
(* order, a note may not be deleted with its line.                           *)
EXTENDS RecordReferences, TLC

Container == [o1 |-> "order", l1 |-> "line", l2 |-> "line", l3 |-> "line", l4 |-> "line", n1 |-> "note"]
Reference == [o1 |-> "none", l1 |-> "o1", l2 |-> "o1", l3 |-> "none", l4 |-> "o1", n1 |-> "l1"]

Q(op, items) == [op |-> op, items |-> items]
Requested == [c1 |-> Q("createMany", <<"l2", "l3">>), c2 |-> Q("create", <<"l4">>),
              d1 |-> Q("delete", <<"o1">>), d2 |-> Q("deleteMany", <<"l2", "l1">>)]
=============================================================================
