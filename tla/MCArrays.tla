------------------------------- MODULE MCArrays -------------------------------
(* A row is added, one is renamed to the name the first wants, one deleted,  *)
(* two put in another order, and the whole record updated.                   *)
EXTENDS RecordArrays

Asks(op, id, to, order) == [op |-> op, id |-> id, to |-> to, order |-> order]
Changes == [ad |-> Asks("add", 3, 3, <<>>), up |-> Asks("update", 1, 3, <<>>), de |-> Asks("delete", 2, 2, <<>>),
            re |-> Asks("reorder", 1, 1, <<2, 1>>), wh |-> Asks("whole", 1, 1, <<>>)]

RowsOf(ids) == [i \in DOMAIN ids |-> [id |-> ids[i], by |-> NoMutation, place |-> 0]]
Starts == {RowsOf(<<1, 2>>), RowsOf(<<1, 1>>)}
=============================================================================
