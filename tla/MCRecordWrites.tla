--------------------------- MODULE MCRecordWrites ---------------------------
(* Instances of RecordWrites. *)
EXTENDS RecordWrites, TLC

CONSTANTS r1, r2, ann, root, u1, u2, bulk, del

(* Two single updates, a bulk update and a delete, over one record: ann     *)
(* edits it, the admin moves it and edits it in bulk, ann deletes it.       *)
MixOp == (u1 :> "update") @@ (u2 :> "update") @@ (bulk :> "bulkUpdate") @@ (del :> "delete")
MixActor == (u1 :> ann) @@ (u2 :> root) @@ (bulk :> root) @@ (del :> ann)
MixPatch == (u1 :> Edit) @@ (u2 :> root) @@ (bulk :> Edit) @@ (del :> Edit)

(* Two bulk requests and a single update over two records. *)
BulkOp == (bulk :> "bulkUpdate") @@ (del :> "bulkDelete") @@ (u1 :> "update")
BulkActor == (bulk :> ann) @@ (del :> root) @@ (u1 :> root)
BulkPatch == (bulk :> Edit) @@ (del :> Edit) @@ (u1 :> root)
=============================================================================
