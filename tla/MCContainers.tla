----------------------------- MODULE MCContainers -----------------------------
(* An order that refers to an item; three calls that rename, refer, stop     *)
(* referring, remove and create again.                                       *)
EXTENDS ContainerEdits, TLC

Container0(name, refs, triggers, idx) ==
  [name |-> name, refs |-> refs, triggers |-> triggers, auth |-> FALSE, flows |-> 0, idx |-> idx]

ItemId == <<0, "item">>
OrderId == <<0, "order">>

TwoContainers ==
  (ItemId :> Container0("item", {}, {"item", "order"}, {"x"})) @@ (OrderId :> Container0("order", {"item"}, {"order"}, {"x"}))

Call(do, id, name, refs, auth, idx) ==
  [do |-> do, id |-> id, name |-> name, refs |-> refs, auth |-> auth, idx |-> idx]

CreateUser == Call("create", All, "user", {"item"}, {TRUE}, {"x"})
CreateItem == Call("create", All, "item", {}, {TRUE}, {})
SaveOrder == Call("update", OrderId, "order", {"item"}, {}, {})
FreeOrder == Call("update", OrderId, "order", {}, {TRUE}, {"x"})
RenameOrder == Call("update", OrderId, "sale", {"item"}, {}, {})
RenameItem == Call("update", ItemId, "thing", {"thing"}, {}, {"x"})
DeleteItem == Call("delete", ItemId, "", {}, {}, {})
SaveFlows == Call("flows", OrderId, "", {}, {}, {})
ListAll == Call("list", All, "", {}, {}, {})

ThreeCalls ==
  << {RenameOrder, DeleteItem, SaveFlows},
     {CreateItem, RenameItem, ListAll},
     {SaveOrder, FreeOrder, CreateUser} >>
=============================================================================
