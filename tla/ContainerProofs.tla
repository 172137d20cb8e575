-------------------------- MODULE ContainerProofs ---------------------------
(* Theorems about ContainerEdits, for any containers, requests and limits:   *)
(* what the containers of a project promise each other is broken only by     *)
(* calls that overlapped or did not end well.                                *)
(*                                                                           *)
(* Base says what is true of a call by its place, of a container by its last *)
(* writer, and that two containers of one name have writers that overlapped. *)
(* The promises follow one by one: each has an invariant about what a call   *)
(* has read, found or still has to do, which only the calls that overlap it  *)
(* can make untrue.                                                          *)
EXTENDS ContainerEdits, SequenceTheorems, TLAPS

-----------------------------------------------------------------------------
(* What is true of calls and containers.                                     *)

Calls == DOMAIN edits
Live(n) == edits[n].pc \notin Over
Early == {"name", "auth", "role", "newRole"}
Writing == Early \cup {"refs", "index", "retire", "write"}
Following == {"trigger", "pull", "rename"}
Changed == {"clear", "drop", "reclear"} \cup Following
Saving(n) == Body(n).do \in {"create", "update"}
HasSaved(n) == Saving(n) /\ edits[n].pc \in Changed
Refs(n) == Body(n).refs \ {Body(n).name}

(* Shape *)
Fields == {"pc", "ask", "old", "found", "todo", "clear", "cleared", "with"}
IsCall(c) ==
  /\ Has(c, Fields)
  /\ IsAsk(c.ask)
Container(i) ==
  /\ Has(stored[i], {"name", "refs", "triggers", "auth", "flows", "idx"})
  /\ stored[i].name # "" /\ stored[i].auth \in BOOLEAN /\ stored[i].flows \in Calls \cup {0}
History(i) ==
  /\ Has(touched[i], {"wrote", "named", "others"})
  /\ By(i) \subseteq Calls \cup {0} /\ touched[i].named \in {touched[i].wrote} \cup touched[i].others
Known(i) ==
  \/ i \in DOMAIN Existing
  \/ \E n \in Calls : i \in {<<n, "made">>, <<n, "role">>}
Sequential == edits \in Seq({edits[n] : n \in DOMAIN edits})
CallShapes == Sequential /\ Len(edits) <= Len(Saves) /\ \A n \in Calls : IsCall(edits[n])
StoreShapes ==
  /\ \A i \in DOMAIN stored : i \in DOMAIN touched /\ Container(i)
  /\ \A i \in DOMAIN touched : History(i) /\ Known(i)
ListShapes == \A k \in DOMAIN listed : k \in DOMAIN touched \cup {All} /\ listed[k].by \in Calls
Shapes == CallShapes /\ StoreShapes /\ ListShapes

Met(n) == edits[n].with \subseteq Calls /\ \A m \in Calls : m < n /\ Live(m) => m \in edits[n].with
PlaceOK(n) ==
  \/ edits[n].pc \in Over
  \/ Saving(n) /\ edits[n].pc \in Writing \cup {"clear", "reclear"} \cup Following
  \/ Body(n).do = "update" /\ edits[n].pc = "read"
  \/ Body(n).do = "delete" /\ edits[n].pc \in {"read", "remove", "clear", "drop", "reclear"}
  \/ Body(n).do = "list" /\ edits[n].pc \in {"look", "find", "fill"}
  \/ Body(n).do = "flows" /\ edits[n].pc \in {"flows", "reclear"}
IdOK(n) ==
  /\ Body(n).do = "create" => Body(n).id = <<n, "made">> /\ edits[n].old.name = ""
  /\ edits[n].pc \in Changed => Body(n).id \in DOMAIN touched
  /\ Live(n) /\ Body(n).do \in {"update", "delete"} /\ edits[n].pc # "read" => Body(n).id \in DOMAIN touched
  /\ edits[n].pc \in Writing /\ Body(n).do = "create" => Body(n).id \notin DOMAIN touched
  /\ edits[n].pc \in {"read"} \cup Early => <<n, "role">> \notin DOMAIN touched
  /\ edits[n].pc \in Changed /\ Body(n).do = "delete" => Body(n).id \notin DOMAIN stored
  /\ edits[n].pc \in Writing \cup Changed /\ Saving(n) => Body(n).id # <<n, "role">>
  /\ edits[n].pc = "fill" => Body(n).id \in DOMAIN touched \cup {All}
ReadOK(n) ==
  /\ edits[n].pc \in {"auth", "role", "newRole"} => TRUE \in Body(n).auth
  /\ edits[n].pc \in Writing => edits[n].old.flows \in Calls \cup {0}
  /\ edits[n].pc = "retire" => edits[n].old.name = Body(n).name
  /\ edits[n].pc = "read" => edits[n].old.name = "" 
TodoOK(n) ==
  /\ edits[n].pc \in {"read"} \cup Early => edits[n].found = <<>>
  /\ Saving(n) /\ edits[n].pc \in {"read"} \cup Early => edits[n].todo = Refs(n)
  /\ edits[n].pc = "refs" => edits[n].todo \cup DOMAIN edits[n].found = Refs(n)
  /\ Saving(n) /\ (edits[n].pc \in {"index", "retire", "write"} \cup Changed) => DOMAIN edits[n].found = Refs(n)
  /\ Saving(n) /\ (edits[n].pc \in Writing \cup Changed) => \A r \in DOMAIN edits[n].found : edits[n].found[r] # Body(n).id
  /\ Saving(n) /\ edits[n].pc \in {"clear", "trigger"} => edits[n].todo \subseteq Refs(n)
  /\ edits[n].pc = "pull" => edits[n].todo \subseteq Dropped(n)
  /\ edits[n].pc = "rename" => edits[n].todo \subseteq Kept(n)
ClearOK(n) ==
  /\ edits[n].pc \notin Changed => edits[n].clear = {}
  /\ edits[n].pc \in Changed => {All, Body(n).id} \subseteq edits[n].clear
  /\ HasSaved(n) => \A r \in DOMAIN edits[n].found : edits[n].found[r] \in edits[n].clear
CallOK(n) == Met(n) /\ PlaceOK(n) /\ IdOK(n) /\ ReadOK(n) /\ TodoOK(n) /\ ClearOK(n)

(* a container is as its last writer left it *)
AtStart(i) ==
  /\ i \in DOMAIN Existing /\ stored[i].name = Existing[i].name /\ stored[i].refs = Existing[i].refs
  /\ stored[i].auth = Existing[i].auth /\ stored[i].idx = Existing[i].idx
Saved(i, n) ==
  /\ i = Body(n).id /\ Saving(n) /\ edits[n].pc \in Changed \cup {"done", "failed"}
  /\ stored[i].name = Body(n).name /\ stored[i].refs = Body(n).refs
  /\ stored[i].auth = (TRUE \in Body(n).auth) /\ stored[i].idx = Body(n).idx
Added(i, n) ==
  /\ i = <<n, "role">> /\ TRUE \in Body(n).auth /\ edits[n].pc \notin {"read"} \cup Early
  /\ stored[i].name = "role" /\ stored[i].refs = {} /\ ~stored[i].auth /\ stored[i].idx = {}
LeftBy(i, n) == (n = 0 /\ AtStart(i)) \/ (n \in Calls /\ (Saved(i, n) \/ Added(i, n)))
StoredOK == \A i \in DOMAIN stored : \A n \in Calls \cup {0} : touched[i].wrote = n => LeftBy(i, n)

NameFree(n) ==
  \A j \in DOMAIN stored \ {Body(n).id} : stored[j].name = Body(n).name => Raced(touched[j].wrote, n)
AuthFree(n) ==
  \A j \in DOMAIN stored \ {Body(n).id} : stored[j].auth => Overlap(touched[j].wrote, n)
RoleFree(n) ==
  \A j \in DOMAIN stored : stored[j].name = "role" => Overlap(touched[j].wrote, n)
OldFree(n) ==
  \A j \in DOMAIN stored \ {Body(n).id} :
    stored[j].name = edits[n].old.name =>
      touched[j].wrote = n \/ Overlap(touched[j].wrote, n) \/ Shared(stored[j].name)
Own(n) == touched[Body(n).id].wrote = n \/ Overlap(touched[Body(n).id].wrote, n)

NameOK(n) == edits[n].pc \in (Writing \ {"name"}) \cup Changed /\ Saving(n) => NameFree(n)
AuthOK(n) ==
  edits[n].pc \in (Writing \ {"name", "auth"}) \cup Changed /\ Saving(n) /\ TRUE \in Body(n).auth => AuthFree(n)
RoleOK(n) == edits[n].pc = "newRole" => RoleFree(n)
OldOK(n) == Live(n) /\ Body(n).do \in {"update", "delete"} /\ edits[n].pc # "read" => OldFree(n)
OwnOK(n) == HasSaved(n) /\ Body(n).id \in DOMAIN stored => Own(n)
NamesOK(n) == NameOK(n) /\ AuthOK(n) /\ RoleOK(n) /\ OldOK(n) /\ OwnOK(n)

Distinct ==
  \A i, j \in DOMAIN stored : \A m, n \in Calls \cup {0} :
    i # j /\ touched[i].wrote = m /\ touched[j].wrote = n =>
      /\ stored[i].name = stored[j].name => ~NamesIndexed /\ Raced(m, n)
      /\ stored[i].auth /\ stored[j].auth => Overlap(m, n)

Base == Shapes /\ (\A n \in Calls : CallOK(n) /\ NamesOK(n)) /\ StoredOK /\ Distinct

(* flows *)
FlowsRead(n) ==
  edits[n].pc \in Writing /\ Body(n).do = "update" =>
    \A m \in By(Body(n).id) : m # 0 /\ Body(m).do = "flows" /\ m > edits[n].old.flows =>
       Overlap(n, m) \/ \E p \in By(Body(n).id) : Overlap(p, m)

(* invalidation *)
Crossed(j, a) == \E p \in By(j) : Overlap(p, a)
FoundOK(n) ==
  Saving(n) /\ edits[n].pc \in {"refs", "index", "retire", "write"} =>
   \A r \in DOMAIN edits[n].found : \A j \in DOMAIN stored \ {Body(n).id} :
      stored[j].name = r => edits[n].found[r] = j \/ Crossed(j, n) \/ Shared(r)
Refers(i, j) == i # j /\ stored[j].name \in stored[i].refs \ {stored[i].name}
Owed(n, j) == edits[n].pc \in {"clear", "trigger"} /\ stored[j].name \in edits[n].todo /\ edits[n].found[stored[j].name] = j
Relisting(n) ==
  HasSaved(n) /\ Body(n).id \in DOMAIN stored /\ touched[Body(n).id].wrote = n =>
    LET i == Body(n).id IN
    \A j \in DOMAIN stored : Refers(i, j) =>
      \/ stored[i].name \in stored[j].triggers
      \/ Crossed(j, n) \/ Shared(stored[i].name) \/ Shared(stored[j].name) \/ Owed(n, j)
TriggersRead(n) ==
  edits[n].pc \in Writing /\ Body(n).do = "update" =>
    LET j == Body(n).id IN
    \A i \in DOMAIN stored \ {j} : edits[n].old.name \in stored[i].refs \ {stored[i].name} =>
      \/ stored[i].name \in edits[n].old.triggers
      \/ ~Told(touched[i].wrote) \/ touched[j].named > touched[i].wrote
      \/ Crossed(j, touched[i].wrote) \/ Overlap(n, touched[i].wrote)
      \/ Shared(stored[i].name) \/ Shared(edits[n].old.name)

(* indexes *)
About(n, name) == name \in {Body(n).name, edits[n].old.name}
Harms(n, i) ==
  /\ n # touched[i].wrote /\ About(n, stored[i].name)
  /\ \/ Overlap(n, touched[i].wrote)
     \/ edits[n].pc \in {"failed", "refused"}
     \/ (edits[n].pc \in {"retire", "write"} /\ Body(n).id = i)
IndexesOf(n) ==
  edits[n].pc \in {"retire", "write"} =>
    Body(n).idx \subseteq Built(Body(n).name) \/ \E m \in Calls : About(m, Body(n).name) /\ Overlap(m, n)

(* listings *)
Marks(m) == Body(m).do # "list" /\ (TRUE \in Body(m).auth \/ edits[m].pc \in Changed \cup {"done", "failed"})
Leaves(m, k) == \/ edits[m].pc \in {"failed", "refused"}
                \/ (edits[m].pc = "done" /\ ~edits[m].cleared)
                \/ (Live(m) /\ k \in edits[m].clear)
Missed(m, k, b) ==
  Marks(m) /\ (Overlap(m, b) \/ Leaves(m, k) \/ (Live(m) /\ k = All))
AnyShared == \E n \in Calls : \E name \in Gives(n) : Shared(name)
ListedFine(k) ==
  listed[k].view = View(k) \/ (\E m, b \in Calls : listed[k].by = b /\ Missed(m, k, b)) \/ AnyShared
ListedOK == \A k \in DOMAIN listed : ListedFine(k)
FillOK(n) ==
  edits[n].pc = "fill" => edits[n].found = View(Body(n).id) \/ \E m \in Calls : Marks(m) /\ Overlap(m, n)
\* The container i took its name from another call than m, beside it.
RenamedBy(m, i) ==
  \E w \in Calls :
    /\ touched[i].wrote = w /\ Overlap(w, m) /\ Marks(w)
    /\ i \in DOMAIN listed => Leaves(w, i) \/ \E b \in Calls : listed[i].by = b /\ Overlap(m, b)
RenamedTo(n) ==
  (edits[n].pc \in Writing \cup Changed) /\ Saving(n) =>
   \A r \in DOMAIN edits[n].found : \A i \in DOMAIN stored \ {Body(n).id} :
     stored[i].name = r /\ i # edits[n].found[r] => Shared(r) \/ RenamedBy(n, i)

-----------------------------------------------------------------------------
(* One step of a call: what becomes of the calls.                            *)

\* The call n comes to pc; what it was asked stays, and all other calls.
Turn(n, pc) ==
  /\ Sequential' /\ Len(edits') = Len(edits) /\ DOMAIN edits' = DOMAIN edits
  /\ \A m \in Calls \ {n} : edits'[m] = edits[m]
  /\ IsCall(edits'[n]) /\ edits'[n].pc = pc /\ edits'[n].with = edits[n].with

\* It goes on there, with what it has found, has to do and has to clear.
Now(n, pc, found, todo, clear) ==
  /\ Turn(n, pc) /\ pc \notin Over
  /\ edits'[n].ask = edits[n].ask /\ edits'[n].old = edits[n].old
  /\ edits'[n].found = found /\ edits'[n].todo = todo /\ edits'[n].clear = clear

Ended(n, pc) ==
  /\ Turn(n, pc) /\ pc \in Over
  /\ edits'[n].ask = edits[n].ask /\ edits'[n].old.name = edits[n].old.name
  /\ edits'[n].found = <<>> /\ edits'[n].clear = {}

LEMMA CallNumbers ==
  ASSUME Sequential
  PROVE  Len(edits) \in Nat /\ Calls = 1..Len(edits)
BY DEF Sequential, Calls

LEMMA Turning ==
  ASSUME Sequential, NEW n \in Calls, NEW call, IsCall(call), Becomes(n, call), call.with = edits[n].with
  PROVE  /\ Turn(n, call.pc)
         /\ edits'[n].ask = call.ask /\ edits'[n].cleared = call.cleared /\ edits'[n].old.name = call.old.name
         /\ call.pc \notin Over => edits'[n] = call
         /\ call.pc \in Over => edits'[n].found = <<>> /\ edits'[n].clear = {}
<1> DEFINE S == {edits[m] : m \in DOMAIN edits}
           new == Settled(call)
<1>1. edits \in Seq(S) /\ Len(edits) \in Nat /\ DOMAIN edits = 1..Len(edits)
  BY CallNumbers DEF Sequential, Calls
<1>2. edits' = [edits EXCEPT ![n] = new]
  BY DEF Becomes
<1>3. /\ edits' \in Seq(S \cup {new}) /\ Len(edits') = Len(edits) /\ DOMAIN edits' = DOMAIN edits
      /\ edits'[n] = new /\ \A m \in Calls \ {n} : edits'[m] = edits[m]
  <2> HIDE DEF new
  <2>1. \A m \in DOMAIN edits : edits[m] \in S \cup {new}
    OBVIOUS
  <2>2. edits \in Seq(S \cup {new})
    BY <1>1, <2>1
  <2> QED
    BY <1>1, <1>2, <2>2 DEF Calls
<1>4. Sequential'
  <2> HIDE DEF new
  <2>1. \A m \in 1..Len(edits') : edits'[m] \in {edits'[k] : k \in DOMAIN edits'}
    BY <1>1, <1>3
  <2> QED
    BY <1>1, <1>3, <2>1 DEF Sequential
<1>5. /\ IsCall(new) /\ new.pc = call.pc /\ new.ask = call.ask /\ new.with = call.with
      /\ new.cleared = call.cleared /\ new.old.name = call.old.name
      /\ call.pc \notin Over => new = call
      /\ call.pc \in Over => new.found = <<>> /\ new.clear = {}
  <2>1. CASE call.pc \notin Over
    BY <2>1 DEF Settled
  <2>2. CASE call.pc \in Over
    <3> DEFINE old == [name |-> call.old.name]
    <3>1. new = [call EXCEPT !.found = <<>>, !.todo = {}, !.clear = {}, !.old = old]
      BY <2>2 DEF Settled
    <3>2. old.name = call.old.name
      OBVIOUS
    <3> HIDE DEF old, new
    <3>0. Has(call, Fields)
      BY DEF IsCall
    <3>3. /\ new.pc = call.pc /\ new.ask = call.ask /\ new.with = call.with
          /\ new.cleared = call.cleared /\ new.old = old /\ new.found = <<>> /\ new.clear = {}
      BY <3>0, <3>1, SMT DEF Has, Fields
    <3>4. Has(new, Fields)
      BY <3>0, <3>1 DEF Has
    <3> QED
      BY <2>2, <3>2, <3>3, <3>4 DEF IsCall
  <2> QED
    BY <2>1, <2>2
<1> HIDE DEF new
<1> QED
  BY <1>3, <1>4, <1>5 DEF Turn

LEMMA Going ==
  ASSUME Sequential, NEW n \in Calls, IsCall(edits[n]), NEW pc, Goes(n, pc)
  PROVE  /\ pc \notin Over => Now(n, pc, edits[n].found, edits[n].todo, edits[n].clear)
         /\ pc \in Over => Ended(n, pc)
<1> DEFINE call == [edits[n] EXCEPT !.pc = pc]
<1>1. Becomes(n, call)
  BY DEF Goes
<1>2. /\ IsCall(call) /\ call.pc = pc /\ call.with = edits[n].with /\ call.ask = edits[n].ask /\ call.old = edits[n].old
      /\ call.found = edits[n].found /\ call.todo = edits[n].todo /\ call.clear = edits[n].clear
  BY SMT DEF IsCall, Has, Fields
<1> HIDE DEF call
<1> QED
  BY <1>1, <1>2, Turning DEF Now, Ended

(* The same for each way a step changes its call.                            *)

LEMMA SetsTodo ==
  ASSUME Sequential, NEW n \in Calls, IsCall(edits[n]), NEW pc, pc \notin Over, NEW todo,
         Becomes(n, [edits[n] EXCEPT !.pc = pc, !.todo = todo])
  PROVE  Now(n, pc, edits[n].found, todo, edits[n].clear)
<1> DEFINE call == [edits[n] EXCEPT !.pc = pc, !.todo = todo]
<1>1. Has(edits[n], Fields)
  BY DEF IsCall
<1>2. Has(call, Fields)
  BY <1>1 DEF Has
<1>3. /\ call.pc = pc /\ call.ask = edits[n].ask /\ call.old = edits[n].old /\ call.with = edits[n].with
      /\ call.found = edits[n].found /\ call.todo = todo /\ call.clear = edits[n].clear /\ call.cleared = edits[n].cleared
  BY <1>1 DEF Has, Fields
<1>4. Becomes(n, call) /\ IsCall(call)
  BY <1>2, <1>3 DEF IsCall
<1> HIDE DEF call
<1> QED
  BY <1>3, <1>4, Turning DEF Now, Ended

LEMMA Takes ==
  ASSUME Sequential, NEW n \in Calls, IsCall(edits[n]), NEW r, Live(n),
         Becomes(n, [edits[n] EXCEPT !.todo = @ \ {r}])
  PROVE  Now(n, edits[n].pc, edits[n].found, edits[n].todo \ {r}, edits[n].clear)
<1> DEFINE call == [edits[n] EXCEPT !.todo = @ \ {r}]
<1>1. Has(edits[n], Fields)
  BY DEF IsCall
<1>2. Has(call, Fields)
  BY <1>1 DEF Has
<1>3. /\ call.pc = edits[n].pc /\ call.ask = edits[n].ask /\ call.old = edits[n].old /\ call.with = edits[n].with
      /\ call.found = edits[n].found /\ call.todo = edits[n].todo \ {r} /\ call.clear = edits[n].clear /\ call.cleared = edits[n].cleared
  BY <1>1 DEF Has, Fields
<1>4. Becomes(n, call) /\ IsCall(call)
  BY <1>2, <1>3 DEF IsCall
<1> HIDE DEF call
<1> QED
  BY <1>3, <1>4, Turning DEF Now, Ended, Live

LEMMA Finds ==
  ASSUME Sequential, NEW n \in Calls, IsCall(edits[n]), NEW r, NEW i, Live(n),
         Becomes(n, [edits[n] EXCEPT !.todo = @ \ {r}, !.found = Put(@, r, i)])
  PROVE  Now(n, edits[n].pc, Put(edits[n].found, r, i), edits[n].todo \ {r}, edits[n].clear)
<1> DEFINE call == [edits[n] EXCEPT !.todo = @ \ {r}, !.found = Put(@, r, i)]
<1>1. Has(edits[n], Fields)
  BY DEF IsCall
<1>2. Has(call, Fields)
  BY <1>1 DEF Has
<1>3. /\ call.pc = edits[n].pc /\ call.ask = edits[n].ask /\ call.old = edits[n].old /\ call.with = edits[n].with
      /\ call.found = Put(edits[n].found, r, i) /\ call.todo = edits[n].todo \ {r} /\ call.clear = edits[n].clear /\ call.cleared = edits[n].cleared
  BY <1>1 DEF Has, Fields
<1>4. Becomes(n, call) /\ IsCall(call)
  BY <1>2, <1>3 DEF IsCall
<1> HIDE DEF call
<1> QED
  BY <1>3, <1>4, Turning DEF Now, Ended, Live

LEMMA TakesAndClears ==
  ASSUME Sequential, NEW n \in Calls, IsCall(edits[n]), NEW r, NEW more, Live(n),
         Becomes(n, [edits[n] EXCEPT !.todo = @ \ {r}, !.clear = @ \cup more])
  PROVE  Now(n, edits[n].pc, edits[n].found, edits[n].todo \ {r}, edits[n].clear \cup more)
<1> DEFINE call == [edits[n] EXCEPT !.todo = @ \ {r}, !.clear = @ \cup more]
<1>1. Has(edits[n], Fields)
  BY DEF IsCall
<1>2. Has(call, Fields)
  BY <1>1 DEF Has
<1>3. /\ call.pc = edits[n].pc /\ call.ask = edits[n].ask /\ call.old = edits[n].old /\ call.with = edits[n].with
      /\ call.found = edits[n].found /\ call.todo = edits[n].todo \ {r} /\ call.clear = edits[n].clear \cup more /\ call.cleared = edits[n].cleared
  BY <1>1 DEF Has, Fields
<1>4. Becomes(n, call) /\ IsCall(call)
  BY <1>2, <1>3 DEF IsCall
<1> HIDE DEF call
<1> QED
  BY <1>3, <1>4, Turning DEF Now, Ended, Live

LEMMA SetsTodoAndClear ==
  ASSUME Sequential, NEW n \in Calls, IsCall(edits[n]), NEW pc, pc \notin Over, NEW todo, NEW clear,
         Becomes(n, [edits[n] EXCEPT !.pc = pc, !.todo = todo, !.clear = clear])
  PROVE  Now(n, pc, edits[n].found, todo, clear)
<1> DEFINE call == [edits[n] EXCEPT !.pc = pc, !.todo = todo, !.clear = clear]
<1>1. Has(edits[n], Fields)
  BY DEF IsCall
<1>2. Has(call, Fields)
  BY <1>1 DEF Has
<1>3. /\ call.pc = pc /\ call.ask = edits[n].ask /\ call.old = edits[n].old /\ call.with = edits[n].with
      /\ call.found = edits[n].found /\ call.todo = todo /\ call.clear = clear /\ call.cleared = edits[n].cleared
  BY <1>1 DEF Has, Fields
<1>4. Becomes(n, call) /\ IsCall(call)
  BY <1>2, <1>3 DEF IsCall
<1> HIDE DEF call
<1> QED
  BY <1>3, <1>4, Turning DEF Now, Ended

LEMMA SetsClear ==
  ASSUME Sequential, NEW n \in Calls, IsCall(edits[n]), NEW pc, pc \notin Over, NEW clear,
         Becomes(n, [edits[n] EXCEPT !.pc = pc, !.clear = clear])
  PROVE  Now(n, pc, edits[n].found, edits[n].todo, clear)
<1> DEFINE call == [edits[n] EXCEPT !.pc = pc, !.clear = clear]
<1>1. Has(edits[n], Fields)
  BY DEF IsCall
<1>2. Has(call, Fields)
  BY <1>1 DEF Has
<1>3. /\ call.pc = pc /\ call.ask = edits[n].ask /\ call.old = edits[n].old /\ call.with = edits[n].with
      /\ call.found = edits[n].found /\ call.todo = edits[n].todo /\ call.clear = clear /\ call.cleared = edits[n].cleared
  BY <1>1 DEF Has, Fields
<1>4. Becomes(n, call) /\ IsCall(call)
  BY <1>2, <1>3 DEF IsCall
<1> HIDE DEF call
<1> QED
  BY <1>3, <1>4, Turning DEF Now, Ended

LEMMA SetsFound ==
  ASSUME Sequential, NEW n \in Calls, IsCall(edits[n]), NEW pc, pc \notin Over, NEW found,
         Becomes(n, [edits[n] EXCEPT !.pc = pc, !.found = found])
  PROVE  Now(n, pc, found, edits[n].todo, edits[n].clear)
<1> DEFINE call == [edits[n] EXCEPT !.pc = pc, !.found = found]
<1>1. Has(edits[n], Fields)
  BY DEF IsCall
<1>2. Has(call, Fields)
  BY <1>1 DEF Has
<1>3. /\ call.pc = pc /\ call.ask = edits[n].ask /\ call.old = edits[n].old /\ call.with = edits[n].with
      /\ call.found = found /\ call.todo = edits[n].todo /\ call.clear = edits[n].clear /\ call.cleared = edits[n].cleared
  BY <1>1 DEF Has, Fields
<1>4. Becomes(n, call) /\ IsCall(call)
  BY <1>2, <1>3 DEF IsCall
<1> HIDE DEF call
<1> QED
  BY <1>3, <1>4, Turning DEF Now, Ended

LEMMA Clears ==
  ASSUME Sequential, NEW n \in Calls, IsCall(edits[n]), NEW pc, NEW works,
         Becomes(n, [edits[n] EXCEPT !.pc = pc, !.cleared = works])
  PROVE  /\ edits'[n].cleared = works
         /\ pc \notin Over => Now(n, pc, edits[n].found, edits[n].todo, edits[n].clear)
         /\ pc \in Over => Ended(n, pc)
<1> DEFINE call == [edits[n] EXCEPT !.pc = pc, !.cleared = works]
<1>1. Has(edits[n], Fields)
  BY DEF IsCall
<1>2. Has(call, Fields)
  BY <1>1 DEF Has
<1>3. /\ call.pc = pc /\ call.ask = edits[n].ask /\ call.old = edits[n].old /\ call.with = edits[n].with
      /\ call.found = edits[n].found /\ call.todo = edits[n].todo /\ call.clear = edits[n].clear /\ call.cleared = works
  BY <1>1 DEF Has, Fields
<1>4. Becomes(n, call) /\ IsCall(call)
  BY <1>2, <1>3 DEF IsCall
<1> HIDE DEF call
<1> QED
  BY <1>3, <1>4, Turning DEF Now, Ended

LEMMA Reads ==
  ASSUME Sequential, NEW n \in Calls, IsCall(edits[n]), NEW pc, pc \notin Over, NEW old, NEW auth,
         Becomes(n, [edits[n] EXCEPT !.pc = pc, !.old = old, !.ask.auth = auth])
  PROVE  /\ Turn(n, pc) /\ edits'[n].old = old /\ edits'[n].ask = [edits[n].ask EXCEPT !.auth = auth]
         /\ edits'[n].found = edits[n].found /\ edits'[n].todo = edits[n].todo /\ edits'[n].clear = edits[n].clear
<1> DEFINE call == [edits[n] EXCEPT !.pc = pc, !.old = old, !.ask.auth = auth]
           ask == [edits[n].ask EXCEPT !.auth = auth]
<1>1. Has(edits[n], Fields) /\ IsAsk(edits[n].ask)
  BY DEF IsCall
<1>2. Has(call, Fields)
  BY <1>1 DEF Has
<1>3. /\ call.pc = pc /\ call.ask = ask /\ call.old = old /\ call.with = edits[n].with
      /\ call.found = edits[n].found /\ call.todo = edits[n].todo /\ call.clear = edits[n].clear
  BY <1>1 DEF Has, Fields
<1>4. IsAsk(ask)
  <2>1. Has(edits[n].ask, {"do", "id", "name", "refs", "auth", "idx"})
    BY <1>1 DEF IsAsk
  <2>2. Has(ask, {"do", "id", "name", "refs", "auth", "idx"})
    BY <2>1 DEF Has
  <2>3. ask.do = edits[n].ask.do /\ ask.name = edits[n].ask.name /\ ask.id = edits[n].ask.id
    BY <2>1 DEF Has
  <2> QED
    BY <1>1, <2>2, <2>3 DEF IsAsk
<1>5. Becomes(n, call) /\ IsCall(call)
  BY <1>2, <1>3, <1>4 DEF IsCall
<1> HIDE DEF call, ask
<1> QED
  BY <1>3, <1>5, Turning DEF ask

-----------------------------------------------------------------------------
(* What lasts. Overlaps are never forgotten, nor what a call was asked.      *)

Onward ==
  /\ Calls \subseteq DOMAIN edits'
  /\ \A m \in Calls :
       /\ edits'[m].with = edits[m].with
       /\ Body(m)'.do = Body(m).do /\ Body(m)'.id = Body(m).id /\ Body(m)'.name = Body(m).name
       /\ Body(m)'.refs = Body(m).refs /\ Body(m)'.idx = Body(m).idx
       /\ TRUE \in Body(m).auth => TRUE \in Body(m)'.auth
       /\ edits[m].pc # "read" => Body(m)'.auth = Body(m).auth
       /\ edits[m].old.name # "" => edits'[m].old.name = edits[m].old.name
       /\ ~Live(m) => edits'[m] = edits[m]
       /\ edits[m].pc \in Changed \cup {"done", "failed"} => edits'[m].pc \in Changed \cup {"done", "failed"}
       /\ edits[m].pc \notin {"read"} \cup Early => edits'[m].pc \notin {"read"} \cup Early

LEMMA OverlapStays ==
  ASSUME Onward, NEW a \in Calls \cup {0}, NEW b \in Calls \cup {0}
  PROVE  (Overlap(a, b) => Overlap(a, b)') /\ (Raced(a, b) => Raced(a, b)')
<1>1. Overlap(a, b) => Overlap(a, b)'
  BY DEF Onward, Overlap
<1>2. ASSUME a = b, a # 0, Body(a).name = "role", TRUE \in Body(a).auth
      PROVE  Raced(a, b)'
  <2>1. a \in Calls
    BY <1>2
  <2>2. Body(a)'.name = "role" /\ TRUE \in Body(a)'.auth
    BY <1>2, <2>1 DEF Onward
  <2> QED
    BY <1>2, <2>2 DEF Raced
<1> QED
  BY <1>1, <1>2 DEF Raced

LEMMA GivesStays ==
  ASSUME Onward, NEW m \in Calls
  PROVE  Gives(m) \subseteq Gives(m)'
BY DEF Onward, Gives

LEMMA SharedStays ==
  ASSUME Onward, NEW name, Shared(name)
  PROVE  Shared(name)'
<1>1. ~NamesIndexed
  BY DEF Shared
<1>2. PICK m, n \in Calls : Raced(m, n) /\ name \in Gives(m) \cap Gives(n)
  BY DEF Shared, Calls
<1>3. Raced(m, n)' /\ name \in Gives(m)' /\ name \in Gives(n)'
  BY <1>2, OverlapStays, GivesStays
<1>4. m \in DOMAIN edits' /\ n \in DOMAIN edits'
  BY <1>2 DEF Onward
<1> QED
  BY <1>1, <1>3, <1>4 DEF Shared

LEMMA AnySharedStays ==
  ASSUME Onward, AnyShared
  PROVE  AnyShared'
<1>1. PICK n \in Calls : \E name \in Gives(n) : Shared(name)
  BY DEF AnyShared
<1>2. PICK name \in Gives(n) : Shared(name)
  BY <1>1
<1>3. name \in Gives(n)' /\ Shared(name)' /\ n \in Calls'
  BY <1>2, GivesStays, SharedStays DEF Onward, Calls
<1> QED
  BY <1>3 DEF AnyShared

LEMMA Together ==
  ASSUME Sequential, \A n \in Calls : Met(n), NEW m \in Calls, NEW n \in Calls, m # n, Live(m), Live(n)
  PROVE  Overlap(m, n)
<1>1. m \in Nat \ {0} /\ n \in Nat \ {0}
  BY CallNumbers
<1>2. m < n \/ n < m
  BY <1>1
<1> QED
  BY <1>1, <1>2 DEF Met, Overlap

\* A call that began after another did, which is still running, overlaps it.
LEMMA BeganDuring ==
  ASSUME Sequential, \A n \in Calls : Met(n), NEW m \in Calls, NEW n \in Calls, m < n, Live(m)
  PROVE  Overlap(m, n)
<1>1. m \in Nat \ {0} /\ n \in Nat \ {0}
  BY CallNumbers
<1> QED
  BY <1>1 DEF Met, Overlap

-----------------------------------------------------------------------------
(* What a step of m does to the containers: each it leaves is as it was, but *)
(* for its list of caches and its workflows, or is now written by m.         *)

Carried(j) ==
  /\ j \in DOMAIN stored
  /\ stored'[j].name = stored[j].name /\ stored'[j].refs = stored[j].refs
  /\ stored'[j].auth = stored[j].auth /\ stored'[j].idx = stored[j].idx
  /\ touched'[j].wrote = touched[j].wrote /\ touched'[j].named = touched[j].named

Rewritten(j, m) ==
  /\ touched'[j].wrote = m /\ m \in By(j)'
  /\ j \in {Body(m).id, <<m, "role">>}

StoreStep(m) ==
  /\ DOMAIN touched \subseteq DOMAIN touched'
  /\ \A j \in DOMAIN touched : By(j) \subseteq By(j)'
  /\ \A j \in DOMAIN touched' \ DOMAIN touched : j \in {<<m, "made">>, <<m, "role">>}
  /\ \A j \in DOMAIN stored' : j \in DOMAIN touched' /\ (j \in DOMAIN stored \/ j \notin DOMAIN touched)
  /\ \A j \in DOMAIN stored' : Carried(j) \/ Rewritten(j, m)

LEMMA QuietStep ==
  ASSUME StoreShapes, Calls \subseteq Calls', UNCHANGED <<stored, touched>>, NEW m
  PROVE  StoreStep(m) /\ StoreShapes'
<1>1. StoreStep(m)
  BY DEF StoreStep, Carried, StoreShapes, By
<1>2. \A i \in DOMAIN stored' : i \in DOMAIN touched' /\ Container(i)'
  BY DEF StoreShapes, Container
<1>3. \A i \in DOMAIN touched' : History(i)' /\ Known(i)'
  BY DEF StoreShapes, History, Known, By
<1> QED
  BY <1>1, <1>2, <1>3 DEF StoreShapes

LEMMA RemoveStep ==
  ASSUME StoreShapes, Calls \subseteq Calls', UNCHANGED touched, NEW m, NEW d,
         stored' = [i \in DOMAIN stored \ {d} |-> stored[i]]
  PROVE  StoreStep(m) /\ StoreShapes'
<1>1. DOMAIN stored' = DOMAIN stored \ {d} /\ \A i \in DOMAIN stored' : stored'[i] = stored[i]
  OBVIOUS
<1>2. StoreStep(m)
  BY <1>1 DEF StoreStep, Carried, StoreShapes, By
<1>3. \A i \in DOMAIN stored' : i \in DOMAIN touched' /\ Container(i)'
  BY <1>1 DEF StoreShapes, Container
<1>4. \A i \in DOMAIN touched' : History(i)' /\ Known(i)'
  BY DEF StoreShapes, History, Known, By
<1> QED
  BY <1>2, <1>3, <1>4 DEF StoreShapes

\* The container i is written by n.
Written(i, n, new, mark) ==
  /\ DOMAIN stored' = DOMAIN stored \cup {i} /\ DOMAIN touched' = DOMAIN touched \cup {i}
  /\ i \in DOMAIN stored' /\ stored'[i] = new /\ touched'[i].wrote = n /\ touched'[i].named = mark.named
  /\ n \in By(i)' /\ (i \notin DOMAIN touched => By(i)' = {n})
  /\ i \in DOMAIN touched => By(i) \subseteq By(i)' /\ By(i)' \subseteq By(i) \cup {n}
  /\ \A j \in DOMAIN stored' \ {i} : j \in DOMAIN stored /\ stored'[j] = stored[j] /\ Carried(j)
  /\ \A j \in DOMAIN touched' \ {i} : touched'[j] = touched[j]

LEMMA WriteStep ==
  ASSUME StoreShapes, Calls \subseteq Calls', NEW n \in Calls, NEW i, NEW new, NEW mark,
         Has(new, {"name", "refs", "triggers", "auth", "flows", "idx"}), new.name # "",
         new.auth \in BOOLEAN, new.flows \in Calls \cup {0},
         i \in {Body(n).id, <<n, "role">>},
         i \in DOMAIN stored \/ i \in {<<n, "made">>, <<n, "role">>} \ DOMAIN touched,
         stored' = Put(stored, i, new), touched' = Put(touched, i, mark),
         Has(mark, {"wrote", "named", "others"}), mark.wrote = n,
         i \in DOMAIN touched =>
           /\ mark.named \in {n, touched[i].named}
           /\ mark.others = touched[i].others \cup {touched[i].wrote},
         i \notin DOMAIN touched => mark.named = n /\ mark.others = {}
  PROVE  StoreStep(n) /\ StoreShapes' /\ Written(i, n, new, mark)
<1>1. /\ DOMAIN stored' = DOMAIN stored \cup {i} /\ stored'[i] = new
      /\ \A j \in DOMAIN stored' \ {i} : j \in DOMAIN stored /\ stored'[j] = stored[j]
  BY DEF Put
<1>2. /\ DOMAIN touched' = DOMAIN touched \cup {i} /\ touched'[i] = mark
      /\ \A j \in DOMAIN touched' \ {i} : touched'[j] = touched[j]
  BY DEF Put
<1>6. By(i)' = {mark.wrote, mark.named} \cup mark.others
  BY <1>2 DEF By
<1>7. n \in By(i)' /\ (i \notin DOMAIN touched => By(i)' = {n})
  BY <1>6
<1>8. i \in DOMAIN touched => By(i)' \subseteq By(i) \cup {n}
  BY <1>6 DEF By
<1>9. i \in DOMAIN touched => touched[i].wrote \in By(i)' /\ touched[i].others \subseteq By(i)'
  BY <1>6 DEF By
<1>3. \A j \in DOMAIN touched : By(j) \subseteq Calls \cup {0} /\ touched[j].named \in {touched[j].wrote} \cup touched[j].others
  BY DEF StoreShapes, History
<1>10. i \in DOMAIN touched => By(i) \subseteq By(i)'
  <2>1. ASSUME i \in DOMAIN touched PROVE By(i) \subseteq {touched[i].wrote} \cup touched[i].others
    BY <1>3, <2>1 DEF By
  <2> QED
    BY <1>9, <2>1
<1>11. \A j \in DOMAIN touched \ {i} : By(j)' = By(j)
  BY <1>2 DEF By
<1>12. StoreStep(n)
  <2>1. \A j \in DOMAIN stored' \ {i} : Carried(j)
    BY <1>1, <1>2 DEF Carried, StoreShapes
  <2>2. Rewritten(i, n)
    BY <1>2, <1>7 DEF Rewritten
  <2>3. \A j \in DOMAIN touched : By(j) \subseteq By(j)'
    BY <1>10, <1>11
  <2>4. \A j \in DOMAIN touched' \ DOMAIN touched : j \in {<<n, "made">>, <<n, "role">>}
    BY <1>2 DEF StoreShapes
  <2>5. \A j \in DOMAIN stored' : j \in DOMAIN touched' /\ (j \in DOMAIN stored \/ j \notin DOMAIN touched)
    BY <1>1, <1>2 DEF StoreShapes
  <2> QED
    BY <1>1, <1>2, <2>1, <2>2, <2>3, <2>4, <2>5 DEF StoreStep
<1>13. StoreShapes'
  <2>1. \A j \in DOMAIN stored' : j \in DOMAIN touched' /\ Container(j)'
    BY <1>1, <1>2 DEF StoreShapes, Container
  <2>2. \A j \in DOMAIN touched' : History(j)'
    <3>1. \A j \in DOMAIN touched' \ {i} : History(j)'
      <4>1. ASSUME NEW j \in DOMAIN touched' \ {i} PROVE History(j)'
        <5>1. j \in DOMAIN touched /\ touched'[j] = touched[j] /\ By(j)' = By(j)
          BY <1>2, <1>11
        <5>2. History(j)
          BY <5>1 DEF StoreShapes
        <5> QED
          BY <5>1, <5>2 DEF History
      <4> QED
        BY <4>1
    <3>2. By(i)' \subseteq Calls' \cup {0}
      BY <1>3, <1>7, <1>8
    <3>3. mark.named \in {mark.wrote} \cup mark.others
      BY <1>3
    <3> QED
      BY <1>2, <3>1, <3>2, <3>3 DEF History
  <2>3. \A j \in DOMAIN touched' : Known(j)'
    BY <1>2 DEF StoreShapes, Known
  <2> QED
    BY <2>1, <2>2, <2>3 DEF StoreShapes
<1> QED
  <2>1. \A j \in DOMAIN stored' \ {i} : Carried(j)
    BY <1>1, <1>2 DEF Carried, StoreShapes
  <2>2. Written(i, n, new, mark)
    BY <1>1, <1>2, <1>7, <1>8, <1>10, <2>1 DEF Written
  <2> QED
    BY <1>12, <1>13, <2>2

\* Only the list of caches of the container i changes, or its workflows.
Amended(i, n) ==
  /\ DOMAIN stored' = DOMAIN stored /\ DOMAIN touched' = DOMAIN touched
  /\ \A j \in DOMAIN stored : Carried(j)
  /\ \A j \in DOMAIN stored \ {i} : stored'[j] = stored[j]
  /\ \A j \in DOMAIN touched \ {i} : touched'[j] = touched[j]
  /\ n \in By(i)' /\ By(i)' = By(i) \cup {n}

LEMMA AmendStep ==
  ASSUME StoreShapes, Calls \subseteq Calls', NEW n \in Calls, NEW i \in DOMAIN stored,
         DOMAIN stored' = DOMAIN stored, \A j \in DOMAIN stored \ {i} : stored'[j] = stored[j],
         Container(i)', stored'[i].name = stored[i].name, stored'[i].refs = stored[i].refs,
         stored'[i].auth = stored[i].auth, stored'[i].idx = stored[i].idx,
         touched' = [touched EXCEPT ![i].others = @ \cup {n}]
  PROVE  StoreStep(n) /\ StoreShapes' /\ Amended(i, n)
<1>1. i \in DOMAIN touched /\ Has(touched[i], {"wrote", "named", "others"})
  BY DEF StoreShapes, History
<1> DEFINE mark == [touched[i] EXCEPT !.others = @ \cup {n}]
<1>2. touched' = [touched EXCEPT ![i] = mark]
  BY <1>1
<1>3. /\ Has(mark, {"wrote", "named", "others"})
      /\ mark.wrote = touched[i].wrote /\ mark.named = touched[i].named /\ mark.others = touched[i].others \cup {n}
  BY <1>1 DEF Has
<1> HIDE DEF mark
<1>4. DOMAIN touched' = DOMAIN touched /\ touched'[i] = mark /\ \A j \in DOMAIN touched \ {i} : touched'[j] = touched[j]
  BY <1>1, <1>2
<1>5. By(i)' = By(i) \cup {n}
  BY <1>3, <1>4 DEF By
<1>6. \A j \in DOMAIN stored : Carried(j)
  BY <1>3, <1>4 DEF Carried, StoreShapes
<1>7. \A j \in DOMAIN touched \ {i} : By(j)' = By(j)
  BY <1>4 DEF By
<1>8. Amended(i, n)
  BY <1>4, <1>5, <1>6 DEF Amended
<1>9. StoreStep(n)
  BY <1>1, <1>4, <1>5, <1>6, <1>7 DEF StoreStep, StoreShapes
<1>10. StoreShapes'
  <2>1. \A j \in DOMAIN stored' : j \in DOMAIN touched' /\ Container(j)'
    BY <1>4 DEF StoreShapes, Container
  <2>2. \A j \in DOMAIN touched \ {i} : History(j)'
    BY <1>4, <1>7 DEF StoreShapes, History
  <2>3. History(i)'
    BY <1>1, <1>3, <1>4, <1>5 DEF StoreShapes, History
  <2>4. \A j \in DOMAIN touched' : Known(j)'
    BY <1>4 DEF StoreShapes, Known
  <2> QED
    BY <1>4, <2>1, <2>2, <2>3, <2>4 DEF StoreShapes
<1> QED
  BY <1>8, <1>9, <1>10

LEMMA RelistStep ==
  ASSUME StoreShapes, Calls \subseteq Calls', NEW n \in Calls, NEW i \in DOMAIN stored, NEW triggers,
         Relists(n, i, triggers)
  PROVE  /\ StoreStep(n) /\ StoreShapes' /\ Amended(i, n)
         /\ stored'[i].triggers = triggers /\ stored'[i].flows = stored[i].flows
<1>1. Container(i)
  BY DEF StoreShapes
<1> DEFINE new == [stored[i] EXCEPT !.triggers = triggers]
<1>2. stored' = [stored EXCEPT ![i] = new]
  BY DEF Relists
<1>3. Has(stored[i], {"name", "refs", "triggers", "auth", "flows", "idx"})
  BY <1>1 DEF Container
<1>4. Has(new, {"name", "refs", "triggers", "auth", "flows", "idx"})
  BY <1>3 DEF Has
<1>5. /\ new.name = stored[i].name /\ new.refs = stored[i].refs /\ new.auth = stored[i].auth
      /\ new.idx = stored[i].idx /\ new.flows = stored[i].flows /\ new.triggers = triggers
  BY <1>3 DEF Has
<1> HIDE DEF new
<1>6. DOMAIN stored' = DOMAIN stored /\ stored'[i] = new /\ \A j \in DOMAIN stored \ {i} : stored'[j] = stored[j]
  BY <1>2
<1>7. Container(i)'
  BY <1>1, <1>4, <1>5, <1>6 DEF Container
<1> QED
  BY <1>5, <1>6, <1>7, AmendStep DEF Relists

LEMMA FlowsStep ==
  ASSUME StoreShapes, Calls \subseteq Calls', NEW n \in Calls, NEW i \in DOMAIN stored,
         stored' = [stored EXCEPT ![i].flows = n], touched' = [touched EXCEPT ![i].others = @ \cup {n}]
  PROVE  /\ StoreStep(n) /\ StoreShapes' /\ Amended(i, n)
         /\ stored'[i].triggers = stored[i].triggers /\ stored'[i].flows = n
<1>1. Container(i)
  BY DEF StoreShapes
<1> DEFINE new == [stored[i] EXCEPT !.flows = n]
<1>2. stored' = [stored EXCEPT ![i] = new]
  OBVIOUS
<1>3. Has(stored[i], {"name", "refs", "triggers", "auth", "flows", "idx"})
  BY <1>1 DEF Container
<1>4. Has(new, {"name", "refs", "triggers", "auth", "flows", "idx"})
  BY <1>3 DEF Has
<1>5. /\ new.name = stored[i].name /\ new.refs = stored[i].refs /\ new.auth = stored[i].auth
      /\ new.idx = stored[i].idx /\ new.triggers = stored[i].triggers /\ new.flows = n
  BY <1>3 DEF Has
<1> HIDE DEF new
<1>6. DOMAIN stored' = DOMAIN stored /\ stored'[i] = new /\ \A j \in DOMAIN stored \ {i} : stored'[j] = stored[j]
  BY <1>2
<1>7. Container(i)'
  BY <1>1, <1>4, <1>5, <1>6 DEF Container
<1> QED
  BY <1>5, <1>6, <1>7, AmendStep

-----------------------------------------------------------------------------
(* What a step of another call leaves true of the call n.                    *)

Beside(n) ==
  /\ DOMAIN touched \subseteq DOMAIN touched'
  /\ \A j \in DOMAIN touched : By(j) \subseteq By(j)'
  /\ \A j \in DOMAIN touched' \ DOMAIN touched : j \notin {<<n, "made">>, <<n, "role">>}
  /\ \A j \in DOMAIN stored' : j \in DOMAIN touched' /\ (j \in DOMAIN stored \/ j \notin DOMAIN touched)
  /\ Live(n) => \A j \in DOMAIN stored' :
       Carried(j) \/ (Overlap(touched[j].wrote, n)' /\ (touched[j].wrote \in By(j))')

LEMMA StepBeside ==
  ASSUME Base, Onward, NEW m \in Calls, Live(m), StoreStep(m), NEW n \in Calls, n # m
  PROVE  Beside(n)
<1>1. Sequential /\ m \in Nat /\ n \in Nat
  BY CallNumbers DEF Base, Shapes, CallShapes
<1>2. Live(n) => Overlap(m, n)
  BY <1>1, Together DEF Base, CallOK
<1>3. Live(n) => Overlap(m, n)'
  BY <1>2, OverlapStays
<1>4. \A j \in DOMAIN touched' \ DOMAIN touched : j \notin {<<n, "made">>, <<n, "role">>}
  <2>1. <<m, "made">> \notin {<<n, "made">>, <<n, "role">>} /\ <<m, "role">> \notin {<<n, "made">>, <<n, "role">>}
    BY <1>1
  <2> QED
    BY <2>1 DEF StoreStep
<1>5. Live(n) => \A j \in DOMAIN stored' : Carried(j) \/ (Overlap(touched[j].wrote, n)' /\ (touched[j].wrote \in By(j))')
  BY <1>3 DEF StoreStep, Rewritten
<1> QED
  BY <1>4, <1>5 DEF StoreStep, Beside

LEMMA QuietBeside ==
  ASSUME StoreShapes, UNCHANGED <<stored, touched>>, NEW n
  PROVE  Beside(n)
BY DEF Beside, Carried, StoreShapes, By

LEMMA MetStays ==
  ASSUME Base, Onward, \A m \in Calls' \ Calls : m = Len(edits) + 1,
         NEW n \in Calls, edits'[n].with = edits[n].with
  PROVE  Met(n)'
<1>1. n \in Nat /\ n <= Len(edits) /\ Len(edits) \in Nat
  BY CallNumbers DEF Base, Shapes, CallShapes
<1>2. Met(n)
  BY DEF Base, CallOK
<1>3. \A m \in Calls' : m < n => m \in Calls
  BY <1>1
<1>4. \A m \in Calls : Live(m)' => Live(m)
  BY DEF Onward, Live
<1>5. Calls \subseteq Calls'
  BY DEF Onward, Calls
<1> QED
  BY <1>2, <1>3, <1>4, <1>5 DEF Met

LEMMA OthersCallOK ==
  ASSUME Base, Onward, \A m \in Calls' \ Calls : m = Len(edits) + 1,
         NEW n \in Calls, edits'[n] = edits[n], Beside(n)
  PROVE  CallOK(n)'
<1>1. CallOK(n)
  BY DEF Base
<1>2. Met(n)'
  BY MetStays
<1>3. PlaceOK(n)'
  BY <1>1 DEF CallOK, PlaceOK, Saving, Body
<1>4. IdOK(n)'
  BY <1>1 DEF CallOK, IdOK, Body, Live, Saving, Beside, Changed, Over, Following
<1>5. ReadOK(n)'
  <2>1. Calls \subseteq Calls'
    BY DEF Onward, Calls
  <2> QED
    BY <1>1, <2>1 DEF CallOK, ReadOK, Body
<1>6. TodoOK(n)'
  BY <1>1 DEF CallOK, TodoOK, Body, Saving, Refs, Dropped, Kept
<1>7. ClearOK(n)'
  BY <1>1 DEF CallOK, ClearOK, Body, HasSaved, Saving
<1> QED
  BY <1>2, <1>3, <1>4, <1>5, <1>6, <1>7 DEF CallOK

LEMMA OthersNamesOK ==
  ASSUME Base, Onward, NEW n \in Calls, edits'[n] = edits[n], Beside(n)
  PROVE  NamesOK(n)'
<1>1. NamesOK(n)
  BY DEF Base
<1>2. \A j \in DOMAIN stored : touched[j].wrote \in Calls \cup {0}
  BY DEF Base, Shapes, StoreShapes, History, By
<1>3. \A w \in Calls \cup {0} : (Overlap(w, n) => Overlap(w, n)') /\ (Raced(w, n) => Raced(w, n)')
  BY OverlapStays
<1>4. Live(n) => \A j \in DOMAIN stored' : Carried(j) \/ Overlap(touched[j].wrote, n)'
  BY DEF Beside
<1>5. \A j \in DOMAIN stored' : Overlap(touched[j].wrote, n)' => Raced(touched[j].wrote, n)'
  BY DEF Raced
<1>6. Body(n)' = Body(n) /\ (Saving(n)' <=> Saving(n)) /\ (Live(n)' <=> Live(n)) /\ (HasSaved(n)' <=> HasSaved(n))
  BY DEF Body, Saving, Live, HasSaved
<1>7. Live(n) \/ edits[n].pc \notin Writing \cup Changed
  BY DEF Live, Over, Writing, Early, Changed, Following
<1>8. NameOK(n)'
  BY <1>1, <1>2, <1>3, <1>4, <1>5, <1>6, <1>7 DEF NamesOK, NameOK, NameFree, Carried, Overlap, Raced
<1>9. AuthOK(n)'
  BY <1>1, <1>2, <1>3, <1>4, <1>6, <1>7 DEF NamesOK, AuthOK, AuthFree, Carried, Overlap
<1>10. RoleOK(n)'
  BY <1>1, <1>2, <1>3, <1>4, <1>7 DEF NamesOK, RoleOK, RoleFree, Carried, Writing, Early, Overlap
<1>11. OldOK(n)'
  <2>2. ASSUME Live(n)', Body(n)'.do \in {"update", "delete"}, edits'[n].pc # "read",
               NEW j \in DOMAIN stored' \ {Body(n)'.id}, stored'[j].name = edits'[n].old.name
        PROVE  (touched[j].wrote = n)' \/ Overlap(touched[j].wrote, n)' \/ Shared(stored[j].name)'
    <3>1. CASE Carried(j)
      <4>1. touched[j].wrote = n \/ Overlap(touched[j].wrote, n) \/ Shared(stored[j].name)
        BY <1>1, <1>6, <2>2, <3>1 DEF NamesOK, OldOK, OldFree, Carried
      <4>2. \A name : Shared(name) => Shared(name)'
        BY SharedStays
      <4> QED
        BY <4>1, <4>2, <3>1, <1>2, <1>3 DEF Carried, Overlap, Shared
    <3> QED
      BY <3>1, <1>4, <1>6, <2>2
  <2> QED
    BY <2>2 DEF OldOK, OldFree
<1>12. OwnOK(n)'
  BY <1>1, <1>2, <1>3, <1>4, <1>6, <1>7 DEF NamesOK, OwnOK, Own, Carried, HasSaved, Overlap
<1> QED
  BY <1>8, <1>9, <1>10, <1>11, <1>12 DEF NamesOK

LEMMA LeftByStays ==
  ASSUME Onward, NEW i, NEW n, Carried(i), LeftBy(i, n)
  PROVE  LeftBy(i, n)'
<1>2. CASE n = 0 /\ AtStart(i)
  BY <1>2 DEF LeftBy, AtStart, Carried
<1>3. CASE n \in Calls /\ Saved(i, n)
  <2>1. edits[n].pc # "read"
    BY <1>3 DEF Saved, Changed, Following
  <2>2. Saved(i, n)'
    BY <1>3, <2>1 DEF Saved, Saving, Onward, Carried, Body, Changed, Following
  <2>3. n \in Calls'
    BY <1>3 DEF Onward, Calls
  <2> QED
    BY <2>2, <2>3 DEF LeftBy
<1>4. CASE n \in Calls /\ Added(i, n)
  <2>1. Added(i, n)'
    BY <1>4 DEF Added, Onward, Carried, Body
  <2>2. n \in Calls'
    BY <1>4 DEF Onward, Calls
  <2> QED
    BY <2>1, <2>2 DEF LeftBy
<1> QED
  BY <1>2, <1>3, <1>4 DEF LeftBy

LEMMA StoredStays ==
  ASSUME Base, Onward, \A j \in DOMAIN stored' : Carried(j)
  PROVE  StoredOK' /\ Distinct'
<1>1. \A j \in DOMAIN stored : touched[j].wrote \in Calls \cup {0}
  BY DEF Base, Shapes, StoreShapes, History, By
<1>2. ASSUME NEW j \in DOMAIN stored', NEW n, touched'[j].wrote = n
      PROVE  LeftBy(j, n)'
  <2>1. LeftBy(j, n)
    BY <1>1, <1>2 DEF Base, StoredOK, Carried
  <2> QED
    BY <2>1, LeftByStays
<1>3. StoredOK'
  BY <1>2 DEF StoredOK
<1>4. \A a, b \in Calls \cup {0} : (Overlap(a, b) => Overlap(a, b)') /\ (Raced(a, b) => Raced(a, b)')
  BY OverlapStays
<1>5. Distinct'
  <2> SUFFICES ASSUME NEW i \in DOMAIN stored', NEW j \in DOMAIN stored', NEW m, NEW n,
                      i # j, touched'[i].wrote = m, touched'[j].wrote = n
               PROVE  /\ stored'[i].name = stored'[j].name => ~NamesIndexed /\ Raced(m, n)'
                      /\ stored'[i].auth /\ stored'[j].auth => Overlap(m, n)'
    BY DEF Distinct
  <2>1. Carried(i) /\ Carried(j)
    OBVIOUS
  <2>2. m \in Calls \cup {0} /\ n \in Calls \cup {0} /\ touched[i].wrote = m /\ touched[j].wrote = n
    BY <1>1, <2>1 DEF Carried
  <2>3. /\ stored[i].name = stored[j].name => ~NamesIndexed /\ Raced(m, n)
        /\ stored[i].auth /\ stored[j].auth => Overlap(m, n)
    BY <2>1, <2>2 DEF Base, Distinct, Carried
  <2> QED
    BY <1>4, <2>1, <2>2, <2>3 DEF Carried
<1> QED
  BY <1>3, <1>5

\* Two containers of one name.
LEMMA NameShared ==
  ASSUME Base, NEW i \in DOMAIN stored, NEW j \in DOMAIN stored, i # j, stored[i].name = stored[j].name
  PROVE  Shared(stored[i].name)
<1>1. PICK a \in Calls \cup {0} : touched[i].wrote = a
  BY DEF Base, Shapes, StoreShapes, History, By
<1>2. PICK b \in Calls \cup {0} : touched[j].wrote = b
  BY DEF Base, Shapes, StoreShapes, History, By
<1>3. ~NamesIndexed /\ Raced(a, b)
  BY <1>1, <1>2 DEF Base, Distinct
<1>4. a \in Calls /\ b \in Calls /\ a # 0 /\ b # 0
  BY <1>3 DEF Raced, Overlap
<1>5. LeftBy(i, a) /\ LeftBy(j, b) /\ stored[i].name # ""
  BY <1>1, <1>2 DEF Base, StoredOK, Shapes, StoreShapes, Container
<1>6. stored[i].name \in Gives(a)
  BY <1>4, <1>5 DEF LeftBy, Saved, Added, Gives
<1>7. stored[i].name \in Gives(b)
  BY <1>4, <1>5 DEF LeftBy, Saved, Added, Gives
<1> QED
  BY <1>3, <1>4, <1>6, <1>7 DEF Shared, Calls

-----------------------------------------------------------------------------
(* Base is inductive: how a step of the call n keeps it.                     *)

LEMMA AskKept ==
  ASSUME CallShapes, NEW n \in Calls, NEW pc, Turn(n, pc),
         edits'[n].ask = edits[n].ask, edits'[n].old.name = edits[n].old.name, Live(n),
         edits[n].pc \in Changed => pc \in Changed \cup {"done", "failed"},
         pc \in {"read"} \cup Early => edits[n].pc \in {"read"} \cup Early
  PROVE  Onward
<1>1. DOMAIN edits' = Calls /\ \A m \in Calls \ {n} : edits'[m] = edits[m]
  BY DEF Turn, Calls
<1>2. edits[n].pc \notin {"done", "failed"}
  BY DEF Live, Over
<1>3. edits'[n].pc = pc /\ edits'[n].with = edits[n].with /\ Body(n)' = Body(n)
  BY DEF Turn, Body
<1>4. \A m \in Calls \ {n} : Body(m)' = Body(m)
  BY <1>1 DEF Body
<1> QED
  BY <1>1, <1>2, <1>3, <1>4 DEF Onward

\* What is still to be shown of a step of n, of n itself and of the containers.
LEMMA BaseStep ==
  ASSUME Base, NEW n \in Calls, Live(n), NEW pc, Turn(n, pc), Onward, StoreStep(n),
         StoreShapes', ListShapes', StoredOK', Distinct',
         PlaceOK(n)', IdOK(n)', ReadOK(n)', TodoOK(n)', ClearOK(n)', NamesOK(n)'
  PROVE  Base'
<1>1. Calls' = Calls /\ \A m \in Calls \ {n} : edits'[m] = edits[m]
  BY DEF Turn, Calls
<1>2. CallShapes'
  BY <1>1 DEF Turn, CallShapes, Base, Shapes
<1>3. \A m \in Calls \ {n} : CallOK(m)' /\ NamesOK(m)'
  <2> TAKE m \in Calls \ {n}
  <2>1. Beside(m)
    BY StepBeside
  <2>2. \A k \in Calls' \ Calls : k = Len(edits) + 1
    BY <1>1
  <2> QED
    BY <1>1, <2>1, <2>2, OthersCallOK, OthersNamesOK
<1>4. Met(n)'
  <2>1. \A k \in Calls' \ Calls : k = Len(edits) + 1
    BY <1>1
  <2> QED
    BY <2>1, MetStays DEF Turn
<1>5. CallOK(n)'
  BY <1>4 DEF CallOK
<1> QED
  BY <1>1, <1>2, <1>3, <1>5 DEF Base, Shapes

\* The call ends, whatever it comes from.
LEMMA EndStep ==
  ASSUME Base, NEW n \in Calls, Live(n), NEW pc, Ended(n, pc),
         edits[n].pc \in Changed => pc # "refused",
         UNCHANGED <<stored, touched>>, ListShapes'
  PROVE  Base' /\ Onward
<1>1. pc \in {"done", "refused", "failed"} /\ edits'[n].pc = pc /\ Turn(n, pc)
  BY DEF Ended, Over, Turn
<1>2. Onward
  BY <1>1, AskKept DEF Ended, Base, Shapes, Changed, Following, Early
<1>3. Calls' = Calls
  BY DEF Ended, Turn, Calls
<1>4. StoreStep(n) /\ StoreShapes'
  BY <1>3, QuietStep DEF Base, Shapes
<1>5. StoredOK' /\ Distinct'
  <2>1. \A j \in DOMAIN stored' : Carried(j)
    BY DEF Carried
  <2> QED
    BY <1>2, <2>1, StoredStays
<1>6. PlaceOK(n)' /\ ReadOK(n)' /\ TodoOK(n)'
  BY <1>1 DEF PlaceOK, ReadOK, TodoOK, Over, Writing, Early, Changed, Following
<1>7. IdOK(n)'
  <2>1. IdOK(n)
    BY DEF Base, CallOK
  <2> QED
    BY <1>1, <2>1 DEF IdOK, Ended, Body, Live, Over, Writing, Early, Changed, Following
<1>8. ClearOK(n)'
  BY <1>1 DEF ClearOK, HasSaved, Ended, Changed, Following
<1>9. NamesOK(n)'
  BY <1>1 DEF NamesOK, NameOK, AuthOK, RoleOK, OldOK, OwnOK, HasSaved, Live, Over, Writing, Early, Changed, Following
<1> QED
  BY <1>1, <1>2, <1>4, <1>5, <1>6, <1>7, <1>8, <1>9, BaseStep

\* Only the indexes change.
LEMMA SameBase ==
  ASSUME Base, UNCHANGED <<stored, listed, edits, touched>>
  PROVE  Base' /\ Onward
<1>1. Onward
  BY DEF Onward, Body, Calls
<1>2. Calls' = Calls /\ CallShapes' /\ ListShapes'
  BY DEF Base, Shapes, CallShapes, ListShapes, Calls, Sequential
<1>3. StoreShapes'
  BY <1>2, QuietStep DEF Base, Shapes
<1>4. StoredOK' /\ Distinct'
  <2>1. \A j \in DOMAIN stored' : Carried(j)
    BY DEF Carried
  <2> QED
    BY <1>1, <2>1, StoredStays
<1>5. \A n \in Calls : CallOK(n)' /\ NamesOK(n)'
  <2> TAKE n \in Calls
  <2>1. Beside(n)
    BY QuietBeside DEF Base, Shapes
  <2> QED
    BY <1>1, <1>2, <2>1, OthersCallOK, OthersNamesOK
<1> QED
  BY <1>1, <1>2, <1>3, <1>4, <1>5 DEF Base, Shapes

-----------------------------------------------------------------------------
(* Base is inductive: the steps that leave the containers as they are.       *)

LEMMA ListsStay ==
  ASSUME Base, Calls \subseteq Calls', DOMAIN touched \subseteq DOMAIN touched', UNCHANGED listed
  PROVE  ListShapes'
BY DEF Base, Shapes, ListShapes

LEMMA NumbersStay ==
  ASSUME NEW n, NEW pc, Turn(n, pc)
  PROVE  Calls' = Calls
BY DEF Turn, Calls

LEMMA AtCall ==
  ASSUME Base, NEW n, NEW pc, At(n, pc), pc \notin Over
  PROVE  n \in Calls /\ Live(n) /\ edits[n].pc = pc /\ IsCall(edits[n]) /\ Sequential /\ CallOK(n) /\ NamesOK(n)
BY DEF At, Calls, Live, Base, Shapes, CallShapes

\* What the step of n leaves true of the names it has looked for.
LEMMA FreeStays ==
  ASSUME Base, Onward, NEW n \in Calls, Body(n)'.id = Body(n).id, Body(n)'.name = Body(n).name,
         \A j \in DOMAIN stored' \ {Body(n).id} : Carried(j)
  PROVE  /\ NameFree(n) => NameFree(n)'
         /\ AuthFree(n) => AuthFree(n)'
         /\ OldFree(n) /\ edits'[n].old.name = edits[n].old.name => OldFree(n)'
         /\ RoleFree(n) /\ (Body(n).id \in DOMAIN stored' => Carried(Body(n).id)) => RoleFree(n)'
         /\ Own(n) /\ Body(n).id \in DOMAIN stored' /\ Carried(Body(n).id) => Own(n)'
<1>1. \A w \in Calls \cup {0} : (Overlap(w, n) => Overlap(w, n)') /\ (Raced(w, n) => Raced(w, n)')
  BY OverlapStays
<1>2. \A j \in DOMAIN stored : touched[j].wrote \in Calls \cup {0}
  BY DEF Base, Shapes, StoreShapes, History, By
<1>3. \A name : Shared(name) => Shared(name)'
  BY SharedStays
<1>4. NameFree(n) => NameFree(n)'
  BY <1>1, <1>2 DEF NameFree, Carried, Raced, Overlap
<1>5. AuthFree(n) => AuthFree(n)'
  BY <1>1, <1>2 DEF AuthFree, Carried, Overlap
<1>6. OldFree(n) /\ edits'[n].old.name = edits[n].old.name => OldFree(n)'
  BY <1>1, <1>2, <1>3 DEF OldFree, Carried, Overlap, Shared
<1>7. RoleFree(n) /\ (Body(n).id \in DOMAIN stored' => Carried(Body(n).id)) => RoleFree(n)'
  BY <1>1, <1>2 DEF RoleFree, Carried, Overlap
<1>8. Own(n) /\ Body(n).id \in DOMAIN stored' /\ Carried(Body(n).id) => Own(n)'
  BY <1>1, <1>2 DEF Own, Carried, Overlap
<1> QED
  BY <1>4, <1>5, <1>6, <1>7, <1>8

LEMMA NowFacts ==
  ASSUME NEW n \in Calls, NEW pc, NEW found, NEW todo, NEW clear, Now(n, pc, found, todo, clear)
  PROVE  /\ Calls' = Calls /\ edits'[n].pc = pc /\ pc \notin Over /\ Body(n)' = Body(n)
         /\ edits'[n].old = edits[n].old /\ edits'[n].found = found
         /\ edits'[n].todo = todo /\ edits'[n].clear = clear
         /\ (Saving(n)' <=> Saving(n)) /\ Refs(n)' = Refs(n)
         /\ Dropped(n)' = Dropped(n) /\ Kept(n)' = Kept(n) /\ Live(n)'
BY DEF Now, Turn, Calls, Body, Saving, Refs, Dropped, Kept, Live

\* A step of n that checks, or goes on to what comes next, and writes no container
\* but its list of caches.
LEMMA CarryStep ==
  ASSUME Base, NEW n \in Calls, Live(n), NEW pc, NEW found, NEW todo, NEW clear, Now(n, pc, found, todo, clear),
         StoreStep(n), StoreShapes', DOMAIN stored' \subseteq DOMAIN stored, DOMAIN touched' = DOMAIN touched,
         \A j \in DOMAIN stored' : Carried(j), DOMAIN listed' \subseteq DOMAIN listed, \A k \in DOMAIN listed' : listed'[k] = listed[k],
         edits[n].pc # "read", pc # "read",
         edits[n].pc \in Changed <=> pc \in Changed, edits[n].pc \in Writing <=> pc \in Writing,
         pc \in Early => edits[n].pc \in Early,
         pc = "fill" => Body(n).id \in DOMAIN touched \cup {All},
         pc \in {"auth", "role", "newRole"} => TRUE \in Body(n).auth,
         pc = "retire" => edits[n].old.name = Body(n).name,
         NameFree(n) \/ edits[n].pc # "name",
         AuthFree(n) \/ edits[n].pc \notin {"name", "auth"} \/ pc = "auth" \/ TRUE \notin Body(n).auth,
         RoleFree(n) \/ pc # "newRole",
         PlaceOK(n)', TodoOK(n)', ClearOK(n)'
  PROVE  Base' /\ Onward
<1>1. /\ Calls' = Calls /\ edits'[n].pc = pc /\ pc \notin Over /\ Body(n)' = Body(n)
      /\ edits'[n].old = edits[n].old /\ (Saving(n)' <=> Saving(n)) /\ Live(n)'
  BY NowFacts
<1>2. CallOK(n) /\ NamesOK(n)
  BY DEF Base
<1>3. Onward
  BY <1>1, AskKept DEF Now, Base, Shapes
<1>4. IdOK(n)'
  BY <1>1, <1>2 DEF CallOK, IdOK, Live
<1>5. ReadOK(n)'
  BY <1>1, <1>2 DEF CallOK, ReadOK
<1>6. StoredOK' /\ Distinct'
  BY <1>3, StoredStays
<1>7. /\ NameFree(n) => NameFree(n)'
      /\ AuthFree(n) => AuthFree(n)'
      /\ OldFree(n) => OldFree(n)'
      /\ RoleFree(n) => RoleFree(n)'
      /\ Own(n) /\ Body(n).id \in DOMAIN stored' => Own(n)'
  BY <1>1, <1>3, FreeStays
<1>8. NameOK(n)'
  BY <1>1, <1>2, <1>7 DEF NamesOK, NameOK, Writing
<1>9. AuthOK(n)'
  BY <1>1, <1>2, <1>7 DEF NamesOK, AuthOK, Writing, Changed, Following
<1>10. RoleOK(n)' /\ OldOK(n)' /\ OwnOK(n)'
  BY <1>1, <1>2, <1>7 DEF NamesOK, RoleOK, OldOK, OwnOK, HasSaved
<1>11. ListShapes'
  BY <1>1 DEF Base, Shapes, ListShapes
<1> QED
  BY <1>1, <1>3, <1>4, <1>5, <1>6, <1>8, <1>9, <1>10, <1>11, BaseStep DEF NamesOK, Now

LEMMA PassStep ==
  ASSUME Base, NEW n \in Calls, Live(n), NEW pc, NEW found, NEW todo, NEW clear, Now(n, pc, found, todo, clear),
         UNCHANGED <<stored, touched>>, DOMAIN listed' \subseteq DOMAIN listed, \A k \in DOMAIN listed' : listed'[k] = listed[k],
         edits[n].pc # "read", pc # "read",
         edits[n].pc \in Changed <=> pc \in Changed, edits[n].pc \in Writing <=> pc \in Writing,
         pc \in Early => edits[n].pc \in Early,
         pc = "fill" => Body(n).id \in DOMAIN touched \cup {All},
         pc \in {"auth", "role", "newRole"} => TRUE \in Body(n).auth,
         pc = "retire" => edits[n].old.name = Body(n).name,
         NameFree(n) \/ edits[n].pc # "name",
         AuthFree(n) \/ edits[n].pc \notin {"name", "auth"} \/ pc = "auth" \/ TRUE \notin Body(n).auth,
         RoleFree(n) \/ pc # "newRole",
         PlaceOK(n)', TodoOK(n)', ClearOK(n)'
  PROVE  Base' /\ Onward
<1>1. Calls' = Calls
  BY NowFacts
<1>2. StoreStep(n) /\ StoreShapes'
  BY <1>1, QuietStep DEF Base, Shapes
<1>3. \A j \in DOMAIN stored' : Carried(j)
  BY DEF Carried
<1> QED
  BY <1>2, <1>3, CarryStep

LEMMA EndBase ==
  ASSUME Base, NEW n \in Calls, Live(n), NEW pc \in Over, Goes(n, pc), UNCHANGED <<stored, touched, listed>>,
         edits[n].pc \in Changed => pc # "refused"
  PROVE  Base' /\ Onward /\ Ended(n, pc)
<1>1. Ended(n, pc)
  BY Going DEF Base, Shapes, CallShapes
<1>2. Calls' = Calls
  BY <1>1, NumbersStay DEF Ended
<1>3. ListShapes'
  BY <1>2, ListsStay
<1> QED
  BY <1>1, <1>3, EndStep

LEMMA CheckNameBase ==
  ASSUME Base, NEW n, CheckName(n)
  PROVE  Base' /\ Onward
<1>1. n \in Calls /\ Live(n) /\ edits[n].pc = "name" /\ IsCall(edits[n]) /\ Sequential /\ CallOK(n)
  BY AtCall DEF CheckName, Over
<1> DEFINE pc == IF Named(Body(n).name) \cap Others(n) # {} THEN "refused"
                 ELSE IF TRUE \in Body(n).auth THEN "auth" ELSE "refs"
<1>2. Goes(n, pc) /\ UNCHANGED <<stored, touched, listed>>
  BY DEF CheckName, Only
<1>3. pc = "refused" \/ (pc = "auth" /\ TRUE \in Body(n).auth) \/ (pc = "refs" /\ TRUE \notin Body(n).auth)
  OBVIOUS
<1>4. pc # "refused" => NameFree(n)
  BY DEF Named, Others, NameFree
<1> HIDE DEF pc
<1>5. CASE pc = "refused"
  BY <1>1, <1>2, <1>5, EndBase DEF Over, Changed, Following
<1>6. CASE pc # "refused"
  <2>1. Now(n, pc, edits[n].found, edits[n].todo, edits[n].clear)
    BY <1>1, <1>2, <1>3, <1>6, Going DEF Over
  <2>2. /\ edits'[n].pc = pc /\ Body(n)' = Body(n) /\ Saving(n)' /\ Refs(n)' = Refs(n)
        /\ edits'[n].found = <<>> /\ edits'[n].todo = Refs(n) /\ edits'[n].clear = {}
    BY <1>1, <2>1, NowFacts DEF CallOK, TodoOK, ClearOK, PlaceOK, Saving, Early, Changed, Following, Over
  <2>3. PlaceOK(n)' /\ ClearOK(n)'
    BY <1>3, <1>6, <2>2 DEF PlaceOK, ClearOK, HasSaved, Writing, Early, Changed, Following
  <2>4. TodoOK(n)'
    <3>1. pc \in {"auth", "refs"}
      BY <1>3, <1>6
    <3>2. DOMAIN <<>> = {}
      OBVIOUS
    <3> QED
      BY <2>2, <3>1, <3>2 DEF TodoOK, Writing, Early, Changed, Following
  <2> QED
    BY <1>1, <1>2, <1>3, <1>4, <1>6, <2>1, <2>3, <2>4, PassStep DEF Changed, Following, Writing, Early
<1> QED
  BY <1>5, <1>6

LEMMA CheckAuthBase ==
  ASSUME Base, NEW n, CheckAuth(n)
  PROVE  Base' /\ Onward
<1>1. /\ n \in Calls /\ Live(n) /\ edits[n].pc = "auth" /\ IsCall(edits[n]) /\ Sequential
      /\ CallOK(n) /\ TRUE \in Body(n).auth
  BY AtCall DEF CheckAuth, Over, CallOK, ReadOK
<1> DEFINE pc == IF \E i \in Others(n) : stored[i].auth THEN "refused" ELSE "role"
<1>2. Goes(n, pc) /\ UNCHANGED <<stored, touched, listed>>
  BY DEF CheckAuth, Only
<1>3. pc = "refused" \/ pc = "role"
  OBVIOUS
<1>4. pc # "refused" => AuthFree(n)
  BY DEF Others, AuthFree
<1> HIDE DEF pc
<1>5. CASE pc = "refused"
  BY <1>1, <1>2, <1>5, EndBase DEF Over, Changed, Following
<1>6. CASE pc # "refused"
  <2>1. Now(n, pc, edits[n].found, edits[n].todo, edits[n].clear)
    BY <1>1, <1>2, <1>3, <1>6, Going DEF Over
  <2>2. /\ edits'[n].pc = pc /\ Body(n)' = Body(n) /\ Saving(n)' /\ Refs(n)' = Refs(n)
        /\ edits'[n].found = <<>> /\ edits'[n].todo = Refs(n) /\ edits'[n].clear = {}
    BY <1>1, <2>1, NowFacts DEF CallOK, TodoOK, ClearOK, PlaceOK, Saving, Early, Changed, Following, Over
  <2>3. PlaceOK(n)' /\ TodoOK(n)' /\ ClearOK(n)'
    BY <1>3, <1>6, <2>2 DEF PlaceOK, TodoOK, ClearOK, HasSaved, Writing, Early, Changed, Following
  <2> QED
    BY <1>1, <1>2, <1>3, <1>4, <1>6, <2>1, <2>3, PassStep DEF Changed, Following, Writing, Early
<1> QED
  BY <1>5, <1>6

LEMMA CheckRoleBase ==
  ASSUME Base, NEW n, CheckRole(n)
  PROVE  Base' /\ Onward
<1>1. /\ n \in Calls /\ Live(n) /\ edits[n].pc = "role" /\ IsCall(edits[n]) /\ Sequential
      /\ CallOK(n) /\ TRUE \in Body(n).auth
  BY AtCall DEF CheckRole, Over, CallOK, ReadOK
<1> DEFINE pc == IF Named("role") # {} THEN "refs" ELSE "newRole"
<1>2. Goes(n, pc) /\ UNCHANGED <<stored, touched, listed>>
  BY DEF CheckRole, Only
<1>3. pc = "refs" \/ pc = "newRole"
  OBVIOUS
<1>4. pc = "newRole" => RoleFree(n)
  BY DEF Named, RoleFree
<1> HIDE DEF pc
<1>5. Now(n, pc, edits[n].found, edits[n].todo, edits[n].clear)
  BY <1>1, <1>2, <1>3, Going DEF Over
<1>6. /\ edits'[n].pc = pc /\ Body(n)' = Body(n) /\ Saving(n)' /\ Refs(n)' = Refs(n)
      /\ edits'[n].found = <<>> /\ edits'[n].todo = Refs(n) /\ edits'[n].clear = {}
  BY <1>1, <1>5, NowFacts DEF CallOK, TodoOK, ClearOK, PlaceOK, Saving, Early, Changed, Following, Over
<1>7. PlaceOK(n)' /\ TodoOK(n)' /\ ClearOK(n)'
  BY <1>3, <1>6 DEF PlaceOK, TodoOK, ClearOK, HasSaved, Writing, Early, Changed, Following
<1> QED
  BY <1>1, <1>2, <1>3, <1>4, <1>5, <1>7, PassStep DEF Changed, Following, Writing, Early

\* The reference r is found to be the container i.
LEMMA ReferenceFound ==
  ASSUME Base, NEW n, At(n, "refs"), NEW r \in edits[n].todo, NEW i \in Named(r) \ {Body(n).id},
         Becomes(n, [edits[n] EXCEPT !.todo = @ \ {r}, !.found = Put(@, r, i)])
  PROVE  Now(n, "refs", Put(edits[n].found, r, i), edits[n].todo \ {r}, edits[n].clear)
<1>1. n \in Calls /\ Live(n) /\ edits[n].pc = "refs" /\ IsCall(edits[n]) /\ Sequential
  BY AtCall DEF Over
<1> QED
  BY <1>1, Finds

LEMMA CheckReferenceBase ==
  ASSUME Base, NEW n, CheckReference(n)
  PROVE  Base' /\ Onward
<1>1. /\ n \in Calls /\ Live(n) /\ edits[n].pc = "refs" /\ IsCall(edits[n]) /\ Sequential
      /\ CallOK(n) /\ At(n, "refs")
  BY AtCall DEF CheckReference, Over
<1> Saving(n)
  BY <1>1 DEF CallOK, PlaceOK, Saving, Over
<1>2. UNCHANGED <<stored, touched, listed>>
  BY DEF CheckReference
<1>3. CASE edits[n].todo = {} /\ Goes(n, "index")
  <2>1. Now(n, "index", edits[n].found, edits[n].todo, edits[n].clear)
    BY <1>1, <1>3, Going DEF Over
  <2>2. /\ edits'[n].pc = "index" /\ Body(n)' = Body(n) /\ Saving(n)' /\ Refs(n)' = Refs(n)
        /\ edits'[n].found = edits[n].found /\ edits'[n].clear = {}
    BY <1>1, <2>1, NowFacts DEF CallOK, ClearOK, Changed, Following
  <2>3. PlaceOK(n)' /\ TodoOK(n)' /\ ClearOK(n)'
    BY <1>1, <1>3, <2>2 DEF CallOK, PlaceOK, TodoOK, ClearOK, HasSaved, Writing, Early, Changed, Following
  <2>4. /\ edits[n].pc \in Writing \ Changed /\ edits[n].pc \notin {"read", "name", "auth"}
        /\ "index" \in Writing \ (Changed \cup Early) /\ "index" \notin {"read", "fill", "retire", "newRole"}
    BY <1>1 DEF Changed, Following, Writing, Early
  <2>5. "index" \notin {"auth", "role", "newRole"}
    OBVIOUS
  <2> QED
    BY <1>1, <1>2, <2>1, <2>3, <2>4, <2>5, PassStep
<1>4. CASE Goes(n, "refused")
  BY <1>1, <1>2, <1>4, EndBase DEF Over, Changed, Following
<1>5. ASSUME NEW r \in edits[n].todo, NEW i \in Named(r) \ {Body(n).id},
             Becomes(n, [edits[n] EXCEPT !.todo = @ \ {r}, !.found = Put(@, r, i)])
      PROVE  Base' /\ Onward
  <2> DEFINE found == Put(edits[n].found, r, i)
             todo == edits[n].todo \ {r}
  <2>1. Now(n, "refs", found, todo, edits[n].clear)
    BY <1>1, <1>5, ReferenceFound
  <2>2. DOMAIN found = DOMAIN edits[n].found \cup {r} /\ \A x \in DOMAIN found : found[x] = IF x = r THEN i ELSE edits[n].found[x]
    BY DEF Put
  <2> HIDE DEF found
  <2>3. /\ edits'[n].pc = "refs" /\ Body(n)' = Body(n) /\ Saving(n)' /\ Refs(n)' = Refs(n)
        /\ edits'[n].found = found /\ edits'[n].todo = todo /\ edits'[n].clear = {}
    BY <1>1, <2>1, NowFacts DEF CallOK, ClearOK, Changed, Following
  <2>4. PlaceOK(n)' /\ ClearOK(n)'
    BY <2>3 DEF PlaceOK, ClearOK, HasSaved, Writing, Early, Changed, Following
  <2>5. TodoOK(n)'
    BY <1>1, <1>5, <2>2, <2>3 DEF CallOK, TodoOK, Writing, Early, Changed, Following
  <2> QED
    BY <1>1, <1>2, <2>1, <2>4, <2>5, PassStep DEF Changed, Following, Writing, Early
<1> QED
  BY <1>3, <1>4, <1>5 DEF CheckReference

LEMMA EnsureIndexesBase ==
  ASSUME Base, NEW n, EnsureIndexes(n)
  PROVE  Base' /\ Onward
<1>1. /\ n \in Calls /\ Live(n) /\ edits[n].pc = "index" /\ IsCall(edits[n]) /\ Sequential /\ CallOK(n)
  BY AtCall DEF EnsureIndexes, Over
<1> Saving(n)
  BY <1>1 DEF CallOK, PlaceOK, Saving, Over
<1> DEFINE pc == IF edits[n].old.name = Body(n).name THEN "retire" ELSE "write"
<1>2. UNCHANGED <<stored, touched, listed>> /\ (Goes(n, pc) \/ Goes(n, "failed"))
  BY DEF EnsureIndexes
<1>3. (pc = "retire" /\ edits[n].old.name = Body(n).name) \/ pc = "write"
  OBVIOUS
<1> HIDE DEF pc
<1>4. CASE Goes(n, "failed")
  BY <1>1, <1>2, <1>4, EndBase DEF Over, Changed, Following
<1>5. CASE Goes(n, pc)
  <2>1. Now(n, pc, edits[n].found, edits[n].todo, edits[n].clear)
    BY <1>1, <1>3, <1>5, Going DEF Over
  <2>2. /\ edits'[n].pc = pc /\ Body(n)' = Body(n) /\ Saving(n)' /\ Refs(n)' = Refs(n)
        /\ edits'[n].found = edits[n].found /\ edits'[n].clear = {}
    BY <1>1, <2>1, NowFacts DEF CallOK, ClearOK, Changed, Following
  <2>3. PlaceOK(n)' /\ TodoOK(n)' /\ ClearOK(n)'
    BY <1>1, <1>3, <2>2 DEF CallOK, PlaceOK, TodoOK, ClearOK, HasSaved, Writing, Early, Changed, Following
  <2>4. /\ edits[n].pc \in Writing \ Changed /\ edits[n].pc \notin {"read", "name", "auth"}
        /\ pc \in Writing \ (Changed \cup Early) /\ pc \notin {"read", "fill", "newRole", "auth", "role"}
    BY <1>1, <1>3 DEF Changed, Following, Writing, Early
  <2> QED
    BY <1>1, <1>2, <1>3, <2>1, <2>3, <2>4, PassStep
<1> QED
  BY <1>2, <1>4, <1>5

LEMMA RetireBase ==
  ASSUME Base, NEW n, Retire(n)
  PROVE  Base' /\ Onward
<1>1. /\ n \in Calls /\ Live(n) /\ edits[n].pc = "retire" /\ IsCall(edits[n]) /\ Sequential /\ CallOK(n)
  BY AtCall DEF Retire, Over
<1> Saving(n)
  BY <1>1 DEF CallOK, PlaceOK, Saving, Over
<1>2. UNCHANGED <<stored, touched, listed>> /\ (Goes(n, "write") \/ UNCHANGED edits)
  BY DEF Retire
<1>3. CASE UNCHANGED edits
  BY <1>2, <1>3, SameBase
<1>4. CASE Goes(n, "write")
  <2>1. Now(n, "write", edits[n].found, edits[n].todo, edits[n].clear)
    BY <1>1, <1>4, Going DEF Over
  <2>2. /\ edits'[n].pc = "write" /\ Body(n)' = Body(n) /\ Saving(n)' /\ Refs(n)' = Refs(n)
        /\ edits'[n].found = edits[n].found /\ edits'[n].clear = {}
    BY <1>1, <2>1, NowFacts DEF CallOK, ClearOK, Changed, Following
  <2>3. PlaceOK(n)' /\ TodoOK(n)' /\ ClearOK(n)'
    BY <1>1, <2>2 DEF CallOK, PlaceOK, TodoOK, ClearOK, HasSaved, Writing, Early, Changed, Following
  <2>4. /\ edits[n].pc \in Writing \ Changed /\ edits[n].pc \notin {"read", "name", "auth"}
        /\ "write" \in Writing \ (Changed \cup Early) /\ "write" \notin {"read", "fill", "newRole", "auth", "role", "retire"}
    BY <1>1 DEF Changed, Following, Writing, Early
  <2>5. "write" \notin {"auth", "role", "newRole"}
    OBVIOUS
  <2> QED
    BY <1>1, <1>2, <2>1, <2>3, <2>4, <2>5, PassStep
<1> QED
  BY <1>2, <1>3, <1>4

LEMMA DropCollectionBase ==
  ASSUME Base, NEW n, DropCollection(n)
  PROVE  Base' /\ Onward
<1>1. /\ n \in Calls /\ Live(n) /\ edits[n].pc = "drop" /\ IsCall(edits[n]) /\ Sequential /\ CallOK(n)
  BY AtCall DEF DropCollection, Over
<1> Body(n).do = "delete" /\ ~Saving(n)
  BY <1>1 DEF CallOK, PlaceOK, Saving, Over, Writing, Early, Following
<1>2. UNCHANGED <<stored, touched, listed>> /\ Goes(n, "reclear")
  BY DEF DropCollection
<1>3. Now(n, "reclear", edits[n].found, edits[n].todo, edits[n].clear)
  BY <1>1, <1>2, Going DEF Over
<1>4. /\ edits'[n].pc = "reclear" /\ Body(n)' = Body(n) /\ ~Saving(n)'
      /\ edits'[n].found = edits[n].found /\ edits'[n].clear = edits[n].clear
  BY <1>1, <1>3, NowFacts
<1>5. PlaceOK(n)' /\ TodoOK(n)' /\ ClearOK(n)'
  BY <1>1, <1>4 DEF CallOK, PlaceOK, TodoOK, ClearOK, HasSaved, Writing, Early, Changed, Following
<1>6. /\ edits[n].pc \in Changed \ Writing /\ edits[n].pc \notin {"read", "name", "auth"}
      /\ "reclear" \in Changed \ (Writing \cup Early) /\ "reclear" \notin {"read", "fill", "newRole", "auth", "role", "retire"}
  BY <1>1 DEF Changed, Following, Writing, Early
<1>7. "reclear" \notin {"auth", "role", "newRole"}
  OBVIOUS
<1> QED
  BY <1>1, <1>2, <1>3, <1>5, <1>6, <1>7, PassStep

LEMMA ClearBase ==
  ASSUME Base, NEW n, Clear(n)
  PROVE  Base' /\ Onward
<1>1. /\ n \in Calls /\ Live(n) /\ edits[n].pc \in {"clear", "reclear"} /\ IsCall(edits[n]) /\ Sequential /\ CallOK(n)
  BY AtCall DEF Clear, Over
<1> DEFINE pc == IF At(n, "reclear") THEN "done" ELSE IF Body(n).do = "delete" THEN "drop" ELSE "trigger"
<1>2. UNCHANGED <<stored, touched>>
  BY DEF Clear
<1>3. PICK works \in BOOLEAN :
        /\ listed' = IF works THEN [k \in DOMAIN listed \ edits[n].clear |-> listed[k]] ELSE listed
        /\ Becomes(n, [edits[n] EXCEPT !.pc = pc, !.cleared = works])
  BY DEF Clear
<1>4. DOMAIN listed' \subseteq DOMAIN listed /\ \A k \in DOMAIN listed' : listed'[k] = listed[k]
  BY <1>3
<1>5. \/ pc = "done"
      \/ edits[n].pc = "clear" /\ Body(n).do = "delete" /\ pc = "drop"
      \/ edits[n].pc = "clear" /\ Saving(n) /\ pc = "trigger"
  BY <1>1 DEF At, Calls, CallOK, PlaceOK, Saving, Over
<1> HIDE DEF pc
<1>6. /\ pc \notin Over => Now(n, pc, edits[n].found, edits[n].todo, edits[n].clear)
      /\ pc \in Over => Ended(n, pc)
  BY <1>1, <1>3, Clears
<1>7. CASE pc = "done"
  <2>1. Ended(n, "done")
    BY <1>6, <1>7 DEF Over
  <2>2. ListShapes'
    BY <1>2, <1>4, <2>1 DEF Base, Shapes, ListShapes, Ended, Turn, Calls
  <2> QED
    BY <1>1, <1>2, <2>1, <2>2, EndStep
<1>8. CASE pc # "done"
  <2>1. Now(n, pc, edits[n].found, edits[n].todo, edits[n].clear)
    BY <1>5, <1>6, <1>8 DEF Over
  <2>2. /\ edits'[n].pc = pc /\ Body(n)' = Body(n) /\ (Saving(n)' <=> Saving(n)) /\ Refs(n)' = Refs(n)
        /\ edits'[n].found = edits[n].found /\ edits'[n].clear = edits[n].clear /\ edits'[n].todo = edits[n].todo
    BY <1>1, <2>1, NowFacts
  <2>3. PlaceOK(n)'
    BY <1>5, <1>8, <2>2 DEF PlaceOK, Saving, Following
  <2>4. TodoOK(n)' /\ ClearOK(n)'
    BY <1>1, <1>5, <1>8, <2>2 DEF CallOK, TodoOK, ClearOK, HasSaved, Writing, Early, Changed, Following, Saving
  <2>5. /\ edits[n].pc \in Changed \ Writing /\ edits[n].pc \notin {"read", "name", "auth"}
        /\ pc \in Changed \ (Writing \cup Early) /\ pc \notin {"read", "fill", "newRole", "auth", "role", "retire"}
    BY <1>1, <1>5, <1>8 DEF Changed, Following, Writing, Early
  <2> QED
    BY <1>1, <1>2, <1>4, <2>1, <2>3, <2>4, <2>5, PassStep
<1> QED
  BY <1>7, <1>8

LEMMA LookBase ==
  ASSUME Base, NEW n, Look(n)
  PROVE  Base' /\ Onward
<1>1. /\ n \in Calls /\ Live(n) /\ edits[n].pc = "look" /\ IsCall(edits[n]) /\ Sequential /\ CallOK(n)
  BY AtCall DEF Look, Over
<1> Body(n).do = "list" /\ ~Saving(n)
  BY <1>1 DEF CallOK, PlaceOK, Saving, Over, Writing, Early, Following
<1>2. UNCHANGED <<stored, touched, listed>> /\ (Goes(n, "find") \/ Goes(n, "done"))
  BY DEF Look, Only
<1>3. CASE Goes(n, "done")
  BY <1>1, <1>2, <1>3, EndBase DEF Over, Changed, Following
<1>4. CASE Goes(n, "find")
  <2>1. Now(n, "find", edits[n].found, edits[n].todo, edits[n].clear)
    BY <1>1, <1>4, Going DEF Over
  <2>2. edits'[n].pc = "find" /\ Body(n)' = Body(n) /\ ~Saving(n)' /\ edits'[n].clear = edits[n].clear
    BY <1>1, <2>1, NowFacts
  <2>3. PlaceOK(n)' /\ TodoOK(n)' /\ ClearOK(n)'
    BY <1>1, <2>2 DEF CallOK, PlaceOK, TodoOK, ClearOK, HasSaved, Writing, Early, Changed, Following
  <2>4. /\ edits[n].pc \notin Changed \cup Writing /\ edits[n].pc \notin {"read", "name", "auth"}
        /\ "find" \notin Changed \cup Writing \cup Early /\ "find" \notin {"read", "fill", "newRole", "auth", "role", "retire"}
    BY <1>1 DEF Changed, Following, Writing, Early
  <2>5. "find" \notin {"auth", "role", "newRole"}
    OBVIOUS
  <2> QED
    BY <1>1, <1>2, <2>1, <2>3, <2>4, <2>5, PassStep
<1> QED
  BY <1>2, <1>3, <1>4

LEMMA FindBase ==
  ASSUME Base, NEW n, Find(n)
  PROVE  Base' /\ Onward
<1>1. /\ n \in Calls /\ Live(n) /\ edits[n].pc = "find" /\ IsCall(edits[n]) /\ Sequential /\ CallOK(n)
  BY AtCall DEF Find, Over
<1> Body(n).do = "list" /\ ~Saving(n)
  BY <1>1 DEF CallOK, PlaceOK, Saving, Over, Writing, Early, Following
<1>2. UNCHANGED <<stored, touched, listed>>
  BY DEF Find
<1>3. CASE Goes(n, "refused")
  BY <1>1, <1>2, <1>3, EndBase DEF Over, Changed, Following
<1>4. CASE /\ ~(View(Body(n).id) = <<>> /\ Body(n).id # All)
           /\ Becomes(n, [edits[n] EXCEPT !.pc = "fill", !.found = View(Body(n).id)])
  <2>1. Now(n, "fill", View(Body(n).id), edits[n].todo, edits[n].clear)
    BY <1>1, <1>4, SetsFound DEF Over
  <2>2. edits'[n].pc = "fill" /\ Body(n)' = Body(n) /\ ~Saving(n)' /\ edits'[n].clear = edits[n].clear
    BY <1>1, <2>1, NowFacts
  <2>3. PlaceOK(n)' /\ TodoOK(n)' /\ ClearOK(n)'
    BY <1>1, <2>2 DEF CallOK, PlaceOK, TodoOK, ClearOK, HasSaved, Writing, Early, Changed, Following
  <2>4. /\ edits[n].pc \notin Changed \cup Writing /\ edits[n].pc \notin {"read", "name", "auth"}
        /\ "fill" \notin Changed \cup Writing \cup Early /\ "fill" \notin {"read", "newRole", "auth", "role", "retire"}
    BY <1>1 DEF Changed, Following, Writing, Early
  <2>5. "fill" \notin {"auth", "role", "newRole"}
    OBVIOUS
  <2>6. Body(n).id \in DOMAIN touched \cup {All}
    BY <1>4 DEF View, Base, Shapes, StoreShapes
  <2> QED
    BY <1>1, <1>2, <2>1, <2>3, <2>4, <2>5, <2>6, PassStep
<1> QED
  BY <1>3, <1>4 DEF Find

LEMMA FillBase ==
  ASSUME Base, NEW n, Fill(n)
  PROVE  Base' /\ Onward
<1>1. /\ n \in Calls /\ Live(n) /\ edits[n].pc = "fill" /\ IsCall(edits[n]) /\ Sequential /\ CallOK(n)
  BY AtCall DEF Fill, Over
<1>2. UNCHANGED <<stored, touched>> /\ Goes(n, "done") /\ listed' = Put(listed, Body(n).id, [view |-> edits[n].found, by |-> n])
  BY DEF Fill
<1>3. Ended(n, "done")
  BY <1>1, <1>2, Going DEF Over
<1>4. Calls' = Calls
  BY <1>3, NumbersStay DEF Ended
<1>5. ListShapes'
  <2> DEFINE entry == [view |-> edits[n].found, by |-> n]
  <2>1. entry.by = n
    OBVIOUS
  <2> HIDE DEF entry
  <2>2. /\ DOMAIN listed' = DOMAIN listed \cup {Body(n).id} /\ listed'[Body(n).id] = entry
        /\ \A k \in DOMAIN listed' \ {Body(n).id} : k \in DOMAIN listed /\ listed'[k] = listed[k]
    BY <1>2 DEF Put, entry
  <2>3. Body(n).id \in DOMAIN touched \cup {All}
    BY <1>1 DEF CallOK, IdOK
  <2> QED
    BY <1>1, <1>2, <1>4, <2>1, <2>2, <2>3 DEF ListShapes, Base, Shapes
<1> QED
  BY <1>1, <1>2, <1>3, <1>5, EndStep DEF Changed, Following

LEMMA BreaksBase ==
  ASSUME Base, NEW n, Breaks(n)
  PROVE  Base' /\ Onward
<1>1. n \in Calls /\ Live(n) /\ Goes(n, "failed") /\ UNCHANGED <<stored, touched, listed>>
  BY DEF Breaks, Running, Calls, Live, Only
<1> QED
  BY <1>1, EndBase DEF Over

LEMMA ReadBase ==
  ASSUME Base, NEW n, Read(n)
  PROVE  Base' /\ Onward
<1>1. /\ n \in Calls /\ Live(n) /\ edits[n].pc = "read" /\ IsCall(edits[n]) /\ Sequential /\ CallOK(n)
  BY AtCall DEF Read, Over
<1>2. Body(n).do \in {"update", "delete"} /\ (Saving(n) => Body(n).do = "update") /\ (Body(n).do = "update" => Saving(n))
  BY <1>1 DEF CallOK, PlaceOK, Saving, Over, Writing, Early, Following
<1>3. UNCHANGED <<stored, touched, listed>>
  BY DEF Read
<1>4. CASE Goes(n, "refused")
  BY <1>1, <1>3, <1>4, EndBase DEF Over, Changed, Following
<1> DEFINE i == Body(n).id
           pc == IF Body(n).do = "delete" THEN "remove" ELSE "name"
           auth == IF Body(n).auth = {} THEN {stored[i].auth} ELSE Body(n).auth
           ask == [edits[n].ask EXCEPT !.auth = auth]
<1>5. ASSUME i \in DOMAIN stored, Becomes(n, [edits[n] EXCEPT !.pc = pc, !.old = stored[i], !.ask.auth = auth])
      PROVE  Base' /\ Onward
  <2>1. (pc = "remove" /\ Body(n).do = "delete") \/ (pc = "name" /\ Body(n).do = "update")
    BY <1>2
  <2>2. TRUE \in Body(n).auth => TRUE \in auth
    OBVIOUS
  <2>3. /\ ask.do = Body(n).do /\ ask.id = i /\ ask.name = Body(n).name /\ ask.refs = Body(n).refs
        /\ ask.idx = Body(n).idx /\ ask.auth = auth
    BY <1>1 DEF IsCall, IsAsk, Has, Body
  <2> HIDE DEF pc, auth
  <2>4. /\ Turn(n, pc) /\ edits'[n].old = stored[i] /\ edits'[n].ask = ask
        /\ edits'[n].found = edits[n].found /\ edits'[n].todo = edits[n].todo /\ edits'[n].clear = edits[n].clear
    <3>1. pc \notin Over
      BY <2>1 DEF Over
    <3> QED
      BY <1>1, <1>5, <3>1, Reads
  <2> HIDE DEF ask
  <2>5. /\ Calls' = Calls /\ edits'[n].pc = pc /\ edits'[n].with = edits[n].with /\ Live(n)'
        /\ \A m \in Calls \ {n} : edits'[m] = edits[m] /\ Body(m)' = Body(m)
    BY <2>1, <2>4 DEF Turn, Calls, Body, Live, Over
  <2>6. /\ Body(n)'.do = Body(n).do /\ Body(n)'.id = i /\ Body(n)'.name = Body(n).name /\ Body(n)'.refs = Body(n).refs
        /\ Body(n)'.idx = Body(n).idx /\ Body(n)'.auth = auth /\ (Saving(n)' <=> Saving(n)) /\ Refs(n)' = Refs(n)
    BY <2>3, <2>4 DEF Body, Saving, Refs
  <2>7. Onward
    <3>1. edits[n].old.name = ""
      BY <1>1 DEF CallOK, ReadOK
    <3> QED
      <4>1. /\ edits'[n].with = edits[n].with /\ ~(edits[n].old.name # "") /\ Live(n) /\ edits[n].pc = "read"
            /\ Body(n)'.do = Body(n).do /\ Body(n)'.id = Body(n).id /\ Body(n)'.name = Body(n).name
            /\ Body(n)'.refs = Body(n).refs /\ Body(n)'.idx = Body(n).idx
            /\ TRUE \in Body(n).auth => TRUE \in Body(n)'.auth
        BY <1>1, <2>2, <2>5, <2>6, <3>1 DEF i
      <4>2. edits[n].pc \notin Changed \cup {"done", "failed"} /\ edits[n].pc \in {"read"} \cup Early
        BY <1>1 DEF Changed, Following
      <4>3. Calls \subseteq DOMAIN edits'
        BY <2>5 DEF Calls
      <4> QED
        BY <2>5, <4>1, <4>2, <4>3 DEF Onward
  <2>8. StoreStep(n) /\ StoreShapes' /\ ListShapes' /\ \A j \in DOMAIN stored' : Carried(j)
    BY <1>3, <2>5, QuietStep, ListsStay DEF Base, Shapes, Carried
  <2>9. StoredOK' /\ Distinct'
    BY <2>7, <2>8, StoredStays
  <2>10. PlaceOK(n)'
    BY <1>2, <2>1, <2>5, <2>6 DEF PlaceOK, Writing, Early
  <2>11. IdOK(n)'
    <3>1. i \in DOMAIN touched /\ <<n, "role">> \notin DOMAIN touched
      BY <1>1, <1>5 DEF Base, Shapes, StoreShapes, CallOK, IdOK
    <3> QED
      BY <1>2, <1>3, <2>1, <2>5, <2>6, <3>1 DEF IdOK, Writing, Early, Changed, Following, i
  <2>12. ReadOK(n)'
    <3>1. stored[i].flows \in Calls \cup {0}
      BY <1>5 DEF Base, Shapes, StoreShapes, Container
    <3> QED
      BY <2>1, <2>4, <2>5, <3>1 DEF ReadOK
  <2>13. TodoOK(n)' /\ ClearOK(n)'
    BY <1>1, <2>1, <2>4, <2>5, <2>6 DEF CallOK, TodoOK, ClearOK, HasSaved, Writing, Early, Changed, Following, Saving
  <2>14. NamesOK(n)'
    <3>1. OldFree(n)'
      <4>1. ASSUME NEW j \in DOMAIN stored \ {i}, stored[j].name = stored[i].name
            PROVE  Shared(stored[j].name)'
        <5>1. Shared(stored[j].name)
          BY <1>5, <4>1, NameShared
        <5>2. \A name : Shared(name) => Shared(name)'
          BY <2>7, SharedStays
        <5> QED
          BY <1>3, <5>1, <5>2 DEF Shared
      <4> QED
        BY <1>3, <2>4, <2>6, <4>1 DEF OldFree
    <3> QED
      BY <2>1, <2>5, <3>1 DEF NamesOK, NameOK, AuthOK, RoleOK, OldOK, OwnOK, HasSaved, Writing, Early, Changed, Following
  <2> QED
    BY <1>1, <2>4, <2>7, <2>8, <2>9, <2>10, <2>11, <2>12, <2>13, <2>14, BaseStep
<1>6. \/ Goes(n, "refused")
      \/ i \in DOMAIN stored /\ Becomes(n, [edits[n] EXCEPT !.pc = pc, !.old = stored[i], !.ask.auth = IF @ = {} THEN {stored[i].auth} ELSE @])
  BY DEF Read
<1>7. [edits[n] EXCEPT !.pc = pc, !.old = stored[i], !.ask.auth = IF @ = {} THEN {stored[i].auth} ELSE @]
        = [edits[n] EXCEPT !.pc = pc, !.old = stored[i], !.ask.auth = auth]
  BY DEF Body
<1> QED
  BY <1>4, <1>5, <1>6, <1>7

-----------------------------------------------------------------------------
(* Base is inductive: the steps that change a list of caches.                *)

LEMMA AddTriggerEffect ==
  ASSUME Base, NEW n, AddTrigger(n)
  PROVE  /\ n \in Calls /\ Live(n) /\ edits[n].pc = "trigger" /\ Saving(n) /\ UNCHANGED <<built, listed>>
         /\ \/ /\ Now(n, "pull", edits[n].found, Dropped(n), edits[n].clear) /\ edits[n].todo = {}
               /\ UNCHANGED <<stored, touched>>
            \/ Ended(n, "failed") /\ Goes(n, "failed") /\ UNCHANGED <<stored, touched>>
            \/ \E r \in edits[n].todo :
                 /\ Now(n, "trigger", edits[n].found, edits[n].todo \ {r}, edits[n].clear)
                 /\ edits[n].found[r] \in DOMAIN stored
                 /\ Relists(n, edits[n].found[r], stored[edits[n].found[r]].triggers \cup {Body(n).name})
<1>1. /\ n \in Calls /\ Live(n) /\ edits[n].pc = "trigger" /\ IsCall(edits[n]) /\ Sequential /\ CallOK(n)
  BY AtCall DEF AddTrigger, Over
<1>2. Saving(n)
  BY <1>1 DEF CallOK, PlaceOK, Saving, Over
<1>3. UNCHANGED <<built, listed>>
  BY DEF AddTrigger
<1>4. \/ Becomes(n, [edits[n] EXCEPT !.pc = "pull", !.todo = Dropped(n)]) /\ UNCHANGED <<stored, touched>> /\ edits[n].todo = {}
      \/ \E r \in edits[n].todo :
            \/ /\ edits[n].found[r] \in DOMAIN stored
               /\ Relists(n, edits[n].found[r], stored[edits[n].found[r]].triggers \cup {Body(n).name})
               /\ Becomes(n, [edits[n] EXCEPT !.todo = @ \ {r}])
            \/ Goes(n, "failed") /\ UNCHANGED <<stored, touched>>
  BY DEF AddTrigger
<1>5. CASE Becomes(n, [edits[n] EXCEPT !.pc = "pull", !.todo = Dropped(n)]) /\ UNCHANGED <<stored, touched>> /\ edits[n].todo = {}
  <2>1. Now(n, "pull", edits[n].found, Dropped(n), edits[n].clear)
    BY <1>1, <1>5, SetsTodo DEF Over
  <2> QED
    BY <1>1, <1>2, <1>3, <1>5, <2>1
<1>6. CASE Goes(n, "failed") /\ UNCHANGED <<stored, touched>>
  <2>1. Ended(n, "failed")
    BY <1>1, <1>6, Going DEF Over
  <2> QED
    BY <1>1, <1>2, <1>3, <1>6, <2>1
<1>7. ASSUME NEW r \in edits[n].todo, Becomes(n, [edits[n] EXCEPT !.todo = @ \ {r}])
      PROVE  Now(n, "trigger", edits[n].found, edits[n].todo \ {r}, edits[n].clear)
  BY <1>1, <1>7, Takes
<1> QED
  BY <1>1, <1>2, <1>3, <1>4, <1>5, <1>6, <1>7

PullPlaces(pc, next) == (pc = "pull" /\ next = "rename") \/ (pc = "rename" /\ next = "reclear")

LEMMA PullEffect ==
  ASSUME Base, NEW n, NEW pc, NEW next, PullPlaces(pc, next), At(n, pc), Pull(n, next)
  PROVE  /\ n \in Calls /\ Live(n) /\ edits[n].pc = pc /\ Saving(n) /\ UNCHANGED <<built, listed>>
         /\ \/ /\ Now(n, next, edits[n].found, Kept(n), edits[n].clear) /\ edits[n].todo = {}
               /\ UNCHANGED <<stored, touched>>
            \/ \E r \in edits[n].todo :
                 /\ Now(n, pc, edits[n].found, edits[n].todo \ {r}, edits[n].clear)
                 /\ UNCHANGED <<stored, touched>>
            \/ \E r \in edits[n].todo : \E i \in Named(r) : \E more :
                 /\ Now(n, pc, edits[n].found, edits[n].todo \ {r}, edits[n].clear \cup more)
                 /\ next = "rename" => i \in more
                 /\ Relists(n, i, stored[i].triggers \ {edits[n].old.name})
<1>1. /\ n \in Calls /\ Live(n) /\ edits[n].pc = pc /\ IsCall(edits[n]) /\ Sequential /\ CallOK(n)
  BY AtCall DEF PullPlaces, Over
<1>2. Saving(n)
  BY <1>1 DEF CallOK, PlaceOK, Saving, Over, PullPlaces
<1>3. UNCHANGED <<built, listed>>
  BY DEF Pull
<1>4. \/ Becomes(n, [edits[n] EXCEPT !.pc = next, !.todo = Kept(n)]) /\ UNCHANGED <<stored, touched>> /\ edits[n].todo = {}
      \/ \E r \in edits[n].todo :
            \/ Becomes(n, [edits[n] EXCEPT !.todo = @ \ {r}]) /\ UNCHANGED <<stored, touched>>
            \/ \E i \in Named(r) :
                 /\ Relists(n, i, stored[i].triggers \ {edits[n].old.name})
                 /\ Becomes(n, [edits[n] EXCEPT !.todo = @ \ {r}, !.clear = @ \cup (IF next = "rename" THEN {i} ELSE {})])
  BY DEF Pull
<1>5. ASSUME Becomes(n, [edits[n] EXCEPT !.pc = next, !.todo = Kept(n)])
      PROVE  Now(n, next, edits[n].found, Kept(n), edits[n].clear)
  <2>1. next \notin Over
    BY DEF PullPlaces, Over
  <2> QED
    BY <1>1, <1>5, <2>1, SetsTodo
<1>6. ASSUME NEW r \in edits[n].todo, Becomes(n, [edits[n] EXCEPT !.todo = @ \ {r}])
      PROVE  Now(n, pc, edits[n].found, edits[n].todo \ {r}, edits[n].clear)
  BY <1>1, <1>6, Takes
<1>7. ASSUME NEW r \in edits[n].todo, NEW more, Becomes(n, [edits[n] EXCEPT !.todo = @ \ {r}, !.clear = @ \cup more])
      PROVE  Now(n, pc, edits[n].found, edits[n].todo \ {r}, edits[n].clear \cup more)
  BY <1>1, <1>7, TakesAndClears
<1>8. ASSUME NEW r \in edits[n].todo, NEW i \in Named(r), NEW more, more = IF next = "rename" THEN {i} ELSE {},
             Becomes(n, [edits[n] EXCEPT !.todo = @ \ {r}, !.clear = @ \cup more])
      PROVE  Now(n, pc, edits[n].found, edits[n].todo \ {r}, edits[n].clear \cup more) /\ (next = "rename" => i \in more)
  BY <1>7, <1>8
<1>9. ASSUME NEW r \in edits[n].todo, NEW i \in Named(r),
             Becomes(n, [edits[n] EXCEPT !.todo = @ \ {r}, !.clear = @ \cup (IF next = "rename" THEN {i} ELSE {})])
      PROVE  \E more : /\ Now(n, pc, edits[n].found, edits[n].todo \ {r}, edits[n].clear \cup more)
                       /\ next = "rename" => i \in more
  <2>1. PICK more : more = IF next = "rename" THEN {i} ELSE {}
    OBVIOUS
  <2> QED
    BY <1>8, <1>9, <2>1
<1> QED
  BY <1>1, <1>2, <1>3, <1>4, <1>5, <1>6, <1>9

LEMMA AddTriggerBase ==
  ASSUME Base, NEW n, AddTrigger(n)
  PROVE  Base' /\ Onward
<1>1. /\ n \in Calls /\ Live(n) /\ edits[n].pc = "trigger" /\ Saving(n) /\ UNCHANGED <<built, listed>> /\ CallOK(n)
  BY AddTriggerEffect DEF Base
<1>2. edits[n].pc \in Changed \ Writing /\ edits[n].pc \notin {"read", "name", "auth"}
  BY <1>1 DEF Changed, Following, Writing, Early
<1>3. CASE Now(n, "pull", edits[n].found, Dropped(n), edits[n].clear) /\ UNCHANGED <<stored, touched>>
  <2>1. /\ edits'[n].pc = "pull" /\ Body(n)' = Body(n) /\ Saving(n)' /\ Refs(n)' = Refs(n) /\ Dropped(n)' = Dropped(n)
        /\ edits'[n].found = edits[n].found /\ edits'[n].todo = Dropped(n) /\ edits'[n].clear = edits[n].clear
    BY <1>1, <1>3, NowFacts
  <2>2. PlaceOK(n)' /\ TodoOK(n)' /\ ClearOK(n)'
    BY <1>1, <2>1 DEF CallOK, PlaceOK, TodoOK, ClearOK, HasSaved, Writing, Early, Changed, Following
  <2>3. "pull" \in Changed \ (Writing \cup Early) /\ "pull" \notin {"read", "fill", "newRole", "auth", "role", "retire"}
    BY DEF Changed, Following, Writing, Early
  <2>4. "pull" \notin {"auth", "role", "newRole"}
    OBVIOUS
  <2> QED
    BY <1>1, <1>2, <1>3, <2>2, <2>3, <2>4, PassStep
<1>4. CASE Goes(n, "failed") /\ UNCHANGED <<stored, touched>>
  BY <1>1, <1>4, EndBase DEF Over
<1>5. ASSUME NEW r \in edits[n].todo, NEW i \in DOMAIN stored, NEW triggers, Relists(n, i, triggers),
             Now(n, "trigger", edits[n].found, edits[n].todo \ {r}, edits[n].clear)
      PROVE  Base' /\ Onward
  <2>1. /\ edits'[n].pc = "trigger" /\ Body(n)' = Body(n) /\ Saving(n)' /\ Refs(n)' = Refs(n) /\ Calls' = Calls
        /\ edits'[n].found = edits[n].found /\ edits'[n].todo = edits[n].todo \ {r} /\ edits'[n].clear = edits[n].clear
    BY <1>1, <1>5, NowFacts
  <2>2. PlaceOK(n)' /\ TodoOK(n)' /\ ClearOK(n)'
    BY <1>1, <2>1 DEF CallOK, PlaceOK, TodoOK, ClearOK, HasSaved, Writing, Early, Changed, Following
  <2>3. "trigger" \in Changed \ (Writing \cup Early) /\ "trigger" \notin {"read", "fill", "newRole", "auth", "role", "retire"}
    BY DEF Changed, Following, Writing, Early
  <2>4. "trigger" \notin {"auth", "role", "newRole"}
    OBVIOUS
  <2>5. /\ StoreStep(n) /\ StoreShapes' /\ DOMAIN stored' = DOMAIN stored /\ DOMAIN touched' = DOMAIN touched
        /\ \A j \in DOMAIN stored' : Carried(j)
    BY <1>1, <1>5, <2>1, RelistStep DEF Base, Shapes, Amended
  <2> QED
    BY <1>1, <1>2, <1>5, <2>2, <2>3, <2>4, <2>5, CarryStep
<1> QED
  BY <1>3, <1>4, <1>5, AddTriggerEffect

LEMMA PullBase ==
  ASSUME Base, NEW n, NEW pc, NEW next, PullPlaces(pc, next), At(n, pc), Pull(n, next)
  PROVE  Base' /\ Onward
<1>1. /\ n \in Calls /\ Live(n) /\ edits[n].pc = pc /\ Saving(n) /\ UNCHANGED <<built, listed>> /\ CallOK(n)
  BY PullEffect DEF Base
<1>2. edits[n].pc \in Changed \ Writing /\ edits[n].pc \notin {"read", "name", "auth"}
  BY <1>1 DEF PullPlaces, Changed, Following, Writing, Early
<1>3. ASSUME Now(n, next, edits[n].found, Kept(n), edits[n].clear), UNCHANGED <<stored, touched>>
      PROVE  Base' /\ Onward
  <2>1. /\ edits'[n].pc = next /\ Body(n)' = Body(n) /\ Saving(n)' /\ Refs(n)' = Refs(n) /\ Kept(n)' = Kept(n)
        /\ edits'[n].found = edits[n].found /\ edits'[n].todo = Kept(n) /\ edits'[n].clear = edits[n].clear
    BY <1>1, <1>3, NowFacts
  <2>2. next \in {"rename", "reclear"}
    BY DEF PullPlaces
  <2>3. PlaceOK(n)' /\ TodoOK(n)' /\ ClearOK(n)'
    BY <1>1, <1>2, <2>1, <2>2 DEF CallOK, PlaceOK, TodoOK, ClearOK, HasSaved, Writing, Early, Changed, Following
  <2>4. next \in Changed \ (Writing \cup Early) /\ next \notin {"read", "fill", "newRole", "auth", "role", "retire"}
    BY <2>2 DEF Changed, Following, Writing, Early
  <2> QED
    BY <1>1, <1>2, <1>3, <2>3, <2>4, PassStep
<1>4. ASSUME NEW todo \in SUBSET edits[n].todo, NEW clear, edits[n].clear \subseteq clear,
             Now(n, pc, edits[n].found, todo, clear)
      PROVE  /\ PlaceOK(n)' /\ TodoOK(n)' /\ ClearOK(n)' /\ Calls' = Calls
             /\ pc \in Changed \ (Writing \cup Early) /\ pc \notin {"read", "fill", "newRole", "auth", "role", "retire"}
  <2>1. /\ edits'[n].pc = pc /\ Body(n)' = Body(n) /\ Saving(n)' /\ Refs(n)' = Refs(n) /\ Calls' = Calls
        /\ Dropped(n)' = Dropped(n) /\ Kept(n)' = Kept(n)
        /\ edits'[n].found = edits[n].found /\ edits'[n].todo = todo /\ edits'[n].clear = clear
    BY <1>1, <1>4, NowFacts
  <2>2. pc \in {"pull", "rename"}
    BY DEF PullPlaces
  <2>3. PlaceOK(n)' /\ TodoOK(n)' /\ ClearOK(n)'
    BY <1>1, <1>2, <1>4, <2>1, <2>2 DEF CallOK, PlaceOK, TodoOK, ClearOK, HasSaved, Writing, Early, Changed, Following
  <2> QED
    BY <2>1, <2>2, <2>3 DEF Changed, Following, Writing, Early
<1>5. ASSUME NEW r \in edits[n].todo, Now(n, pc, edits[n].found, edits[n].todo \ {r}, edits[n].clear),
             UNCHANGED <<stored, touched>>
      PROVE  Base' /\ Onward
  BY <1>1, <1>2, <1>4, <1>5, PassStep
<1>6. ASSUME NEW r \in edits[n].todo, NEW i \in Named(r), NEW triggers, Relists(n, i, triggers), NEW more,
             Now(n, pc, edits[n].found, edits[n].todo \ {r}, edits[n].clear \cup more)
      PROVE  Base' /\ Onward
  <2>1. /\ PlaceOK(n)' /\ TodoOK(n)' /\ ClearOK(n)' /\ Calls' = Calls
        /\ pc \in Changed \ (Writing \cup Early) /\ pc \notin {"read", "fill", "newRole", "auth", "role", "retire"}
    BY <1>4, <1>6
  <2>2. i \in DOMAIN stored
    BY DEF Named
  <2>3. /\ StoreStep(n) /\ StoreShapes' /\ DOMAIN stored' = DOMAIN stored /\ DOMAIN touched' = DOMAIN touched
        /\ \A j \in DOMAIN stored' : Carried(j)
    BY <1>1, <1>6, <2>1, <2>2, RelistStep DEF Base, Shapes, Amended
  <2> QED
    BY <1>1, <1>2, <1>6, <2>1, <2>3, CarryStep
<1> QED
  BY <1>3, <1>5, <1>6, PullEffect

-----------------------------------------------------------------------------
(* Base is inductive: the steps that write or remove a container.            *)

\* The container i is now written by n, which has found its name free.
LEMMA WrittenStays ==
  ASSUME Base, Onward, NEW n \in Calls, NEW i \in DOMAIN stored', touched'[i].wrote = n, LeftBy(i, n)',
         \A j \in DOMAIN stored' \ {i} : Carried(j),
         \A j \in DOMAIN stored' \ {i} :
           /\ stored[j].name = stored'[i].name => ~NamesIndexed /\ Raced(touched[j].wrote, n)
           /\ stored[j].auth /\ stored'[i].auth => Overlap(touched[j].wrote, n)
  PROVE  StoredOK' /\ Distinct'
<1>1. \A j \in DOMAIN stored : touched[j].wrote \in Calls \cup {0}
  BY DEF Base, Shapes, StoreShapes, History, By
<1>2. ASSUME NEW j \in DOMAIN stored', NEW m, touched'[j].wrote = m
      PROVE  LeftBy(j, m)'
  <2>1. CASE j = i
    BY <1>2, <2>1
  <2>2. CASE j # i
    <3>1. LeftBy(j, m) /\ Carried(j)
      BY <1>1, <1>2, <2>2 DEF Base, StoredOK, Carried
    <3> QED
      BY <3>1, LeftByStays
  <2> QED
    BY <2>1, <2>2
<1>3. StoredOK'
  BY <1>2 DEF StoredOK
<1>4. \A a, b \in Calls \cup {0} : (Overlap(a, b) => Overlap(a, b)') /\ (Raced(a, b) => Raced(a, b)')
  BY OverlapStays
<1>5. ASSUME NEW j \in DOMAIN stored' \ {i}, NEW m, touched'[j].wrote = m
      PROVE  /\ stored'[j].name = stored'[i].name => ~NamesIndexed /\ Raced(m, n)' /\ Raced(n, m)'
             /\ stored'[j].auth /\ stored'[i].auth => Overlap(m, n)' /\ Overlap(n, m)'
  <2>1. Carried(j) /\ m \in Calls \cup {0} /\ touched[j].wrote = m
    BY <1>1, <1>5 DEF Carried
  <2>2. /\ stored[j].name = stored'[i].name => ~NamesIndexed /\ Raced(m, n)
        /\ stored[j].auth /\ stored'[i].auth => Overlap(m, n)
    BY <2>1
  <2>3. (Raced(m, n) => Raced(m, n)') /\ (Overlap(m, n) => Overlap(m, n)')
    BY <1>4, <2>1
  <2>4. (Raced(m, n)' => Raced(n, m)') /\ (Overlap(m, n)' => Overlap(n, m)')
    BY DEF Raced, Overlap
  <2> QED
    BY <2>1, <2>2, <2>3, <2>4 DEF Carried
<1>6. Distinct'
  <2> SUFFICES ASSUME NEW a \in DOMAIN stored', NEW b \in DOMAIN stored', NEW k, NEW m,
                      a # b, touched'[a].wrote = k, touched'[b].wrote = m
               PROVE  /\ stored'[a].name = stored'[b].name => ~NamesIndexed /\ Raced(k, m)'
                      /\ stored'[a].auth /\ stored'[b].auth => Overlap(k, m)'
    BY DEF Distinct
  <2>1. CASE a = i
    <3>1. b \in DOMAIN stored' \ {i} /\ k = n
      BY <2>1
    <3> QED
      BY <1>5, <2>1, <3>1
  <2>2. CASE b = i
    <3>1. a \in DOMAIN stored' \ {i} /\ m = n
      BY <2>2
    <3> QED
      BY <1>5, <2>2, <3>1
  <2>3. CASE a # i /\ b # i
    <3>1. Carried(a) /\ Carried(b)
      BY <2>3
    <3>2. k \in Calls \cup {0} /\ m \in Calls \cup {0} /\ touched[a].wrote = k /\ touched[b].wrote = m
      BY <1>1, <3>1 DEF Carried
    <3>3. /\ stored[a].name = stored[b].name => ~NamesIndexed /\ Raced(k, m)
          /\ stored[a].auth /\ stored[b].auth => Overlap(k, m)
      BY <3>1, <3>2 DEF Base, Distinct, Carried
    <3> QED
      BY <1>4, <3>1, <3>2, <3>3 DEF Carried
  <2> QED
    BY <2>1, <2>2, <2>3
<1> QED
  BY <1>3, <1>6

LEMMA NoContainerIsAll ==
  ASSUME Base, NEW i \in DOMAIN touched
  PROVE  i # All
<1>1. Known(i)
  BY DEF Base, Shapes, StoreShapes
<1>2. CASE i \in DOMAIN Existing
  BY <1>2, ContainersAssumption DEF IsContainer
<1>3. ASSUME NEW n \in Calls, i \in {<<n, "made">>, <<n, "role">>}
      PROVE  i # All
  BY <1>3 DEF All
<1> QED
  BY <1>1, <1>2, <1>3 DEF Known

LEMMA AddRoleEffect ==
  ASSUME Base, NEW n, AddRole(n)
  PROVE  /\ n \in Calls /\ Live(n) /\ edits[n].pc = "newRole" /\ Saving(n) /\ UNCHANGED <<built, listed>>
         /\ \/ Goes(n, "failed") /\ Ended(n, "failed") /\ UNCHANGED <<stored, touched>>
            \/ /\ Now(n, "refs", <<>>, Refs(n), {}) /\ ~Taken("role", All)
               /\ <<n, "role">> \notin DOMAIN touched
               /\ stored' = Put(stored, <<n, "role">>, Role)
               /\ touched' = Put(touched, <<n, "role">>, [wrote |-> n, named |-> n, others |-> {}])
<1>1. /\ n \in Calls /\ Live(n) /\ edits[n].pc = "newRole" /\ IsCall(edits[n]) /\ Sequential /\ CallOK(n)
  BY AtCall DEF AddRole, Over
<1>2. Saving(n) /\ UNCHANGED <<built, listed>>
  BY <1>1 DEF CallOK, PlaceOK, Saving, Over, AddRole
<1>3. CASE Goes(n, "failed") /\ UNCHANGED <<stored, touched>>
  <2>1. Ended(n, "failed")
    BY <1>1, <1>3, Going DEF Over
  <2> QED
    BY <1>1, <1>2, <1>3, <2>1
<1>4. CASE /\ ~Taken("role", All) /\ Goes(n, "refs") /\ stored' = Put(stored, <<n, "role">>, Role)
           /\ touched' = Put(touched, <<n, "role">>, [wrote |-> n, named |-> n, others |-> {}])
  <2>1. Now(n, "refs", edits[n].found, edits[n].todo, edits[n].clear)
    BY <1>1, <1>4, Going DEF Over
  <2>2. <<n, "role">> \notin DOMAIN touched
    BY <1>1 DEF CallOK, IdOK, Early
  <2>3. edits[n].found = <<>> /\ edits[n].todo = Refs(n) /\ edits[n].clear = {}
    BY <1>1, <1>2 DEF CallOK, TodoOK, ClearOK, Early, Changed, Following
  <2> QED
    BY <1>1, <1>2, <1>4, <2>1, <2>2, <2>3
<1> QED
  BY <1>3, <1>4 DEF AddRole

LEMMA WritesRole ==
  ASSUME Base, NEW n \in Calls, Calls' = Calls, <<n, "role">> \notin DOMAIN touched,
         stored' = Put(stored, <<n, "role">>, Role),
         touched' = Put(touched, <<n, "role">>, [wrote |-> n, named |-> n, others |-> {}])
  PROVE  StoreStep(n) /\ StoreShapes' /\ \E mark : Written(<<n, "role">>, n, Role, mark) /\ mark.named = n
<1>1. PICK i : i = <<n, "role">>
  OBVIOUS
<1>2. /\ Has(Role, {"name", "refs", "triggers", "auth", "flows", "idx"}) /\ Role.name # ""
      /\ Role.auth \in BOOLEAN /\ Role.flows \in Calls \cup {0}
  BY DEF Role, Has
<1>3. PICK mark : mark = [wrote |-> n, named |-> n, others |-> {}]
  OBVIOUS
<1>4. stored' = Put(stored, i, Role) /\ touched' = Put(touched, i, mark)
  BY <1>1, <1>3
<1>5. /\ Has(mark, {"wrote", "named", "others"}) /\ mark.wrote = n
      /\ mark.named = n /\ mark.others = {}
  BY <1>3 DEF Has
<1> HIDE <1>3
<1>6. /\ StoreShapes /\ Calls \subseteq Calls' /\ i \in {Body(n).id, <<n, "role">>}
      /\ i \in {<<n, "made">>, <<n, "role">>} \ DOMAIN touched
  BY <1>1 DEF Base, Shapes
<1>7. /\ i \in DOMAIN touched =>
           /\ mark.named \in {n, touched[i].named}
           /\ mark.others = touched[i].others \cup {touched[i].wrote}
      /\ i \notin DOMAIN touched => mark.named = n /\ mark.others = {}
  BY <1>5, <1>6
<1>8. StoreStep(n) /\ StoreShapes' /\ Written(i, n, Role, mark)
  BY <1>2, <1>4, <1>5, <1>6, <1>7, WriteStep
<1> QED
  BY <1>1, <1>5, <1>8

LEMMA AddRoleBase ==
  ASSUME Base, NEW n, AddRole(n)
  PROVE  Base' /\ Onward
<1>1. /\ n \in Calls /\ Live(n) /\ edits[n].pc = "newRole" /\ Saving(n) /\ UNCHANGED <<built, listed>>
      /\ CallOK(n) /\ NamesOK(n) /\ TRUE \in Body(n).auth
  BY AddRoleEffect DEF Base, CallOK, ReadOK
<1>2. CASE Goes(n, "failed") /\ UNCHANGED <<stored, touched>>
  BY <1>1, <1>2, EndBase DEF Over, Changed, Following
<1>3. CASE /\ Now(n, "refs", <<>>, Refs(n), {}) /\ ~Taken("role", All)
           /\ <<n, "role">> \notin DOMAIN touched
           /\ stored' = Put(stored, <<n, "role">>, Role)
               /\ touched' = Put(touched, <<n, "role">>, [wrote |-> n, named |-> n, others |-> {}])
  <2>0. PICK i : i = <<n, "role">>
    OBVIOUS
  <2>1. /\ Calls' = Calls /\ edits'[n].pc = "refs" /\ Body(n)' = Body(n) /\ edits'[n].old = edits[n].old
        /\ edits'[n].found = <<>> /\ edits'[n].todo = Refs(n) /\ edits'[n].clear = {}
        /\ Saving(n)' /\ Refs(n)' = Refs(n) /\ Turn(n, "refs") /\ Live(n)'
    BY <1>1, <1>3, NowFacts DEF Now
  <2>2. /\ Has(Role, {"name", "refs", "triggers", "auth", "flows", "idx"}) /\ Role.name = "role" /\ Role.name # ""
        /\ Role.auth = FALSE /\ Role.flows = 0 /\ Role.refs = {} /\ Role.idx = {}
    BY DEF Role, Has
  <2>3. /\ StoreStep(n) /\ StoreShapes' /\ i \in DOMAIN stored' /\ DOMAIN touched' = DOMAIN touched \cup {i}
        /\ stored'[i] = Role /\ touched'[i].wrote = n
        /\ \A j \in DOMAIN stored' \ {i} : j \in DOMAIN stored /\ stored'[j] = stored[j] /\ Carried(j)
    <3>1. StoreStep(n) /\ StoreShapes' /\ \E mark : Written(i, n, Role, mark)
      BY <1>1, <1>3, <2>0, <2>1, WritesRole
    <3> QED
      BY <3>1 DEF Written
  <2>4. Onward
    <3>1. edits[n].pc \notin Changed /\ "refs" \notin {"read"} \cup Early
      BY <1>1 DEF Changed, Following, Early
    <3>2. CallShapes /\ edits'[n].ask = edits[n].ask /\ edits'[n].old.name = edits[n].old.name
      BY <1>3, <2>1 DEF Base, Shapes, Now
    <3> QED
      BY <1>1, <2>1, <3>1, <3>2, AskKept
  <2>5. LeftBy(i, n)'
    BY <1>1, <2>0, <2>1, <2>2, <2>3 DEF LeftBy, Added, Early
  <2>6. RoleFree(n) /\ NameFree(n) /\ AuthFree(n)
    BY <1>1 DEF NamesOK, RoleOK, NameOK, AuthOK, Writing, Early
  <2>7. StoredOK' /\ Distinct'
    <3>1. \A j \in DOMAIN stored' \ {i} : j \in DOMAIN stored /\ j # All
      BY <2>3, NoContainerIsAll DEF Base, Shapes, StoreShapes
    <3>2. \A j \in DOMAIN stored' \ {i} : stored[j].name = stored'[i].name => ~NamesIndexed /\ Raced(touched[j].wrote, n)
      BY <1>3, <2>2, <2>3, <2>6, <3>1 DEF Taken, Named, RoleFree, Raced
    <3>3. /\ i \in DOMAIN stored' /\ touched'[i].wrote = n /\ stored'[i].auth = FALSE
          /\ \A j \in DOMAIN stored' \ {i} : Carried(j)
      BY <2>2, <2>3
    <3> QED
      BY <1>1, <2>4, <2>5, <3>2, <3>3, WrittenStays
  <2>8. PlaceOK(n)' /\ ReadOK(n)' /\ TodoOK(n)' /\ ClearOK(n)'
    <3>1. DOMAIN <<>> = {}
      OBVIOUS
    <3> QED
      BY <1>1, <2>1, <3>1 DEF CallOK, PlaceOK, ReadOK, TodoOK, ClearOK, HasSaved, Writing, Early, Changed, Following
  <2>9. IdOK(n)'
    BY <1>1, <2>0, <2>1, <2>3 DEF CallOK, IdOK, Saving, Live, Writing, Early, Changed, Following
  <2>10. \A w \in Calls \cup {0} : (Overlap(w, n) => Overlap(w, n)') /\ (Raced(w, n) => Raced(w, n)')
    BY <1>1, <2>4, OverlapStays
  <2>11. \A j \in DOMAIN stored : touched[j].wrote \in Calls \cup {0}
    BY DEF Base, Shapes, StoreShapes, History, By
  <2>12. NameFree(n)'
    <3>1. Body(n).name = "role" => Raced(n, n)'
      <4>1. n # 0
        BY <1>1, CallNumbers DEF Base, Shapes, CallShapes
      <4> QED
        BY <1>1, <2>1, <4>1 DEF Raced
    <3>2. ASSUME NEW j \in DOMAIN stored' \ {Body(n).id}, stored'[j].name = Body(n).name
          PROVE  Raced(touched[j].wrote, n)'
      <4>1. CASE j = i
        BY <2>2, <2>3, <3>1, <3>2, <4>1 DEF Raced, Overlap
      <4>2. CASE j # i
        <5>1. j \in DOMAIN stored /\ Carried(j) /\ stored[j].name = Body(n).name
          BY <2>3, <3>2, <4>2
        <5>2. PICK w \in Calls \cup {0} : touched[j].wrote = w
          BY <2>11, <5>1
        <5>3. Raced(w, n)'
          BY <2>6, <2>10, <3>2, <5>1, <5>2 DEF NameFree
        <5> QED
          BY <5>1, <5>2, <5>3 DEF Carried, Raced, Overlap
      <4> QED
        BY <4>1, <4>2
    <3> QED
      BY <2>1, <3>2 DEF NameFree
  <2>13. AuthFree(n)'
    BY <2>1, <2>2, <2>3, <2>6, <2>10, <2>11 DEF AuthFree, Carried, Overlap
  <2>14. OldOK(n)'
    <3>1. ASSUME OldFree(n) PROVE OldFree(n)'
      <4>1. ASSUME NEW j \in DOMAIN stored' \ {Body(n).id}, stored'[j].name = edits[n].old.name, j # i
            PROVE  (touched[j].wrote = n)' \/ Overlap(touched[j].wrote, n)' \/ Shared(stored[j].name)'
        <5>1. touched[j].wrote = n \/ Overlap(touched[j].wrote, n) \/ Shared(stored[j].name)
          BY <2>3, <3>1, <4>1 DEF OldFree
        <5>2. \A name : Shared(name) => Shared(name)'
          BY <2>4, SharedStays
        <5> QED
          BY <2>3, <2>10, <2>11, <4>1, <5>1, <5>2 DEF Carried, Overlap, Shared
      <4> QED
        BY <2>1, <2>3, <4>1 DEF OldFree
    <3> QED
      BY <1>1, <2>1, <3>1 DEF NamesOK, OldOK
  <2>15. NamesOK(n)'
    BY <2>1, <2>12, <2>13, <2>14 DEF NamesOK, NameOK, AuthOK, RoleOK, OwnOK, HasSaved, Changed, Following
  <2>16. ListShapes'
    BY <1>1, <2>1, <2>3, ListsStay
  <2> QED
    BY <1>1, <2>1, <2>3, <2>4, <2>7, <2>8, <2>9, <2>15, <2>16, BaseStep
<1> QED
  BY <1>2, <1>3, AddRoleEffect

\* What a call writes, and what it has to clear after it.
Made(n) ==
  [name |-> Body(n).name, refs |-> Body(n).refs, auth |-> TRUE \in Body(n).auth,
   triggers |-> {Body(n).name} \cup (IF Body(n).do = "create" THEN {} ELSE edits[n].old.triggers),
   flows |-> edits[n].old.flows, idx |-> Body(n).idx]
ToClear(n) == {All, Body(n).id} \cup {edits[n].found[r] : r \in DOMAIN edits[n].found}

LEMMA WriteEffect ==
  ASSUME Base, NEW n, WriteContainer(n)
  PROVE  /\ n \in Calls /\ Live(n) /\ edits[n].pc = "write" /\ Saving(n) /\ UNCHANGED <<built, listed>>
         /\ \/ \E pc \in {"refused", "failed"} : Goes(n, pc) /\ Ended(n, pc) /\ UNCHANGED <<stored, touched>>
            \/ /\ Now(n, "clear", edits[n].found, Refs(n), ToClear(n)) /\ ~Taken(Body(n).name, Body(n).id)
               /\ Body(n).id \in DOMAIN stored \/ (Body(n).id = <<n, "made">> /\ Body(n).id \notin DOMAIN touched)
               /\ Body(n).do = "update" => Body(n).id \in DOMAIN stored
               /\ Body(n).do = "create" => Body(n).id \notin DOMAIN touched
               /\ stored' = Put(stored, Body(n).id, Made(n))
               /\ Wrote(Body(n).id, n, Body(n).name # edits[n].old.name)
<1>1. /\ n \in Calls /\ Live(n) /\ edits[n].pc = "write" /\ IsCall(edits[n]) /\ Sequential /\ CallOK(n)
  BY AtCall DEF WriteContainer, Over
<1>2. Saving(n) /\ UNCHANGED <<built, listed>>
  BY <1>1 DEF CallOK, PlaceOK, Saving, Over, WriteContainer
<1>3. ASSUME NEW pc \in {"refused", "failed"}, Goes(n, pc)
      PROVE  Ended(n, pc)
  BY <1>1, <1>3, Going DEF Over
<1>4. Made(n).name = Body(n).name /\ Made(n).refs = Body(n).refs
  BY DEF Made
<1>5. \/ \E pc \in {"refused", "failed"} : Goes(n, pc) /\ UNCHANGED <<stored, touched>>
      \/ /\ ~(Body(n).do = "update" /\ Body(n).id \notin DOMAIN stored)
         /\ ~Taken(Body(n).name, Body(n).id)
         /\ stored' = Put(stored, Body(n).id, Made(n))
         /\ Wrote(Body(n).id, n, Body(n).name # edits[n].old.name)
         /\ Becomes(n, [edits[n] EXCEPT !.pc = "clear", !.todo = Refs(n), !.clear = ToClear(n)])
  BY DEF WriteContainer, Made, ToClear, Refs
<1>6. Body(n).do = "create" => Body(n).id = <<n, "made">> /\ Body(n).id \notin DOMAIN touched
  BY <1>1 DEF CallOK, IdOK, Writing, Early
<1>7. ASSUME Becomes(n, [edits[n] EXCEPT !.pc = "clear", !.todo = Refs(n), !.clear = ToClear(n)])
      PROVE  Now(n, "clear", edits[n].found, Refs(n), ToClear(n))
  BY <1>1, <1>7, SetsTodoAndClear DEF Over
<1> QED
  BY <1>1, <1>2, <1>3, <1>5, <1>6, <1>7 DEF Saving

LEMMA WritesMade ==
  ASSUME Base, NEW n \in Calls, Calls' = Calls, edits[n].pc = "write",
         Body(n).id \in DOMAIN stored \/ (Body(n).id = <<n, "made">> /\ Body(n).id \notin DOMAIN touched),
         stored' = Put(stored, Body(n).id, Made(n)), Wrote(Body(n).id, n, Body(n).name # edits[n].old.name)
  PROVE  /\ StoreStep(n) /\ StoreShapes'
         /\ \E mark : /\ Written(Body(n).id, n, Made(n), mark)
                      /\ mark.named = IF Body(n).id \in DOMAIN touched /\ Body(n).name = edits[n].old.name
                                      THEN touched[Body(n).id].named ELSE n
<1>1. PICK i : i = Body(n).id
  OBVIOUS
<1> DEFINE made == IF i \in DOMAIN touched
                   THEN [wrote |-> n, named |-> IF Body(n).name # edits[n].old.name THEN n ELSE touched[i].named,
                         others |-> touched[i].others \cup {touched[i].wrote}]
                   ELSE [wrote |-> n, named |-> n, others |-> {}]
<1>2. PICK mark : mark = made
  OBVIOUS
<1>3. stored' = Put(stored, i, Made(n)) /\ touched' = Put(touched, i, mark)
  BY <1>1, <1>2 DEF Wrote
<1>4. /\ Has(mark, {"wrote", "named", "others"}) /\ mark.wrote = n
      /\ mark.named = IF i \in DOMAIN touched /\ Body(n).name = edits[n].old.name THEN touched[i].named ELSE n
      /\ i \in DOMAIN touched =>
           /\ mark.named \in {n, touched[i].named}
           /\ mark.others = touched[i].others \cup {touched[i].wrote}
      /\ i \notin DOMAIN touched => mark.named = n /\ mark.others = {}
  BY <1>2 DEF Has
<1> HIDE <1>2
<1>5. /\ Has(Made(n), {"name", "refs", "triggers", "auth", "flows", "idx"})
      /\ Made(n).name = Body(n).name /\ Made(n).auth \in BOOLEAN /\ Made(n).flows = edits[n].old.flows
  <2>1. Has(Made(n), {"name", "refs", "triggers", "auth", "flows", "idx"})
    BY DEF Made, Has
  <2>2. Made(n).auth = (TRUE \in Body(n).auth)
    BY DEF Made
  <2>3. Made(n).name = Body(n).name /\ Made(n).flows = edits[n].old.flows
    BY DEF Made
  <2> QED
    BY <2>1, <2>2, <2>3
<1>6. Made(n).name # "" /\ Made(n).flows \in Calls \cup {0}
  <2>1. CallOK(n) /\ IsAsk(Body(n))
    BY DEF Base, Shapes, CallShapes, IsCall, Body
  <2>2. Saving(n)
    BY <2>1 DEF CallOK, PlaceOK, Saving, Over
  <2> QED
    BY <1>5, <2>1, <2>2 DEF CallOK, ReadOK, IsAsk, Saving, Writing
<1>7. /\ StoreShapes /\ Calls \subseteq Calls' /\ i \in {Body(n).id, <<n, "role">>}
      /\ i \in DOMAIN stored \/ i \in {<<n, "made">>, <<n, "role">>} \ DOMAIN touched
  BY <1>1 DEF Base, Shapes
<1>8. StoreStep(n) /\ StoreShapes' /\ Written(i, n, Made(n), mark)
  BY <1>3, <1>4, <1>5, <1>6, <1>7, WriteStep
<1> QED
  BY <1>1, <1>4, <1>8

LEMMA WriteBase ==
  ASSUME Base, NEW n, WriteContainer(n)
  PROVE  Base' /\ Onward
<1>1. /\ n \in Calls /\ Live(n) /\ edits[n].pc = "write" /\ Saving(n) /\ UNCHANGED <<built, listed>>
      /\ CallOK(n) /\ NamesOK(n)
  BY WriteEffect DEF Base
<1>2. ASSUME NEW pc \in {"refused", "failed"}, Goes(n, pc), UNCHANGED <<stored, touched>>
      PROVE  Base' /\ Onward
  BY <1>1, <1>2, EndBase DEF Over, Changed, Following
<1>3. CASE /\ Now(n, "clear", edits[n].found, Refs(n), ToClear(n)) /\ ~Taken(Body(n).name, Body(n).id)
           /\ Body(n).id \in DOMAIN stored \/ (Body(n).id = <<n, "made">> /\ Body(n).id \notin DOMAIN touched)
           /\ stored' = Put(stored, Body(n).id, Made(n))
           /\ Wrote(Body(n).id, n, Body(n).name # edits[n].old.name)
  <2>1. /\ Calls' = Calls /\ edits'[n].pc = "clear" /\ Body(n)' = Body(n) /\ edits'[n].old = edits[n].old
        /\ edits'[n].found = edits[n].found /\ edits'[n].todo = Refs(n) /\ edits'[n].clear = ToClear(n)
        /\ Saving(n)' /\ Refs(n)' = Refs(n) /\ Turn(n, "clear") /\ Live(n)'
    BY <1>1, <1>3, NowFacts DEF Now
  <2>2. StoreStep(n) /\ StoreShapes'
    BY <1>1, <1>3, <2>1, WritesMade
  <2>3. PICK mark : Written(Body(n).id, n, Made(n), mark)
    BY <1>1, <1>3, <2>1, WritesMade
  <2>4. PICK i : i = Body(n).id
    OBVIOUS
  <2>5. /\ i \in DOMAIN stored' /\ DOMAIN touched' = DOMAIN touched \cup {i}
        /\ stored'[i] = Made(n) /\ touched'[i].wrote = n
        /\ \A j \in DOMAIN stored' \ {i} : j \in DOMAIN stored /\ stored'[j] = stored[j] /\ Carried(j)
    BY <2>3, <2>4 DEF Written
  <2>6. Onward
    <3>1. edits[n].pc \notin Changed /\ "clear" \notin {"read"} \cup Early
      BY <1>1 DEF Changed, Following, Early
    <3>2. CallShapes /\ edits'[n].ask = edits[n].ask /\ edits'[n].old.name = edits[n].old.name
      BY <1>3, <2>1 DEF Base, Shapes, Now
    <3> QED
      BY <1>1, <2>1, <3>1, <3>2, AskKept
  <2>7. /\ Made(n).name = Body(n).name /\ Made(n).refs = Body(n).refs
        /\ Made(n).auth = (TRUE \in Body(n).auth) /\ Made(n).idx = Body(n).idx
    BY DEF Made
  <2>8. LeftBy(i, n)'
    BY <1>1, <2>1, <2>4, <2>5, <2>7 DEF LeftBy, Saved, Changed
  <2>9. NameFree(n) /\ (TRUE \in Body(n).auth => AuthFree(n))
    BY <1>1 DEF NamesOK, NameOK, AuthOK, Writing, Early
  <2>10. StoredOK' /\ Distinct'
    <3>1. ASSUME NEW j \in DOMAIN stored' \ {i}
          PROVE  /\ stored[j].name = stored'[i].name => ~NamesIndexed /\ Raced(touched[j].wrote, n)
                 /\ stored[j].auth /\ stored'[i].auth => Overlap(touched[j].wrote, n)
      <4>1. j \in DOMAIN stored \ {Body(n).id}
        BY <2>4, <2>5
      <4>2. stored[j].name = Body(n).name => ~NamesIndexed /\ Raced(touched[j].wrote, n)
        BY <1>3, <2>9, <4>1 DEF Taken, Named, NameFree
      <4>3. stored[j].auth /\ TRUE \in Body(n).auth => Overlap(touched[j].wrote, n)
        BY <2>9, <4>1 DEF AuthFree
      <4> QED
        BY <2>5, <2>7, <4>2, <4>3
    <3>2. /\ i \in DOMAIN stored' /\ touched'[i].wrote = n
          /\ \A j \in DOMAIN stored' \ {i} : Carried(j)
      BY <2>5
    <3> QED
      BY <1>1, <2>6, <2>8, <3>1, <3>2, WrittenStays
  <2>11. PlaceOK(n)' /\ ReadOK(n)' /\ TodoOK(n)'
    BY <1>1, <2>1 DEF CallOK, PlaceOK, ReadOK, TodoOK, HasSaved, Writing, Early, Changed, Following
  <2>12. ClearOK(n)'
    BY <2>1 DEF ClearOK, ToClear, HasSaved, Changed
  <2>13. IdOK(n)'
    <3>1. Body(n).do = "create" => Body(n).id = <<n, "made">> /\ edits[n].old.name = ""
      BY <1>1 DEF CallOK, IdOK
    <3>2. i # <<n, "role">>
      BY <1>1, <2>4 DEF CallOK, IdOK, Writing
    <3>3. Body(n).do # "delete"
      BY <1>1 DEF Saving
    <3>4. "clear" \notin {"read", "fill"} \cup Early \cup Writing
      BY DEF Early, Writing
    <3> QED
      BY <2>1, <2>4, <2>5, <3>1, <3>2, <3>3, <3>4 DEF IdOK
  <2>14. NameFree(n)' /\ (AuthFree(n) => AuthFree(n)') /\ (OldFree(n) => OldFree(n)')
    BY <1>1, <2>1, <2>4, <2>5, <2>6, <2>9, FreeStays
  <2>15. NamesOK(n)'
    <3>1. NameOK(n)' /\ RoleOK(n)'
      BY <2>1, <2>14 DEF NameOK, RoleOK
    <3>2. AuthOK(n)'
      BY <2>1, <2>9, <2>14 DEF AuthOK
    <3>3. OldOK(n)'
      BY <1>1, <2>1, <2>14 DEF NamesOK, OldOK
    <3>4. OwnOK(n)'
      BY <2>1, <2>4, <2>5 DEF OwnOK, Own
    <3> QED
      BY <3>1, <3>2, <3>3, <3>4 DEF NamesOK
  <2>16. ListShapes'
    BY <1>1, <2>1, <2>5, ListsStay
  <2> QED
    BY <1>1, <2>1, <2>2, <2>6, <2>10, <2>11, <2>12, <2>13, <2>15, <2>16, BaseStep
<1> QED
  BY <1>2, <1>3, WriteEffect

LEMMA FlowsEffect ==
  ASSUME Base, NEW n, UpdateFlows(n)
  PROVE  /\ n \in Calls /\ Live(n) /\ edits[n].pc = "flows" /\ Body(n).do = "flows" /\ UNCHANGED <<built, listed>>
         /\ \/ Goes(n, "refused") /\ Ended(n, "refused") /\ UNCHANGED <<stored, touched>>
            \/ /\ Now(n, "reclear", edits[n].found, edits[n].todo, {All, Body(n).id}) /\ Body(n).id \in DOMAIN stored
               /\ stored' = [stored EXCEPT ![Body(n).id].flows = n]
               /\ touched' = [touched EXCEPT ![Body(n).id].others = @ \cup {n}]
<1>1. /\ n \in Calls /\ Live(n) /\ edits[n].pc = "flows" /\ IsCall(edits[n]) /\ Sequential /\ CallOK(n)
  BY AtCall DEF UpdateFlows, Over
<1>2. Body(n).do = "flows" /\ UNCHANGED <<built, listed>>
  BY <1>1 DEF CallOK, PlaceOK, Saving, Over, UpdateFlows, Only, Writing, Early, Following
<1>3. CASE Goes(n, "refused") /\ UNCHANGED <<stored, touched>>
  <2>1. Ended(n, "refused")
    BY <1>1, <1>3, Going DEF Over
  <2> QED
    BY <1>1, <1>2, <1>3, <2>1
<1>4. ASSUME Becomes(n, [edits[n] EXCEPT !.pc = "reclear", !.clear = {All, Body(n).id}])
      PROVE  Now(n, "reclear", edits[n].found, edits[n].todo, {All, Body(n).id})
  BY <1>1, <1>4, SetsClear DEF Over
<1> QED
  BY <1>1, <1>2, <1>3, <1>4 DEF UpdateFlows, Only

LEMMA FlowsBase ==
  ASSUME Base, NEW n, UpdateFlows(n)
  PROVE  Base' /\ Onward
<1>1. /\ n \in Calls /\ Live(n) /\ edits[n].pc = "flows" /\ Body(n).do = "flows" /\ UNCHANGED <<built, listed>>
      /\ CallOK(n) /\ NamesOK(n)
  BY FlowsEffect DEF Base
<1>2. CASE Goes(n, "refused") /\ UNCHANGED <<stored, touched>>
  BY <1>1, <1>2, EndBase DEF Over, Changed, Following
<1>3. CASE /\ Now(n, "reclear", edits[n].found, edits[n].todo, {All, Body(n).id}) /\ Body(n).id \in DOMAIN stored
           /\ stored' = [stored EXCEPT ![Body(n).id].flows = n]
           /\ touched' = [touched EXCEPT ![Body(n).id].others = @ \cup {n}]
  <2>1. /\ Calls' = Calls /\ edits'[n].pc = "reclear" /\ Body(n)' = Body(n) /\ ~Saving(n)' /\ Turn(n, "reclear")
        /\ edits'[n].clear = {All, Body(n).id} /\ Live(n)'
    BY <1>1, <1>3, NowFacts DEF Now, Saving
  <2>2. /\ StoreStep(n) /\ StoreShapes' /\ DOMAIN stored' = DOMAIN stored /\ DOMAIN touched' = DOMAIN touched
        /\ \A j \in DOMAIN stored' : Carried(j)
    BY <1>1, <1>3, <2>1, FlowsStep DEF Base, Shapes, Amended
  <2>3. Onward
    <3>1. edits[n].pc \notin Changed /\ "reclear" \notin {"read"} \cup Early
      BY <1>1 DEF Changed, Following, Early
    <3>2. CallShapes /\ edits'[n].ask = edits[n].ask /\ edits'[n].old.name = edits[n].old.name
      BY <1>3 DEF Base, Shapes, Now
    <3> QED
      BY <1>1, <2>1, <3>1, <3>2, AskKept
  <2>4. StoredOK' /\ Distinct'
    BY <2>2, <2>3, StoredStays
  <2>5. PlaceOK(n)' /\ ReadOK(n)' /\ TodoOK(n)' /\ ClearOK(n)'
    BY <1>1, <2>1 DEF PlaceOK, ReadOK, TodoOK, ClearOK, HasSaved, Writing, Early, Changed, Following
  <2>6. IdOK(n)'
    <3>1. Body(n).id \in DOMAIN touched'
      BY <1>3, <2>2 DEF StoreShapes
    <3> QED
      BY <1>1, <2>1, <3>1 DEF IdOK, Writing, Early
  <2>7. NamesOK(n)'
    BY <1>1, <2>1 DEF NamesOK, NameOK, AuthOK, RoleOK, OldOK, OwnOK, HasSaved
  <2>8. ListShapes'
    BY <1>1, <2>1, <2>2, ListsStay
  <2> QED
    BY <1>1, <2>1, <2>2, <2>3, <2>4, <2>5, <2>6, <2>7, <2>8, BaseStep
<1> QED
  BY <1>2, <1>3, FlowsEffect

LEMMA RemoveEffect ==
  ASSUME Base, NEW n, RemoveContainer(n)
  PROVE  /\ n \in Calls /\ Live(n) /\ edits[n].pc = "remove" /\ Body(n).do = "delete" /\ UNCHANGED <<built, listed, touched>>
         /\ Now(n, "clear", edits[n].found, edits[n].todo, {All, Body(n).id})
         /\ stored' = [i \in DOMAIN stored \ {Body(n).id} |-> stored[i]]
<1>1. /\ n \in Calls /\ Live(n) /\ edits[n].pc = "remove" /\ IsCall(edits[n]) /\ Sequential /\ CallOK(n)
  BY AtCall DEF RemoveContainer, Over
<1>2. Body(n).do = "delete"
  BY <1>1 DEF CallOK, PlaceOK, Saving, Over, Writing, Early, Following
<1>3. Now(n, "clear", edits[n].found, edits[n].todo, {All, Body(n).id})
  BY <1>1, SetsClear DEF RemoveContainer, Over
<1> QED
  BY <1>1, <1>2, <1>3 DEF RemoveContainer

LEMMA RemoveBase ==
  ASSUME Base, NEW n, RemoveContainer(n)
  PROVE  Base' /\ Onward
<1>1. /\ n \in Calls /\ Live(n) /\ edits[n].pc = "remove" /\ Body(n).do = "delete" /\ UNCHANGED <<built, listed, touched>>
      /\ Now(n, "clear", edits[n].found, edits[n].todo, {All, Body(n).id})
      /\ stored' = [i \in DOMAIN stored \ {Body(n).id} |-> stored[i]]
      /\ CallOK(n) /\ NamesOK(n)
  BY RemoveEffect DEF Base
<1>2. /\ Calls' = Calls /\ edits'[n].pc = "clear" /\ Body(n)' = Body(n) /\ ~Saving(n)' /\ Turn(n, "clear")
      /\ edits'[n].clear = {All, Body(n).id} /\ edits'[n].old = edits[n].old /\ Live(n)'
  BY <1>1, NowFacts DEF Now, Saving
<1>3. StoreStep(n) /\ StoreShapes'
  BY <1>1, <1>2, RemoveStep DEF Base, Shapes
<1>4. /\ DOMAIN stored' = DOMAIN stored \ {Body(n).id} /\ \A j \in DOMAIN stored' : stored'[j] = stored[j] /\ Carried(j)
  <2>1. DOMAIN stored' = DOMAIN stored \ {Body(n).id} /\ \A j \in DOMAIN stored' : stored'[j] = stored[j]
    BY <1>1
  <2> QED
    BY <1>1, <2>1 DEF Carried
<1>5. Onward
  <2>1. edits[n].pc \notin Changed /\ "clear" \notin {"read"} \cup Early
    BY <1>1 DEF Changed, Following, Early
  <2>2. CallShapes /\ edits'[n].ask = edits[n].ask /\ edits'[n].old.name = edits[n].old.name
    BY <1>1 DEF Base, Shapes, Now
  <2> QED
    BY <1>1, <1>2, <2>1, <2>2, AskKept
<1>6. StoredOK' /\ Distinct'
  BY <1>4, <1>5, StoredStays
<1>7. PlaceOK(n)' /\ ReadOK(n)' /\ TodoOK(n)' /\ ClearOK(n)'
  BY <1>1, <1>2 DEF PlaceOK, ReadOK, TodoOK, ClearOK, HasSaved, Writing, Early, Changed, Following
<1>8. IdOK(n)'
  <2>1. Body(n).id \in DOMAIN touched' /\ Body(n).id \notin DOMAIN stored'
    BY <1>1, <1>4 DEF CallOK, IdOK
  <2> QED
    BY <1>1, <1>2, <2>1 DEF IdOK, Writing, Early
<1>9. NamesOK(n)'
  <2>1. OldFree(n)'
    <3>1. OldFree(n)
      BY <1>1 DEF NamesOK, OldOK
    <3> QED
      BY <1>1, <1>2, <1>4, <1>5, <3>1, FreeStays
  <2> QED
    BY <1>1, <1>2, <2>1 DEF NamesOK, NameOK, AuthOK, RoleOK, OldOK, OwnOK, HasSaved
<1>10. ListShapes'
  BY <1>1, <1>2, ListsStay
<1> QED
  BY <1>1, <1>2, <1>3, <1>5, <1>6, <1>7, <1>8, <1>9, <1>10, BaseStep

-----------------------------------------------------------------------------
(* Base is inductive: a call begins.                                         *)

\* The call n has just begun.
Begun(n) ==
  /\ n = Len(edits) + 1 /\ n \in 1..Len(Saves) /\ n \in Nat
  /\ Calls' = Calls \cup {n} /\ n \notin Calls /\ \A m \in Calls : edits'[m] = edits[m]
  /\ edits'[n].with = Running
  /\ edits'[n].found = <<>> /\ edits'[n].todo = Refs(n)' /\ edits'[n].clear = {} /\ ~edits'[n].cleared
  /\ edits'[n].old.name = "" /\ edits'[n].old.flows = 0
  /\ \/ Body(n)'.do = "create" /\ edits'[n].pc = "name" /\ Body(n)'.id = <<n, "made">>
     \/ Body(n)'.do \in {"update", "delete"} /\ edits'[n].pc = "read"
     \/ Body(n)'.do = "list" /\ edits'[n].pc = "look"
     \/ Body(n)'.do = "flows" /\ edits'[n].pc = "flows"

LEMMA Beginning ==
  ASSUME Base, Len(edits) < Len(Saves), NEW ask \in Saves[Len(edits) + 1], Begins(ask)
  PROVE  \E n : Begun(n) /\ CallShapes'
<1>1. PICK n : n = Len(edits) + 1
  OBVIOUS
<1>2. Sequential /\ Len(edits) \in Nat /\ Calls = 1..Len(edits) /\ n \in 1..Len(Saves)
  BY <1>1, CallNumbers, ContainersAssumption DEF Base, Shapes, CallShapes
<1>3. IsAsk(ask)
  BY <1>1, <1>2, ContainersAssumption
<1>4. PICK asked : asked = IF ask.do = "create" THEN [ask EXCEPT !.id = <<n, "made">>] ELSE ask
  OBVIOUS
<1>5. /\ IsAsk(asked) /\ asked.do = ask.do /\ asked.refs = ask.refs /\ asked.name = ask.name
      /\ ask.do = "create" => asked.id = <<n, "made">>
  <2>1. Has(ask, {"do", "id", "name", "refs", "auth", "idx"})
    BY <1>3 DEF IsAsk
  <2>2. CASE ask.do = "create"
    <3>1. asked = [ask EXCEPT !.id = <<n, "made">>]
      BY <1>4, <2>2
    <3>2. Has(asked, {"do", "id", "name", "refs", "auth", "idx"})
      BY <2>1, <3>1 DEF Has
    <3>3. asked.do = ask.do /\ asked.refs = ask.refs /\ asked.name = ask.name /\ asked.id = <<n, "made">>
      BY <2>1, <3>1 DEF Has
    <3> QED
      BY <1>3, <2>2, <3>2, <3>3 DEF IsAsk
  <2>3. CASE ask.do # "create"
    BY <1>3, <1>4, <2>3
  <2> QED
    BY <2>2, <2>3
<1>6. PICK old : old = [Role EXCEPT !.name = ""]
  OBVIOUS
<1>7. old.name = "" /\ old.flows = 0
  BY <1>6 DEF Role
<1>8. PICK pc : pc = CASE ask.do = "create" -> "name" [] ask.do = "list" -> "look"
                       [] ask.do = "flows" -> "flows" [] OTHER -> "read"
  OBVIOUS
<1>9. \/ ask.do = "create" /\ pc = "name"
      \/ ask.do \in {"update", "delete"} /\ pc = "read"
      \/ ask.do = "list" /\ pc = "look"
      \/ ask.do = "flows" /\ pc = "flows"
  BY <1>3, <1>8 DEF IsAsk
<1>10. PICK call : call = [pc |-> pc, ask |-> asked, old |-> old, found |-> <<>>, todo |-> ask.refs \ {ask.name},
                           clear |-> {}, cleared |-> FALSE, with |-> Running]
  OBVIOUS
<1>11. edits' = Append(edits, call)
  BY <1>1, <1>4, <1>6, <1>8, <1>10 DEF Begins
<1>12. /\ IsCall(call) /\ call.pc = pc /\ call.ask = asked /\ call.old = old /\ call.found = <<>>
       /\ call.todo = ask.refs \ {ask.name} /\ call.clear = {} /\ ~call.cleared /\ call.with = Running
  <2>1. Has(call, Fields)
    BY <1>10 DEF Has, Fields
  <2>2. /\ call.pc = pc /\ call.ask = asked /\ call.old = old /\ call.found = <<>>
        /\ call.todo = ask.refs \ {ask.name} /\ call.clear = {} /\ ~call.cleared /\ call.with = Running
    BY <1>10
  <2> QED
    BY <1>5, <2>1, <2>2 DEF IsCall
<1> HIDE <1>4, <1>6, <1>8, <1>10
<1> DEFINE S == {edits[m] : m \in DOMAIN edits}
<1>13. /\ edits' \in Seq(S \cup {call}) /\ Len(edits') = n /\ DOMAIN edits' = 1..n /\ edits'[n] = call
       /\ \A m \in Calls : edits'[m] = edits[m]
  <2>1. edits \in Seq(S \cup {call})
    <3>1. edits \in Seq(S)
      BY <1>2 DEF Sequential
    <3> QED
      BY <3>1
  <2> HIDE DEF S
  <2> QED
    BY <1>1, <1>2, <1>11, <2>1
<1>14. Calls' = Calls \cup {n} /\ n \notin Calls
  BY <1>1, <1>2, <1>13 DEF Calls
<1>15. CallShapes'
  <2>1. \A m \in 1..Len(edits') : edits'[m] \in {edits'[k] : k \in DOMAIN edits'}
    BY <1>13
  <2>2. Sequential'
    BY <1>13, <2>1 DEF Sequential
  <2>3. Len(edits') <= Len(Saves)
    BY <1>2, <1>13
  <2>4. \A m \in Calls' : IsCall(edits'[m])
    BY <1>12, <1>13, <1>14 DEF Base, Shapes, CallShapes
  <2> QED
    BY <2>2, <2>3, <2>4 DEF CallShapes
<1>16. Body(n)' = asked /\ Refs(n)' = ask.refs \ {ask.name}
  BY <1>5, <1>12, <1>13 DEF Body, Refs
<1>17. /\ edits'[n].with = Running /\ edits'[n].found = <<>> /\ edits'[n].todo = Refs(n)'
       /\ edits'[n].clear = {} /\ ~edits'[n].cleared /\ edits'[n].old = old /\ edits'[n].pc = pc
       /\ Body(n)'.do = ask.do /\ (ask.do = "create" => Body(n)'.id = <<n, "made">>)
  BY <1>5, <1>12, <1>13, <1>16
<1>18. n \in Nat
  BY <1>1, <1>2
<1>19. Begun(n)
  BY <1>18, <1>1, <1>2, <1>7, <1>9, <1>13, <1>14, <1>17 DEF Begun
<1> QED
  BY <1>15, <1>19

LEMMA BeginsBase ==
  ASSUME Base, Len(edits) < Len(Saves), NEW ask \in Saves[Len(edits) + 1], Begins(ask)
  PROVE  Base' /\ Onward
<1>1. PICK n : Begun(n) /\ CallShapes'
  BY Beginning
<1>2. /\ n = Len(edits) + 1 /\ n \in 1..Len(Saves) /\ n \in Nat
      /\ Calls' = Calls \cup {n} /\ n \notin Calls /\ CallShapes' /\ \A m \in Calls : edits'[m] = edits[m]
      /\ edits'[n].with = Running
      /\ edits'[n].found = <<>> /\ edits'[n].todo = Refs(n)' /\ edits'[n].clear = {}
      /\ edits'[n].old.name = "" /\ edits'[n].old.flows = 0
      /\ \/ Body(n)'.do = "create" /\ edits'[n].pc = "name" /\ Body(n)'.id = <<n, "made">>
         \/ Body(n)'.do \in {"update", "delete"} /\ edits'[n].pc = "read"
         \/ Body(n)'.do = "list" /\ edits'[n].pc = "look"
         \/ Body(n)'.do = "flows" /\ edits'[n].pc = "flows"
  BY <1>1 DEF Begun
<1>3. UNCHANGED <<stored, touched, listed, built>>
  BY DEF Begins
<1>4. Onward
  BY <1>2 DEF Onward, Body, Calls
<1>5. StoreShapes' /\ ListShapes'
  BY <1>2, <1>3, QuietStep, ListsStay DEF Base, Shapes
<1>6. StoredOK' /\ Distinct'
  BY <1>3, <1>4, StoredStays DEF Carried
<1>7. \A m \in Calls : CallOK(m)' /\ NamesOK(m)'
  <2> TAKE m \in Calls
  <2>1. Beside(m)
    BY <1>3, QuietBeside DEF Base, Shapes
  <2>2. \A k \in Calls' \ Calls : k = Len(edits) + 1
    BY <1>1, <1>2
  <2> QED
    BY <1>2, <1>4, <2>1, <2>2, OthersCallOK, OthersNamesOK
<1>8. <<n, "made">> \notin DOMAIN touched /\ <<n, "role">> \notin DOMAIN touched
  <2> SUFFICES ASSUME NEW i \in DOMAIN touched, i \in {<<n, "made">>, <<n, "role">>}
               PROVE  FALSE
    OBVIOUS
  <2>1. Known(i)
    BY DEF Base, Shapes, StoreShapes
  <2>2. i \notin DOMAIN Existing
    BY <1>2, ContainersAssumption DEF IsContainer
  <2>3. PICK m \in Calls : i \in {<<m, "made">>, <<m, "role">>}
    BY <2>1, <2>2 DEF Known
  <2>4. m = n
    BY <2>3
  <2> QED
    BY <1>2, <2>4
<1>9. Met(n)'
  <2>1. Running \subseteq Calls /\ \A m \in Calls : Live(m) => m \in Running
    BY DEF Running, Calls, Live
  <2>2. \A m \in Calls : Live(m)' => Live(m)
    BY <1>2 DEF Live
  <2>3. \A m \in Calls' : m < n => m \in Calls
    <3>1. n \in Nat
      BY <1>2
    <3>2. ~(n < n)
      BY <3>1
    <3> QED
      BY <1>2, <3>2
  <2> QED
    BY <1>2, <2>1, <2>2, <2>3 DEF Met
<1>10. PlaceOK(n)'
  BY <1>2 DEF PlaceOK, Saving, Writing, Early
<1>11. IdOK(n)'
  <2>1. /\ edits'[n].pc \notin Changed \cup {"fill"} /\ (edits'[n].pc \in Writing => edits'[n].pc = "name")
    BY <1>2 DEF Writing, Early, Changed, Following
  <2>2. <<n, "made">> # <<n, "role">>
    OBVIOUS
  <2> QED
    BY <1>2, <1>3, <1>8, <2>1, <2>2 DEF IdOK
<1>12. ReadOK(n)'
  BY <1>2 DEF ReadOK
<1>13. TodoOK(n)'
  <2>1. DOMAIN <<>> = {}
    OBVIOUS
  <2> QED
    BY <1>2, <2>1 DEF TodoOK, Saving, Writing, Early, Changed, Following
<1>14. ClearOK(n)' /\ NamesOK(n)'
  BY <1>2 DEF ClearOK, HasSaved, NamesOK, NameOK, AuthOK, RoleOK, OldOK, OwnOK, Writing, Early, Changed, Following
<1> QED
  BY <1>2, <1>4, <1>5, <1>6, <1>7, <1>9, <1>10, <1>11, <1>12, <1>13, <1>14 DEF Base, Shapes, CallOK

LEMMA BaseInit ==
  ASSUME ContainersInit
  PROVE  Base
<1>1. stored = Existing /\ listed = <<>> /\ edits = <<>>
      /\ touched = [i \in DOMAIN Existing |-> [wrote |-> 0, named |-> 0, others |-> {}]]
  BY DEF ContainersInit
<1>2. DOMAIN <<>> = {} /\ Len(<<>>) = 0
  OBVIOUS
<1>3. Calls = {} /\ DOMAIN listed = {} /\ DOMAIN stored = DOMAIN Existing /\ DOMAIN touched = DOMAIN Existing
  BY <1>1, <1>2 DEF Calls
<1>4. CallShapes
  <2>1. Sequential
    BY <1>1 DEF Sequential
  <2> QED
    BY <1>1, <1>2, <1>3, <2>1, ContainersAssumption DEF CallShapes
<1>5. \A i \in DOMAIN touched : Has(touched[i], {"wrote", "named", "others"}) /\ touched[i].wrote = 0
                                /\ touched[i].named = 0 /\ touched[i].others = {}
  BY <1>1 DEF Has
<1>6. StoreShapes
  <2>1. \A i \in DOMAIN stored : i \in DOMAIN touched /\ Container(i)
    <3> TAKE i \in DOMAIN stored
    <3>1. IsContainer(i) /\ stored[i] = Existing[i]
      BY <1>1, <1>3, ContainersAssumption
    <3>2. DOMAIN Role = {"name", "refs", "triggers", "auth", "flows", "idx"}
      BY DEF Role
    <3>3. Has(stored[i], {"name", "refs", "triggers", "auth", "flows", "idx"})
      BY <3>1, <3>2 DEF IsContainer
    <3>4. Existing[i].name # "" /\ Existing[i].auth \in BOOLEAN /\ Existing[i].flows \in {0}
      BY <3>1, Zenon DEF IsContainer
    <3>5. stored[i] = Existing[i]
      BY <3>1
    <3>6. stored[i].name # "" /\ stored[i].flows \in {0}
      BY <3>4, <3>5
    <3>7. stored[i].auth = Existing[i].auth
      BY <3>5
    <3>8. stored[i].auth \in BOOLEAN
      BY <3>4, <3>7
    <3> QED
      BY <1>3, <3>3, <3>6, <3>8 DEF Container
  <2>2. \A i \in DOMAIN touched : By(i) = {0}
    BY <1>5 DEF By
  <2>3. \A i \in DOMAIN touched : History(i) /\ Known(i)
    BY <1>3, <1>5, <2>2 DEF History, Known
  <2> QED
    BY <2>1, <2>3 DEF StoreShapes
<1>7. ListShapes
  BY <1>3 DEF ListShapes
<1>8. StoredOK
  BY <1>1, <1>3, <1>5 DEF StoredOK, LeftBy, AtStart
<1>9. Distinct
  <2> SUFFICES ASSUME NEW i \in DOMAIN stored, NEW j \in DOMAIN stored, i # j
               PROVE  stored[i].name # stored[j].name /\ ~(stored[i].auth /\ stored[j].auth)
    BY DEF Distinct
  <2>1. Agree(i, j)
    BY <1>3, ContainersAssumption
  <2> QED
    BY <1>1, <2>1 DEF Agree
<1> QED
  BY <1>3, <1>4, <1>6, <1>7, <1>8, <1>9 DEF Base, Shapes

\* What one step does: a call begins, a call goes on, or nothing happens.
LEMMA BaseNext ==
  ASSUME Base, [ContainersNext]_containerVars
  PROVE  Base' /\ Onward
<1>1. CASE UNCHANGED containerVars
  BY <1>1, SameBase DEF containerVars
<1>2. CASE Len(edits) < Len(Saves) /\ \E ask \in Saves[Len(edits) + 1] : Begins(ask)
  BY <1>2, BeginsBase
<1>3. ASSUME NEW n, PullDropped(n) \/ PullRenamed(n)
      PROVE  Base' /\ Onward
  <2>1. PullPlaces("pull", "rename") /\ PullPlaces("rename", "reclear")
    BY DEF PullPlaces
  <2> QED
    BY <1>3, <2>1, PullBase DEF PullDropped, PullRenamed
<1> QED
  BY <1>1, <1>2, <1>3, ReadBase, CheckNameBase, CheckAuthBase, CheckRoleBase, AddRoleBase, CheckReferenceBase,
     EnsureIndexesBase, RetireBase, WriteBase, FlowsBase, RemoveBase, DropCollectionBase, ClearBase,
     AddTriggerBase, LookBase, FindBase, FillBase, BreaksBase DEF ContainersNext

-----------------------------------------------------------------------------
(* The way of a call: where a step can take it, and what it keeps of it.     *)

Leads(pc, next) ==
  \/ pc = "name" /\ next \in {"auth", "refs"}
  \/ pc = "auth" /\ next = "role"
  \/ pc = "role" /\ next \in {"refs", "newRole"}
  \/ pc = "newRole" /\ next = "refs"
  \/ pc = "refs" /\ next \in {"refs", "index"}
  \/ pc = "index" /\ next \in {"retire", "write"}
  \/ pc = "retire" /\ next = "write"
  \/ pc \in {"write", "remove"} /\ next = "clear"
  \/ pc \in {"flows", "drop"} /\ next = "reclear"
  \/ pc = "clear" /\ next \in {"drop", "trigger"}
  \/ pc = "trigger" /\ next \in {"trigger", "pull"}
  \/ pc = "pull" /\ next \in {"pull", "rename"}
  \/ pc = "rename" /\ next \in {"rename", "reclear"}
  \/ pc = "look" /\ next = "find"
  \/ pc = "find" /\ next = "fill"

Stops(n) == \E pc \in Over : Ended(n, pc) /\ (pc = "done" => edits[n].pc \in {"reclear", "look", "fill"})
GoesOn(n) ==
  \E pc, found, todo, clear :
    /\ Now(n, pc, found, todo, clear) /\ Leads(edits[n].pc, pc)
    /\ edits[n].clear \subseteq clear
    /\ edits[n].pc \notin {"refs", "find"} => found = edits[n].found
    /\ edits[n].pc = "clear" => todo = edits[n].todo
Course(n) == n \in Calls /\ Live(n) /\ (UNCHANGED edits \/ Stops(n) \/ GoesOn(n))

LEMMA GoesCourse ==
  ASSUME Base, NEW n, NEW pc, NEW next, At(n, pc), pc \notin Over, Goes(n, next),
         next \in Over \/ Leads(pc, next), next = "done" => pc \in {"reclear", "look", "fill"}
  PROVE  Course(n)
<1>1. n \in Calls /\ Live(n) /\ edits[n].pc = pc /\ IsCall(edits[n]) /\ Sequential
  BY AtCall
<1>2. CASE next \in Over
  <2>1. Ended(n, next)
    BY <1>1, <1>2, Going
  <2> QED
    BY <1>1, <1>2, <2>1 DEF Stops, Course
<1>3. CASE next \notin Over
  <2>1. Now(n, next, edits[n].found, edits[n].todo, edits[n].clear)
    BY <1>1, <1>3, Going
  <2> QED
    BY <1>1, <1>3, <2>1 DEF GoesOn, Course
<1> QED
  BY <1>2, <1>3

LEMMA NowCourse ==
  ASSUME NEW n \in Calls, Live(n), NEW pc, NEW found, NEW todo, NEW clear, Now(n, pc, found, todo, clear),
         Leads(edits[n].pc, pc), edits[n].clear \subseteq clear,
         edits[n].pc \notin {"refs", "find"} => found = edits[n].found,
         edits[n].pc = "clear" => todo = edits[n].todo
  PROVE  Course(n)
BY DEF Course, GoesOn

LEMMA EndCourse ==
  ASSUME NEW n \in Calls, Live(n), NEW pc \in Over, Ended(n, pc), pc = "done" => edits[n].pc \in {"reclear", "look", "fill"}
  PROVE  Course(n)
BY DEF Course, Stops

LEMMA ChecksCourse ==
  ASSUME Base, NEW n, CheckName(n) \/ CheckAuth(n) \/ CheckRole(n) \/ EnsureIndexes(n) \/ Retire(n) \/ DropCollection(n)
                      \/ Look(n) \/ Breaks(n)
  PROVE  Course(n) /\ UNCHANGED <<stored, touched, listed>>
<1>1. CASE CheckName(n)
  BY <1>1, GoesCourse DEF CheckName, Only, Over, Leads
<1>2. CASE CheckAuth(n)
  BY <1>2, GoesCourse DEF CheckAuth, Only, Over, Leads
<1>3. CASE CheckRole(n)
  BY <1>3, GoesCourse DEF CheckRole, Only, Over, Leads
<1>4. CASE EnsureIndexes(n)
  <2>1. /\ At(n, "index") /\ UNCHANGED <<stored, touched, listed>>
        /\ Goes(n, "retire") \/ Goes(n, "write") \/ Goes(n, "failed")
    BY <1>4 DEF EnsureIndexes
  <2> QED
    BY <2>1, GoesCourse DEF Over, Leads
<1>5. CASE Retire(n)
  <2>1. At(n, "retire") /\ (Goes(n, "write") \/ UNCHANGED edits) /\ UNCHANGED <<stored, touched, listed>>
    BY <1>5 DEF Retire
  <2>2. CASE UNCHANGED edits
    BY <2>1, <2>2, AtCall DEF Over, Course
  <2> QED
    BY <2>1, <2>2, GoesCourse DEF Over, Leads
<1>6. CASE DropCollection(n)
  BY <1>6, GoesCourse DEF DropCollection, Over, Leads
<1>7. CASE Look(n)
  BY <1>7, GoesCourse DEF Look, Only, Over, Leads
<1>8. CASE Breaks(n)
  <2>1. /\ n \in Calls /\ edits[n].pc \notin Over /\ At(n, edits[n].pc) /\ Goes(n, "failed")
        /\ UNCHANGED <<stored, touched, listed>>
    BY <1>8 DEF Breaks, Running, Only, At, Calls
  <2>2. "failed" \in Over /\ "failed" # "done"
    BY DEF Over
  <2> QED
    BY <2>1, <2>2, GoesCourse
<1> QED
  BY <1>1, <1>2, <1>3, <1>4, <1>5, <1>6, <1>7, <1>8

LEMMA ReferenceCourse ==
  ASSUME Base, NEW n, CheckReference(n)
  PROVE  Course(n) /\ edits[n].pc = "refs" /\ UNCHANGED <<stored, touched, listed, built>>
<1>1. At(n, "refs") /\ n \in Calls /\ Live(n) /\ edits[n].pc = "refs" /\ UNCHANGED <<stored, touched, listed, built>>
  BY AtCall DEF CheckReference, Over
<1>2. CASE Goes(n, "index") \/ Goes(n, "refused")
  BY <1>1, <1>2, GoesCourse DEF Over, Leads
<1>3. ASSUME NEW r \in edits[n].todo, NEW i \in Named(r) \ {Body(n).id},
             Becomes(n, [edits[n] EXCEPT !.todo = @ \ {r}, !.found = Put(@, r, i)])
      PROVE  Course(n)
  <2>1. Now(n, "refs", Put(edits[n].found, r, i), edits[n].todo \ {r}, edits[n].clear)
    BY <1>1, <1>3, ReferenceFound
  <2> QED
    BY <1>1, <2>1, NowCourse DEF Leads
<1> QED
  BY <1>1, <1>2, <1>3 DEF CheckReference

LEMMA ClearEffect ==
  ASSUME Base, NEW n, Clear(n)
  PROVE  /\ Course(n) /\ edits[n].pc \in {"clear", "reclear"} /\ UNCHANGED <<stored, touched, built>>
         /\ \E works \in BOOLEAN :
              /\ edits'[n].cleared = works
              /\ listed' = IF works THEN [k \in DOMAIN listed \ edits[n].clear |-> listed[k]] ELSE listed
         /\ edits[n].pc = "reclear" => Ended(n, "done")
         /\ edits[n].pc = "clear" => \E pc \in {"drop", "trigger"} : Now(n, pc, edits[n].found, edits[n].todo, edits[n].clear)
<1>1. /\ n \in Calls /\ Live(n) /\ edits[n].pc \in {"clear", "reclear"} /\ IsCall(edits[n]) /\ Sequential
      /\ UNCHANGED <<stored, touched, built>>
  BY AtCall DEF Clear, Over
<1> DEFINE pc == IF At(n, "reclear") THEN "done" ELSE IF Body(n).do = "delete" THEN "drop" ELSE "trigger"
<1>2. PICK works \in BOOLEAN :
        /\ listed' = IF works THEN [k \in DOMAIN listed \ edits[n].clear |-> listed[k]] ELSE listed
        /\ Becomes(n, [edits[n] EXCEPT !.pc = pc, !.cleared = works])
  BY DEF Clear
<1>3. (edits[n].pc = "reclear" /\ pc = "done") \/ (edits[n].pc = "clear" /\ pc \in {"drop", "trigger"})
  BY <1>1 DEF At, Calls
<1> HIDE DEF pc
<1>4. /\ edits'[n].cleared = works
      /\ pc \notin Over => Now(n, pc, edits[n].found, edits[n].todo, edits[n].clear)
      /\ pc \in Over => Ended(n, pc)
  BY <1>1, <1>2, Clears
<1>5. CASE edits[n].pc = "reclear"
  <2>1. Ended(n, "done")
    BY <1>3, <1>4, <1>5 DEF Over
  <2>2. Course(n)
    BY <1>1, <1>5, <2>1, EndCourse DEF Over
  <2> QED
    BY <1>1, <1>2, <1>4, <1>5, <2>1, <2>2
<1>6. CASE edits[n].pc = "clear"
  <2>1. pc \in {"drop", "trigger"} /\ Now(n, pc, edits[n].found, edits[n].todo, edits[n].clear)
    BY <1>3, <1>4, <1>6 DEF Over
  <2>2. Course(n)
    BY <1>1, <1>6, <2>1, NowCourse DEF Leads
  <2> QED
    BY <1>1, <1>2, <1>4, <1>6, <2>1, <2>2
<1> QED
  BY <1>1, <1>5, <1>6

LEMMA ListCourse ==
  ASSUME Base, NEW n, Find(n) \/ Fill(n)
  PROVE  Course(n) /\ UNCHANGED <<stored, touched, built>>
<1>1. CASE Find(n)
  <2>1. At(n, "find") /\ n \in Calls /\ Live(n) /\ edits[n].pc = "find" /\ IsCall(edits[n]) /\ Sequential
        /\ UNCHANGED <<stored, touched, built>>
    BY <1>1, AtCall DEF Find, Over
  <2>2. ASSUME Becomes(n, [edits[n] EXCEPT !.pc = "fill", !.found = View(Body(n).id)])
        PROVE  Course(n)
    <3>1. Now(n, "fill", View(Body(n).id), edits[n].todo, edits[n].clear)
      BY <2>1, <2>2, SetsFound DEF Over
    <3> QED
      BY <2>1, <3>1, NowCourse DEF Leads
  <2>3. ASSUME Goes(n, "refused")
        PROVE  Course(n)
    BY <2>1, <2>3, GoesCourse DEF Over
  <2> QED
    BY <1>1, <2>1, <2>2, <2>3 DEF Find
<1>2. CASE Fill(n)
  BY <1>2, GoesCourse DEF Fill, Over
<1> QED
  BY <1>1, <1>2

LEMMA TriggerCourse ==
  ASSUME Base, NEW n, AddTrigger(n)
  PROVE  Course(n)
<1>1. n \in Calls /\ Live(n) /\ edits[n].pc = "trigger"
  BY AddTriggerEffect
<1>2. CASE Now(n, "pull", edits[n].found, Dropped(n), edits[n].clear)
  BY <1>1, <1>2, NowCourse DEF Leads
<1>3. CASE Ended(n, "failed")
  BY <1>1, <1>3, EndCourse DEF Over
<1>4. ASSUME NEW r \in edits[n].todo, Now(n, "trigger", edits[n].found, edits[n].todo \ {r}, edits[n].clear)
      PROVE  Course(n)
  BY <1>1, <1>4, NowCourse DEF Leads
<1> QED
  BY <1>2, <1>3, <1>4, AddTriggerEffect

LEMMA PullCourse ==
  ASSUME Base, NEW n, NEW pc, NEW next, PullPlaces(pc, next), At(n, pc), Pull(n, next)
  PROVE  Course(n)
<1>1. n \in Calls /\ Live(n) /\ edits[n].pc = pc
  BY PullEffect
<1>2. pc \in {"pull", "rename"} /\ Leads(pc, pc) /\ Leads(pc, next)
  BY DEF PullPlaces, Leads
<1>3. CASE Now(n, next, edits[n].found, Kept(n), edits[n].clear)
  BY <1>1, <1>2, <1>3, NowCourse
<1>4. ASSUME NEW todo, NEW more, Now(n, pc, edits[n].found, todo, edits[n].clear \cup more)
      PROVE  Course(n)
  BY <1>1, <1>2, <1>4, NowCourse
<1>5. ASSUME NEW todo, Now(n, pc, edits[n].found, todo, edits[n].clear)
      PROVE  Course(n)
  BY <1>1, <1>2, <1>5, NowCourse
<1> QED
  BY <1>3, <1>4, <1>5, PullEffect

\* The container is read, and the call goes on with it.
ReadBy(n, pc) ==
  /\ Turn(n, pc) /\ Body(n).id \in DOMAIN stored /\ edits'[n].old = stored[Body(n).id]
  /\ edits'[n].found = edits[n].found /\ edits'[n].todo = edits[n].todo /\ edits'[n].clear = edits[n].clear

LEMMA ReadEffect ==
  ASSUME Base, NEW n, Read(n)
  PROVE  /\ n \in Calls /\ Live(n) /\ edits[n].pc = "read" /\ UNCHANGED <<stored, touched, built, listed>>
         /\ (Course(n) /\ Ended(n, "refused")) \/ \E pc \in {"remove", "name"} : ReadBy(n, pc)
<1>1. n \in Calls /\ Live(n) /\ edits[n].pc = "read" /\ IsCall(edits[n]) /\ Sequential
      /\ UNCHANGED <<stored, touched, built, listed>>
  BY AtCall DEF Read, Over
<1>2. CASE Goes(n, "refused")
  <2>1. Ended(n, "refused")
    BY <1>1, <1>2, Going DEF Over
  <2>2. Course(n)
    BY <1>2, GoesCourse DEF Read, Over
  <2> QED
    BY <1>1, <2>1, <2>2
<1>3. ASSUME NEW pc \in {"remove", "name"}, NEW auth, Body(n).id \in DOMAIN stored,
             Becomes(n, [edits[n] EXCEPT !.pc = pc, !.old = stored[Body(n).id], !.ask.auth = auth])
      PROVE  ReadBy(n, pc)
  <2>1. pc \notin Over
    BY DEF Over
  <2>2. PICK old : old = stored[Body(n).id]
    OBVIOUS
  <2>3. Becomes(n, [edits[n] EXCEPT !.pc = pc, !.old = old, !.ask.auth = auth])
    BY <1>3, <2>2
  <2>4. n \in Calls /\ IsCall(edits[n]) /\ Sequential
    BY <1>1
  <2>5. /\ Turn(n, pc) /\ edits'[n].old = old /\ edits'[n].ask = [edits[n].ask EXCEPT !.auth = auth]
        /\ edits'[n].found = edits[n].found /\ edits'[n].todo = edits[n].todo /\ edits'[n].clear = edits[n].clear
    BY <2>1, <2>3, <2>4, Reads
  <2> QED
    BY <1>3, <2>2, <2>5 DEF ReadBy
<1>4. [edits[n] EXCEPT !.pc = IF Body(n).do = "delete" THEN "remove" ELSE "name",
                       !.old = stored[Body(n).id], !.ask.auth = IF @ = {} THEN {stored[Body(n).id].auth} ELSE @]
        = [edits[n] EXCEPT !.pc = IF Body(n).do = "delete" THEN "remove" ELSE "name",
                           !.old = stored[Body(n).id], !.ask.auth = IF Body(n).auth = {} THEN {stored[Body(n).id].auth} ELSE Body(n).auth]
  BY DEF Body
<1>5. \/ Goes(n, "refused")
      \/ /\ Body(n).id \in DOMAIN stored
         /\ \E pc \in {"remove", "name"} : \E auth :
              Becomes(n, [edits[n] EXCEPT !.pc = pc, !.old = stored[Body(n).id], !.ask.auth = auth])
  BY <1>4 DEF Read
<1> QED
  BY <1>1, <1>2, <1>3, <1>5

LEMMA SavesCourse ==
  ASSUME Base, NEW n, AddRole(n) \/ WriteContainer(n) \/ UpdateFlows(n) \/ RemoveContainer(n)
  PROVE  Course(n)
<1>1. CASE AddRole(n)
  <2>1. n \in Calls /\ Live(n) /\ edits[n].pc = "newRole" /\ CallOK(n)
    BY <1>1, AddRoleEffect DEF Base
  <2>2. CASE Ended(n, "failed")
    BY <2>1, <2>2, EndCourse DEF Over
  <2>3. CASE Now(n, "refs", <<>>, Refs(n), {})
    <3>1. edits[n].found = <<>> /\ edits[n].clear = {}
      BY <2>1 DEF CallOK, TodoOK, ClearOK, Early, Changed, Following
    <3> QED
      BY <2>1, <2>3, <3>1, NowCourse DEF Leads
  <2> QED
    BY <1>1, <2>2, <2>3, AddRoleEffect
<1>2. CASE WriteContainer(n)
  <2>1. n \in Calls /\ Live(n) /\ edits[n].pc = "write" /\ CallOK(n)
    BY <1>2, WriteEffect DEF Base
  <2>2. ASSUME NEW pc \in {"refused", "failed"}, Ended(n, pc)
        PROVE  Course(n)
    BY <2>1, <2>2, EndCourse DEF Over
  <2>3. CASE Now(n, "clear", edits[n].found, Refs(n), ToClear(n))
    <3>1. edits[n].clear = {}
      BY <2>1 DEF CallOK, ClearOK, Changed, Following
    <3> QED
      BY <2>1, <2>3, <3>1, NowCourse DEF Leads
  <2> QED
    BY <1>2, <2>2, <2>3, WriteEffect
<1>3. CASE UpdateFlows(n)
  <2>1. n \in Calls /\ Live(n) /\ edits[n].pc = "flows" /\ CallOK(n)
    BY <1>3, FlowsEffect DEF Base
  <2>2. CASE Ended(n, "refused")
    BY <2>1, <2>2, EndCourse DEF Over
  <2>3. CASE Now(n, "reclear", edits[n].found, edits[n].todo, {All, Body(n).id})
    <3>1. edits[n].clear = {}
      BY <2>1 DEF CallOK, ClearOK, Changed, Following
    <3> QED
      BY <2>1, <2>3, <3>1, NowCourse DEF Leads
  <2> QED
    BY <1>3, <2>2, <2>3, FlowsEffect
<1>4. CASE RemoveContainer(n)
  <2>1. n \in Calls /\ Live(n) /\ edits[n].pc = "remove" /\ CallOK(n)
        /\ Now(n, "clear", edits[n].found, edits[n].todo, {All, Body(n).id})
    BY <1>4, RemoveEffect DEF Base
  <2>2. edits[n].clear = {}
    BY <2>1 DEF CallOK, ClearOK, Changed, Following
  <2> QED
    BY <2>1, <2>2, NowCourse DEF Leads
<1> QED
  BY <1>1, <1>2, <1>3, <1>4

LEMMA WritingStays ==
  ASSUME Base, NEW n, Course(n), NEW m \in Calls, edits'[m].pc \in Writing
  PROVE  edits[m].pc \in Writing /\ edits'[m].old = edits[m].old /\ Body(m)' = Body(m) /\ Live(m)
<1>1. CASE UNCHANGED edits \/ m # n
  <2>1. edits'[m] = edits[m]
    BY <1>1 DEF Course, Stops, GoesOn, Now, Ended, Turn
  <2> QED
    BY <2>1 DEF Body, Live, Over, Writing, Early
<1>2. CASE Stops(n) /\ m = n
  BY <1>2 DEF Stops, Ended, Turn, Over, Writing, Early
<1>3. CASE GoesOn(n) /\ m = n
  <2>1. PICK pc, found, todo, clear : Now(n, pc, found, todo, clear) /\ Leads(edits[n].pc, pc)
    BY <1>3 DEF GoesOn
  <2>2. edits'[n].pc = pc /\ Body(n)' = Body(n) /\ edits'[n].old = edits[n].old
    BY <1>3, <2>1, NowFacts
  <2>3. edits[n].pc \in Writing
    BY <1>3, <2>1, <2>2 DEF Leads, Writing, Early
  <2> QED
    BY <1>3, <2>2, <2>3 DEF Course
<1> QED
  BY <1>1, <1>2, <1>3 DEF Course

LEMMA CrossedStays ==
  ASSUME Base, Onward, NEW j \in DOMAIN touched, By(j) \subseteq By(j)', NEW a \in Calls \cup {0}, Crossed(j, a)
  PROVE  Crossed(j, a)'
<1>1. PICK p \in By(j) : Overlap(p, a)
  BY DEF Crossed
<1>2. p \in Calls \cup {0}
  BY DEF Base, Shapes, StoreShapes, History
<1>3. Overlap(p, a)'
  BY <1>1, <1>2, OverlapStays
<1> QED
  BY <1>1, <1>3 DEF Crossed

-----------------------------------------------------------------------------
(* Saved workflows stay.                                                     *)

FlowsOf(i) ==
  \A n \in By(i) : n # 0 /\ Body(n).do = "flows" /\ n > stored[i].flows => Crossed(i, n)
FlowsInv == (\A i \in DOMAIN stored : FlowsOf(i)) /\ \A n \in Calls : FlowsRead(n)

\* No call has saved workflows of i in this step.
NoFlows(i) == By(i) \subseteq By(i)' /\ \A m \in By(i)' : m \in By(i) \/ Body(m)'.do # "flows"

LEMMA FlowsStay ==
  ASSUME Base, Onward, NEW i \in DOMAIN touched, NoFlows(i), NEW flows,
         \A m \in By(i) : m # 0 /\ Body(m).do = "flows" /\ m > flows => Crossed(i, m)
  PROVE  \A m \in By(i)' : m # 0 /\ Body(m)'.do = "flows" /\ m > flows => Crossed(i, m)'
<1> SUFFICES ASSUME NEW m \in By(i)', m # 0, Body(m)'.do = "flows", m > flows
             PROVE  Crossed(i, m)'
  OBVIOUS
<1>1. m \in By(i) /\ By(i) \subseteq By(i)'
  BY DEF NoFlows
<1>2. m \in Calls
  BY <1>1 DEF Base, Shapes, StoreShapes, History
<1>3. Body(m).do = "flows"
  BY <1>2 DEF Onward
<1> QED
  BY <1>1, <1>2, <1>3, CrossedStays

LEMMA FlowsReadStays ==
  ASSUME Base, Onward, NEW n \in Calls, FlowsRead(n),
         edits'[n].pc \in Writing => edits[n].pc \in Writing /\ edits'[n].old = edits[n].old,
         \A i \in DOMAIN touched : i = Body(n).id => NoFlows(i)
  PROVE  FlowsRead(n)'
<1>1. PICK i : i = Body(n).id
  OBVIOUS
<1>2. Body(n)'.id = i /\ Body(n)'.do = Body(n).do
  BY <1>1 DEF Onward
<1> SUFFICES ASSUME edits'[n].pc \in Writing, Body(n)'.do = "update", NEW m \in By(i)',
                    m # 0, Body(m)'.do = "flows", m > edits'[n].old.flows
             PROVE  Overlap(n, m)' \/ \E p \in By(i)' : Overlap(p, m)'
  BY <1>2 DEF FlowsRead
<1>3. edits[n].pc \in Writing /\ edits'[n].old = edits[n].old /\ Body(n).do = "update"
  BY <1>2
<1>4. i \in DOMAIN touched
  BY <1>1, <1>3 DEF Base, CallOK, IdOK, Live, Writing, Early, Over
<1>5. m \in By(i) /\ By(i) \subseteq By(i)'
  BY <1>1, <1>4 DEF NoFlows
<1>6. m \in Calls
  BY <1>4, <1>5 DEF Base, Shapes, StoreShapes, History
<1>7. Body(m).do = "flows"
  BY <1>6 DEF Onward
<1>8. Overlap(n, m) \/ Crossed(i, m)
  BY <1>1, <1>3, <1>5, <1>7 DEF FlowsRead, Crossed
<1>9. Overlap(n, m) => Overlap(n, m)'
  BY <1>6, OverlapStays
<1>10. Crossed(i, m) => Crossed(i, m)'
  BY <1>4, <1>5, <1>6, CrossedStays
<1> QED
  BY <1>8, <1>9, <1>10 DEF Crossed

\* A step that saves no workflows, and puts none back.
LEMMA FlowsInvStays ==
  ASSUME Base, Onward, FlowsInv, Calls' = Calls, NEW n, Course(n),
         \A i \in DOMAIN touched : NoFlows(i),
         \A i \in DOMAIN stored' :
           \/ i \in DOMAIN stored /\ stored'[i].flows = stored[i].flows
           \/ \A m \in By(i)' : m # 0 /\ Body(m)'.do = "flows" /\ m > stored'[i].flows => Crossed(i, m)'
  PROVE  FlowsInv'
<1>1. ASSUME NEW m \in Calls
      PROVE  FlowsRead(m)'
  BY <1>1, WritingStays, FlowsReadStays DEF FlowsInv
<1>2. ASSUME NEW i \in DOMAIN stored'
      PROVE  FlowsOf(i)'
  <2>1. CASE i \in DOMAIN stored /\ stored'[i].flows = stored[i].flows
    <3>1. i \in DOMAIN touched
      BY <2>1 DEF Base, Shapes, StoreShapes
    <3>2. \A m \in By(i) : m # 0 /\ Body(m).do = "flows" /\ m > stored[i].flows => Crossed(i, m)
      BY <2>1 DEF FlowsInv, FlowsOf
    <3>3. \A m \in By(i)' : m # 0 /\ Body(m)'.do = "flows" /\ m > stored[i].flows => Crossed(i, m)'
      BY <3>1, <3>2, FlowsStay
    <3> QED
      BY <2>1, <3>3 DEF FlowsOf
  <2> QED
    BY <1>2, <2>1 DEF FlowsOf
<1> QED
  BY <1>1, <1>2 DEF FlowsInv

LEMMA QuietFlows ==
  ASSUME Base, Onward, FlowsInv, Calls' = Calls, NEW n, Course(n), UNCHANGED touched,
         \A i \in DOMAIN stored' : i \in DOMAIN stored /\ stored'[i] = stored[i]
  PROVE  FlowsInv'
<1>1. \A i \in DOMAIN touched : NoFlows(i)
  BY DEF NoFlows, By
<1> QED
  BY <1>1, FlowsInvStays

LEMMA CourseNumbers ==
  ASSUME NEW n, Course(n)
  PROVE  n \in Calls /\ Live(n) /\ Calls' = Calls
BY DEF Course, Stops, GoesOn, Now, Ended, Turn, Calls

LEMMA RelistFlows ==
  ASSUME Base, Onward, FlowsInv, NEW n, Course(n), Saving(n), NEW i \in DOMAIN stored, NEW triggers, Relists(n, i, triggers)
  PROVE  FlowsInv'
<1>1. n \in Calls /\ Calls' = Calls /\ Body(n)'.do # "flows"
  BY CourseNumbers DEF Saving, Onward
<1>2. Amended(i, n) /\ stored'[i].flows = stored[i].flows
  BY <1>1, RelistStep DEF Base, Shapes
<1>3. \A j \in DOMAIN touched : NoFlows(j)
  <2> TAKE j \in DOMAIN touched
  <2>1. CASE j = i
    BY <1>1, <1>2, <2>1 DEF Amended, NoFlows
  <2>2. CASE j # i
    BY <1>2, <2>2 DEF Amended, NoFlows, By
  <2> QED
    BY <2>1, <2>2
<1>4. \A j \in DOMAIN stored' : j \in DOMAIN stored /\ stored'[j].flows = stored[j].flows
  BY <1>2 DEF Amended
<1> QED
  BY <1>1, <1>3, <1>4, FlowsInvStays

\* The container i is written: what is put back was not older than what it met.
LEMMA WrittenFlows ==
  ASSUME Base, Onward, FlowsInv, NEW n, Course(n), Saving(n), NEW i, NEW new, NEW mark, Written(i, n, new, mark),
         \/ i \notin DOMAIN touched
         \/ i = Body(n).id /\ Body(n).do = "update" /\ edits[n].pc = "write" /\ new.flows = edits[n].old.flows
  PROVE  FlowsInv'
<1>1. n \in Calls /\ Calls' = Calls /\ Body(n)'.do # "flows"
  BY CourseNumbers DEF Saving, Onward
<1>2. /\ DOMAIN stored' = DOMAIN stored \cup {i} /\ stored'[i] = new
      /\ \A j \in DOMAIN stored' \ {i} : j \in DOMAIN stored /\ stored'[j] = stored[j]
      /\ \A j \in DOMAIN touched' \ {i} : touched'[j] = touched[j]
      /\ DOMAIN touched' = DOMAIN touched \cup {i} /\ n \in By(i)'
      /\ (i \notin DOMAIN touched => By(i)' = {n})
      /\ (i \in DOMAIN touched => By(i)' \subseteq By(i) \cup {n})
  BY DEF Written
<1>3. \A j \in DOMAIN touched : By(j) \subseteq By(j)'
  <2>1. \A j \in DOMAIN touched \ {i} : By(j) \subseteq By(j)'
    BY <1>2 DEF By
  <2>2. i \in DOMAIN touched => By(i) \subseteq By(i)'
    BY DEF Written
  <2> QED
    BY <2>1, <2>2
<1>4. \A j \in DOMAIN touched : NoFlows(j)
  <2> TAKE j \in DOMAIN touched
  <2>1. CASE j = i
    BY <1>1, <1>2, <1>3, <2>1 DEF NoFlows
  <2>2. CASE j # i
    BY <1>2, <2>2 DEF NoFlows, By
  <2> QED
    BY <2>1, <2>2
<1>5. \A m \in By(i)' : m # 0 /\ Body(m)'.do = "flows" /\ m > new.flows => Crossed(i, m)'
  <2>1. CASE i \notin DOMAIN touched
    BY <1>1, <1>2, <2>1
  <2>2. CASE /\ i \in DOMAIN touched
             /\ i = Body(n).id /\ Body(n).do = "update" /\ edits[n].pc = "write" /\ new.flows = edits[n].old.flows
    <3> TAKE m \in By(i)'
    <3> HAVE m # 0 /\ Body(m)'.do = "flows" /\ m > new.flows
    <3>1. m \in By(i)
      BY <1>1, <1>2, <2>2
    <3>2. m \in Calls
      BY <2>2, <3>1 DEF Base, Shapes, StoreShapes, History
    <3>3. Body(m).do = "flows"
      BY <3>2 DEF Onward
    <3>4. Overlap(n, m) \/ Crossed(i, m)
      BY <1>1, <2>2, <3>1, <3>3 DEF FlowsInv, FlowsRead, Crossed, Writing
    <3>5. CASE Overlap(n, m)
      <4>1. Overlap(n, m)'
        BY <1>1, <3>2, <3>5, OverlapStays
      <4> QED
        BY <1>2, <4>1 DEF Crossed
    <3>6. CASE Crossed(i, m)
      BY <1>3, <2>2, <3>2, <3>6, CrossedStays
    <3> QED
      BY <3>4, <3>5, <3>6
  <2> QED
    BY <2>1, <2>2
<1>6. \A j \in DOMAIN stored' :
        \/ j \in DOMAIN stored /\ stored'[j].flows = stored[j].flows
        \/ \A m \in By(j)' : m # 0 /\ Body(m)'.do = "flows" /\ m > stored'[j].flows => Crossed(j, m)'
  BY <1>2, <1>5
<1> QED
  BY <1>1, <1>4, <1>6, FlowsInvStays

\* The workflows of i are saved by n; who saved them later overlapped n.
LEMMA FlowsSaved ==
  ASSUME Base, Onward, FlowsInv, NEW n, Course(n), edits[n].pc = "flows", Body(n).id \in DOMAIN stored,
         stored' = [stored EXCEPT ![Body(n).id].flows = n],
         touched' = [touched EXCEPT ![Body(n).id].others = @ \cup {n}]
  PROVE  FlowsInv'
<1>1. n \in Calls /\ Calls' = Calls /\ Live(n) /\ Sequential /\ \A m \in Calls : Met(m)
  BY CourseNumbers DEF Base, Shapes, CallShapes, CallOK
<1>2. PICK i : i = Body(n).id
  OBVIOUS
<1>3. Amended(i, n) /\ stored'[i].flows = n /\ i \in DOMAIN stored /\ i \in DOMAIN touched
  BY <1>1, <1>2, FlowsStep DEF Base, Shapes, StoreShapes
<1>4. \A j \in DOMAIN touched : By(j) \subseteq By(j)' /\ (j # i => By(j)' = By(j))
  BY <1>3 DEF Amended, By
<1>5. ASSUME NEW m \in Calls
      PROVE  FlowsRead(m)'
  <2>1. CASE Body(m).id # i
    BY <1>4, <1>5, <2>1, WritingStays, FlowsReadStays DEF FlowsInv, NoFlows
  <2>2. CASE Body(m).id = i
    <3> SUFFICES ASSUME edits'[m].pc \in Writing, Body(m)'.do = "update", NEW k \in By(i)',
                        k # 0, Body(k)'.do = "flows", k > edits'[m].old.flows
                 PROVE  Overlap(m, k)' \/ Crossed(i, k)'
      BY <2>2 DEF FlowsRead, Onward, Crossed
    <3>1. edits[m].pc \in Writing /\ edits'[m].old = edits[m].old /\ Live(m) /\ Body(m).do = "update"
      BY WritingStays DEF Onward
    <3>2. CASE k = n
      <4>1. m # n
        BY <3>1 DEF Writing, Early
      <4>2. Overlap(m, n)
        BY <1>1, <3>1, <4>1, Together
      <4> QED
        BY <1>1, <3>2, <4>2, OverlapStays
    <3>3. CASE k # n
      <4>1. k \in By(i)
        BY <1>3, <3>3 DEF Amended
      <4>2. k \in Calls
        BY <1>3, <4>1 DEF Base, Shapes, StoreShapes, History
      <4>3. Body(k).do = "flows"
        BY <4>2 DEF Onward
      <4>4. Overlap(m, k) \/ Crossed(i, k)
        BY <2>2, <3>1, <4>1, <4>3 DEF FlowsInv, FlowsRead, Crossed
      <4> QED
        BY <1>3, <1>4, <4>2, <4>4, OverlapStays, CrossedStays
    <3> QED
      BY <3>2, <3>3
  <2> QED
    BY <2>1, <2>2
<1>6. ASSUME NEW j \in DOMAIN stored'
      PROVE  FlowsOf(j)'
  <2>1. j \in DOMAIN stored /\ j \in DOMAIN touched
    BY <1>3 DEF Amended, Base, Shapes, StoreShapes
  <2>2. CASE j # i
    <3>1. stored'[j] = stored[j] /\ NoFlows(j)
      BY <1>3, <1>4, <2>1, <2>2 DEF Amended, NoFlows
    <3>2. \A m \in By(j) : m # 0 /\ Body(m).do = "flows" /\ m > stored[j].flows => Crossed(j, m)
      BY <2>1 DEF FlowsInv, FlowsOf
    <3>3. \A m \in By(j)' : m # 0 /\ Body(m)'.do = "flows" /\ m > stored[j].flows => Crossed(j, m)'
      BY <2>1, <3>1, <3>2, FlowsStay
    <3> QED
      BY <3>1, <3>3 DEF FlowsOf
  <2>3. CASE j = i
    <3> SUFFICES ASSUME NEW k \in By(i)', k # 0, k > n
                 PROVE  Crossed(i, k)'
      BY <1>3, <2>3 DEF FlowsOf
    <3>1. n \in Nat
      BY <1>1, CallNumbers
    <3>2. k \in By(i) /\ n \in By(i)'
      BY <1>3, <3>1 DEF Amended
    <3>3. k \in Calls
      BY <1>3, <3>2 DEF Base, Shapes, StoreShapes, History
    <3>4. k \in Nat
      BY <1>1, <3>3, CallNumbers
    <3>5. Overlap(n, k)
      BY <1>1, <3>1, <3>3, <3>4, BeganDuring
    <3>6. Overlap(n, k)'
      BY <1>1, <3>3, <3>5, OverlapStays
    <3> QED
      BY <3>2, <3>6 DEF Crossed
  <2> QED
    BY <2>2, <2>3
<1> QED
  BY <1>1, <1>5, <1>6 DEF FlowsInv

LEMMA FlowsNext ==
  ASSUME Base, Base', Onward, FlowsInv, [ContainersNext]_containerVars
  PROVE  FlowsInv'
<1>1. ASSUME UNCHANGED <<stored, touched, edits>>
      PROVE  FlowsInv'
  BY <1>1 DEF FlowsInv, FlowsOf, FlowsRead, Crossed, Overlap, By, Body, Calls
<1>2. ASSUME Len(edits) < Len(Saves), NEW ask \in Saves[Len(edits) + 1], Begins(ask)
      PROVE  FlowsInv'
  <2>1. PICK n : Begun(n)
    BY <1>2, Beginning
  <2>2. UNCHANGED <<stored, touched>>
    BY <1>2 DEF Begins
  <2>3. \A i \in DOMAIN touched : NoFlows(i)
    BY <2>2 DEF NoFlows, By
  <2>4. \A m \in Calls : FlowsRead(m)'
    <3> TAKE m \in Calls
    <3>1. edits'[m] = edits[m] /\ FlowsRead(m)
      BY <2>1 DEF Begun, FlowsInv
    <3> QED
      BY <2>3, <3>1, FlowsReadStays
  <2>5. FlowsRead(n)'
    BY <2>1 DEF Begun, FlowsRead, Writing, Early
  <2>6. \A i \in DOMAIN stored' : FlowsOf(i)'
    <3> TAKE i \in DOMAIN stored'
    <3>1. i \in DOMAIN touched /\ FlowsOf(i)
      BY <2>2 DEF Base, Shapes, StoreShapes, FlowsInv
    <3> QED
      BY <2>2, <2>3, <3>1, FlowsStay DEF FlowsOf
  <2> QED
    BY <2>1, <2>4, <2>5, <2>6 DEF FlowsInv, Begun
<1>3. ASSUME NEW n, CheckName(n) \/ CheckAuth(n) \/ CheckRole(n) \/ EnsureIndexes(n) \/ Retire(n) \/ DropCollection(n)
                    \/ Look(n) \/ Breaks(n) \/ CheckReference(n) \/ Clear(n) \/ Find(n) \/ Fill(n)
      PROVE  FlowsInv'
  <2>1. Course(n) /\ UNCHANGED <<stored, touched>>
    BY <1>3, ChecksCourse, ReferenceCourse, ClearEffect, ListCourse
  <2> QED
    BY <2>1, CourseNumbers, QuietFlows
<1>4. ASSUME NEW n, Read(n)
      PROVE  FlowsInv'
  <2>1. n \in Calls /\ UNCHANGED <<stored, touched>>
    BY <1>4, ReadEffect
  <2>2. CASE Course(n)
    BY <2>1, <2>2, CourseNumbers, QuietFlows
  <2>3. ASSUME NEW pc \in {"remove", "name"}, ReadBy(n, pc)
        PROVE  FlowsInv'
    <3>1. Calls' = Calls /\ \A m \in Calls \ {n} : edits'[m] = edits[m]
      BY <2>3 DEF ReadBy, Turn, Calls
    <3>2. \A i \in DOMAIN touched : NoFlows(i)
      BY <2>1 DEF NoFlows, By
    <3>3. \A m \in Calls \ {n} : FlowsRead(m)'
      <4> TAKE m \in Calls \ {n}
      <4>1. edits'[m] = edits[m] /\ FlowsRead(m)
        BY <3>1 DEF FlowsInv
      <4> QED
        BY <3>2, <4>1, FlowsReadStays
    <3>4. \A i \in DOMAIN stored' : FlowsOf(i)'
      <4> TAKE i \in DOMAIN stored'
      <4>1. i \in DOMAIN touched /\ FlowsOf(i)
        BY <2>1 DEF Base, Shapes, StoreShapes, FlowsInv
      <4> QED
        BY <2>1, <3>2, <4>1, FlowsStay DEF FlowsOf
    <3>5. FlowsRead(n)'
      <4>1. PICK i : i = Body(n).id
        OBVIOUS
      <4>2. i \in DOMAIN stored' /\ FlowsOf(i)' /\ edits'[n].old.flows = stored'[i].flows
        BY <2>1, <2>3, <3>4, <4>1 DEF ReadBy
      <4>3. Body(n)'.id = i
        BY <2>1, <4>1 DEF Onward
      <4> QED
        BY <4>2, <4>3 DEF FlowsOf, FlowsRead, Crossed
    <3> QED
      BY <3>1, <3>3, <3>4, <3>5 DEF FlowsInv
  <2> QED
    BY <1>4, <2>2, <2>3, ReadEffect
<1>5. ASSUME NEW n, AddRole(n)
      PROVE  FlowsInv'
  <2>1. Course(n) /\ Saving(n) /\ n \in Calls
    BY <1>5, SavesCourse, AddRoleEffect
  <2>2. CASE UNCHANGED <<stored, touched>>
    BY <2>1, <2>2, CourseNumbers, QuietFlows
  <2>3. CASE /\ <<n, "role">> \notin DOMAIN touched /\ stored' = Put(stored, <<n, "role">>, Role)
             /\ touched' = Put(touched, <<n, "role">>, [wrote |-> n, named |-> n, others |-> {}])
    <3>1. PICK i, mark : i = <<n, "role">> /\ Written(i, n, Role, mark)
      BY <2>1, <2>3, CourseNumbers, WritesRole
    <3> QED
      BY <2>1, <2>3, <3>1, WrittenFlows
  <2> QED
    BY <1>5, <2>2, <2>3, AddRoleEffect
<1>6. ASSUME NEW n, WriteContainer(n)
      PROVE  FlowsInv'
  <2>1. Course(n) /\ Saving(n) /\ n \in Calls /\ edits[n].pc = "write"
    BY <1>6, SavesCourse, WriteEffect
  <2>2. CASE UNCHANGED <<stored, touched>>
    BY <2>1, <2>2, CourseNumbers, QuietFlows
  <2>3. CASE /\ Body(n).id \in DOMAIN stored \/ (Body(n).id = <<n, "made">> /\ Body(n).id \notin DOMAIN touched)
             /\ Body(n).do = "create" => Body(n).id \notin DOMAIN touched
             /\ stored' = Put(stored, Body(n).id, Made(n))
             /\ Wrote(Body(n).id, n, Body(n).name # edits[n].old.name)
    <3>1. PICK i, mark : i = Body(n).id /\ Written(i, n, Made(n), mark)
      BY <2>1, <2>3, CourseNumbers, WritesMade
    <3>2. Made(n).flows = edits[n].old.flows
      BY DEF Made
    <3>3. i \notin DOMAIN touched \/ Body(n).do = "update"
      BY <2>1, <2>3, <3>1 DEF Saving
    <3> QED
      BY <2>1, <3>1, <3>2, <3>3, WrittenFlows
  <2> QED
    BY <1>6, <2>2, <2>3, WriteEffect
<1>7. ASSUME NEW n, UpdateFlows(n)
      PROVE  FlowsInv'
  <2>1. Course(n) /\ n \in Calls /\ edits[n].pc = "flows"
    BY <1>7, SavesCourse, FlowsEffect
  <2>2. CASE UNCHANGED <<stored, touched>>
    BY <2>1, <2>2, CourseNumbers, QuietFlows
  <2>3. CASE /\ Body(n).id \in DOMAIN stored
             /\ stored' = [stored EXCEPT ![Body(n).id].flows = n]
             /\ touched' = [touched EXCEPT ![Body(n).id].others = @ \cup {n}]
    BY <2>1, <2>3, FlowsSaved
  <2> QED
    BY <1>7, <2>2, <2>3, FlowsEffect
<1>8. ASSUME NEW n, RemoveContainer(n)
      PROVE  FlowsInv'
  <2>1. Course(n) /\ UNCHANGED touched /\ stored' = [i \in DOMAIN stored \ {Body(n).id} |-> stored[i]]
    BY <1>8, SavesCourse, RemoveEffect
  <2> QED
    BY <2>1, CourseNumbers, QuietFlows
<1>9. ASSUME NEW n, AddTrigger(n)
      PROVE  FlowsInv'
  <2>1. Course(n) /\ Saving(n)
    BY <1>9, TriggerCourse, AddTriggerEffect
  <2> QED
    BY <1>9, <2>1, AddTriggerEffect, CourseNumbers, QuietFlows, RelistFlows
<1>10. ASSUME NEW n, PullDropped(n) \/ PullRenamed(n)
       PROVE  FlowsInv'
  <2>1. PICK pc, next : PullPlaces(pc, next) /\ At(n, pc) /\ Pull(n, next)
    BY <1>10 DEF PullPlaces, PullDropped, PullRenamed
  <2>2. Course(n) /\ Saving(n)
    BY <2>1, PullCourse, PullEffect
  <2>3. UNCHANGED <<stored, touched>> \/ \E i \in DOMAIN stored : \E triggers : Relists(n, i, triggers)
    <3>1. ASSUME NEW r, NEW i \in Named(r), Relists(n, i, stored[i].triggers \ {edits[n].old.name})
          PROVE  \E j \in DOMAIN stored : \E triggers : Relists(n, j, triggers)
      BY <3>1 DEF Named
    <3> QED
      BY <2>1, <3>1, PullEffect
  <2> QED
    BY <2>2, <2>3, CourseNumbers, QuietFlows, RelistFlows
<1>11. CASE UNCHANGED containerVars
  BY <1>1, <1>11 DEF containerVars
<1> QED
  BY <1>2, <1>3, <1>4, <1>5, <1>6, <1>7, <1>8, <1>9, <1>10, <1>11 DEF ContainersNext

-----------------------------------------------------------------------------
(* A container that is referred to invalidates the caches of those that      *)
(* refer to it.                                                              *)

InvalInv ==
  Invalidating /\ \A n \in Calls : FoundOK(n) /\ Relisting(n) /\ TriggersRead(n)

\* In this step n takes x from the list of caches of j, because it no longer
\* refers to it or has another name now.
Pulls(n, j, x) ==
  /\ Saving(n) /\ edits[n].pc \in {"pull", "rename"}
  /\ stored[j].name \in edits[n].todo /\ x = edits[n].old.name

\* An update that keeps the name puts back the list of caches it has read.
PutsBack(j, n) ==
  /\ edits[n].pc = "write" /\ j = Body(n).id /\ Body(n).do = "update" /\ edits[n].old.name = Body(n).name
  /\ stored'[j].name = Body(n).name /\ edits[n].old.triggers \subseteq stored'[j].triggers
  /\ touched'[j].named = touched[j].named /\ j \in DOMAIN touched

Impact(n) ==
  /\ StoreStep(n)
  /\ \A j \in DOMAIN stored' :
       n \in By(j)' \/ (j \in DOMAIN stored /\ stored'[j] = stored[j] /\ touched'[j] = touched[j])
  /\ \A j \in DOMAIN stored' :
       \/ Carried(j)
       \/ Rewritten(j, n) /\ edits'[n].pc # "done" /\ (touched'[j].named = n \/ PutsBack(j, n))
  /\ \A j \in DOMAIN touched : touched'[j].named = touched[j].named \/ (touched'[j].named = n /\ n \in By(j)')
  /\ \A j \in DOMAIN stored' : Carried(j) => \A x \in stored[j].triggers : x \in stored'[j].triggers \/ Pulls(n, j, x)

LEMMA InvalidatingIs ==
  ASSUME Invalidating, NEW i \in DOMAIN stored, NEW j \in DOMAIN stored, Refers(i, j)
  PROVE  \/ stored[i].name \in stored[j].triggers \/ ~ Told(touched[i].wrote) \/ touched[j].named > touched[i].wrote
         \/ Crossed(j, touched[i].wrote) \/ Shared(stored[i].name) \/ Shared(stored[j].name)
BY DEF Invalidating, Refers, Crossed

\* It takes its name only from those that it does not refer to by it.
LEMMA PulledApart ==
  ASSUME Base, NEW n \in Calls, Live(n), NEW i \in DOMAIN stored, NEW j \in DOMAIN stored, Refers(i, j),
         Pulls(n, j, stored[i].name)
  PROVE  touched[i].wrote # n /\ (Overlap(touched[i].wrote, n) \/ Shared(stored[i].name))
<1>1. /\ CallOK(n) /\ NamesOK(n) /\ Saving(n) /\ edits[n].pc \in {"pull", "rename"} /\ HasSaved(n)
      /\ stored[j].name \in edits[n].todo /\ stored[i].name = edits[n].old.name
  BY DEF Base, Pulls, HasSaved, Changed, Following
<1>2. stored[i].name # ""
  BY DEF Base, Shapes, StoreShapes, Container
<1>3. Body(n).do = "update"
  BY <1>1, <1>2 DEF CallOK, IdOK, Saving
<1>4. OldFree(n)
  BY <1>1, <1>3 DEF NamesOK, OldOK
<1>5. touched[i].wrote # n
  <2> SUFFICES ASSUME touched[i].wrote = n
               PROVE  FALSE
    OBVIOUS
  <2>1. n \in Nat \ {0}
    BY CallNumbers DEF Base, Shapes, CallShapes
  <2>2. Saved(i, n) \/ Added(i, n)
    BY <2>1 DEF Base, StoredOK, LeftBy
  <2>3. CASE Added(i, n)
    BY <2>3 DEF Added, Refers
  <2>4. CASE Saved(i, n)
    <3>1. stored[i].name = Body(n).name /\ stored[j].name \in Refs(n)
      BY <2>4 DEF Saved, Refers, Refs
    <3>2. CASE edits[n].pc = "pull"
      BY <1>1, <3>1, <3>2 DEF CallOK, TodoOK, Dropped, Refs
    <3>3. CASE edits[n].pc = "rename"
      BY <1>1, <3>1, <3>3 DEF CallOK, TodoOK, Kept
    <3> QED
      BY <1>1, <3>2, <3>3
  <2> QED
    BY <2>2, <2>3, <2>4
<1>6. CASE i = Body(n).id
  BY <1>1, <1>5, <1>6 DEF NamesOK, OwnOK, Own
<1>7. CASE i # Body(n).id
  BY <1>1, <1>4, <1>5, <1>7 DEF OldFree
<1> QED
  BY <1>5, <1>6, <1>7

\* Who wrote j, and is still running, began after who wrote i, or overlapped it.
LEMMA LaterOrOverlap ==
  ASSUME Base, NEW n \in Calls, Live(n), NEW w \in Calls \cup {0}, w # n
  PROVE  n > w \/ Overlap(n, w)
<1>1. n \in Nat \ {0} /\ (w = 0 \/ w \in Nat) /\ Sequential /\ \A m \in Calls : Met(m)
  BY CallNumbers DEF Base, Shapes, CallShapes, CallOK
<1>2. n > w \/ (w \in Calls /\ n < w)
  BY <1>1
<1> QED
  BY <1>1, <1>2, BeganDuring

\* Who has only now ended well.
LEMMA NowTold ==
  ASSUME Base, NEW n, Course(n), NEW w \in Calls \cup {0}, Told(w)', ~Told(w)
  PROVE  w = n /\ edits[n].pc \in {"reclear", "look", "fill"} /\ edits'[n].pc = "done"
<1>1. w # 0 /\ w \in Calls /\ edits[w].pc # "done" /\ edits'[w].pc = "done"
  BY DEF Told
<1>2. CASE GoesOn(n)
  BY <1>1, <1>2 DEF GoesOn, Now, Turn, Over
<1>3. CASE Stops(n)
  BY <1>1, <1>3 DEF Stops, Ended, Turn
<1> QED
  BY <1>1, <1>2, <1>3 DEF Course

(* What each step does to what the containers promise about their caches. *)

LEMMA QuietImpact ==
  ASSUME Base, Calls \subseteq Calls', UNCHANGED <<stored, touched>>, NEW n
  PROVE  Impact(n)
<1>1. StoreStep(n)
  BY QuietStep DEF Base, Shapes
<1>2. \A j \in DOMAIN stored' : Carried(j) /\ stored'[j] = stored[j] /\ touched'[j] = touched[j] /\ j \in DOMAIN stored
  BY DEF Carried
<1> QED
  BY <1>1, <1>2 DEF Impact

LEMMA RemoveImpact ==
  ASSUME Base, Calls' = Calls, NEW n, NEW d, UNCHANGED touched, stored' = [i \in DOMAIN stored \ {d} |-> stored[i]]
  PROVE  Impact(n)
<1>1. StoreStep(n)
  BY RemoveStep DEF Base, Shapes
<1>2. \A j \in DOMAIN stored' : Carried(j) /\ stored'[j] = stored[j] /\ touched'[j] = touched[j] /\ j \in DOMAIN stored
  BY DEF Carried
<1> QED
  BY <1>1, <1>2 DEF Impact

LEMMA AmendImpact ==
  ASSUME Base, NEW n \in Calls, NEW i \in DOMAIN stored, StoreStep(n), Amended(i, n),
         \A x \in stored[i].triggers : x \in stored'[i].triggers \/ Pulls(n, i, x)
  PROVE  Impact(n)
<1>1. /\ DOMAIN stored' = DOMAIN stored /\ DOMAIN touched' = DOMAIN touched
      /\ \A j \in DOMAIN stored : Carried(j)
      /\ \A j \in DOMAIN stored \ {i} : stored'[j] = stored[j]
      /\ \A j \in DOMAIN touched \ {i} : touched'[j] = touched[j]
      /\ n \in By(i)'
  BY DEF Amended
<1>2. \A j \in DOMAIN stored : j \in DOMAIN touched
  BY DEF Base, Shapes, StoreShapes
<1>3. \A j \in DOMAIN touched : touched'[j].named = touched[j].named
  BY <1>1 DEF Carried
<1> QED
  BY <1>1, <1>2, <1>3 DEF Impact

LEMMA WrittenImpact ==
  ASSUME Base, NEW n \in Calls, edits'[n].pc # "done", NEW i, NEW new, NEW mark, StoreStep(n), Written(i, n, new, mark),
         i \in {Body(n).id, <<n, "role">>}, i \in DOMAIN stored => touched[i].wrote # n,
         mark.named = n \/ (PutsBack(i, n) /\ mark.named = touched[i].named)
  PROVE  Impact(n)
<1>1. /\ i \in DOMAIN stored' /\ touched'[i].wrote = n /\ touched'[i].named = mark.named /\ n \in By(i)'
      /\ \A j \in DOMAIN stored' \ {i} : j \in DOMAIN stored /\ stored'[j] = stored[j] /\ Carried(j)
      /\ \A j \in DOMAIN touched' \ {i} : touched'[j] = touched[j]
      /\ DOMAIN stored' = DOMAIN stored \cup {i} /\ DOMAIN touched' = DOMAIN touched \cup {i}
  BY DEF Written
<1>2. \A j \in DOMAIN stored' \ {i} : j \in DOMAIN touched'
  BY <1>1 DEF Base, Shapes, StoreShapes
<1>3. Rewritten(i, n) /\ ~Carried(i) /\ (touched'[i].named = n \/ PutsBack(i, n))
  BY <1>1 DEF Rewritten, Carried
<1>4. \A j \in DOMAIN touched : touched'[j].named = touched[j].named \/ (touched'[j].named = n /\ n \in By(j)')
  BY <1>1
<1> QED
  BY <1>1, <1>2, <1>3, <1>4 DEF Impact

LEMMA InvalidatingStays ==
  ASSUME Base, Base', Onward, NEW n, Course(n), Impact(n), InvalInv
  PROVE  Invalidating'
<1>1. n \in Calls /\ Live(n) /\ Calls' = Calls /\ n \in Nat \ {0}
  BY CourseNumbers, CallNumbers DEF Base, Shapes, CallShapes
<1> SUFFICES ASSUME NEW i \in DOMAIN stored', NEW j \in DOMAIN stored', Refers(i, j)', Told(touched[i].wrote)'
             PROVE  \/ stored'[i].name \in stored'[j].triggers \/ touched'[j].named > touched'[i].wrote
                    \/ Crossed(j, touched[i].wrote)' \/ Shared(stored[i].name)' \/ Shared(stored[j].name)'
  BY DEF Invalidating, Refers, Crossed
<1>2. PICK w \in Calls \cup {0} : touched'[i].wrote = w
  BY <1>1 DEF Base, Shapes, StoreShapes, History, By
<1>3. Told(w)' /\ (Crossed(j, w)' => Crossed(j, touched[i].wrote)')
  BY <1>2 DEF Told, Crossed, Overlap
<1>4. Carried(i)
  <2>1. edits'[n].pc # "done" => ~Told(n)'
    BY <1>1 DEF Told
  <2> QED
    BY <1>2, <1>3, <2>1 DEF Impact, Rewritten
<1>5. i \in DOMAIN stored /\ touched[i].wrote = w /\ stored'[i].name = stored[i].name /\ stored'[i].refs = stored[i].refs
  BY <1>2, <1>4 DEF Carried
<1>6. i # j /\ stored'[j].name \in stored'[i].refs \ {stored'[i].name}
  BY DEF Refers
<1>7. \A name : Shared(name) => Shared(name)'
  BY SharedStays
<1>8. ASSUME j \in DOMAIN touched, NEW a \in Calls \cup {0}, Crossed(j, a)
      PROVE  Crossed(j, a)'
  BY <1>8, CrossedStays DEF Impact, StoreStep
<1>9. ASSUME n \in By(j)', NEW a \in Calls, Overlap(n, a)
      PROVE  Crossed(j, a)'
  BY <1>1, <1>9, OverlapStays DEF Crossed
<1>10. j \in DOMAIN stored => j \in DOMAIN touched
  BY DEF Base, Shapes, StoreShapes
<1>11. Carried(j) /\ stored[i].name \in stored[j].triggers =>
         \/ stored'[i].name \in stored'[j].triggers
         \/ Pulls(n, j, stored[i].name) /\ n \in By(j)'
  BY <1>5 DEF Impact
<1>12. Carried(j) => Refers(i, j) /\ j \in DOMAIN stored /\ stored'[j].name = stored[j].name /\ touched'[j].named = touched[j].named
  BY <1>5, <1>6 DEF Carried, Refers
<1>13. CASE w = n
  <2>1. /\ edits[n].pc \in {"reclear", "look", "fill"} /\ edits'[n].pc = "done"
    <3>1. ~Told(n)
      BY <1>1 DEF Live, Over, Told
    <3> QED
      BY <1>3, <1>13, <3>1, NowTold
  <2>2. Saved(i, n)
    <3>1. LeftBy(i, n)
      BY <1>1, <1>5, <1>13 DEF Base, StoredOK
    <3> QED
      BY <1>1, <1>5, <1>6, <3>1 DEF LeftBy, Added
  <2>3. HasSaved(n) /\ i = Body(n).id
    BY <2>1, <2>2 DEF Saved, HasSaved, Changed, Following
  <2>4. Carried(j)
    BY <2>1 DEF Impact
  <2>5. \/ stored[i].name \in stored[j].triggers
        \/ Crossed(j, n) \/ Shared(stored[i].name) \/ Shared(stored[j].name)
    <3>1. ~Owed(n, j)
      BY <2>1 DEF Owed
    <3> QED
      BY <1>1, <1>5, <1>12, <1>13, <2>3, <2>4, <3>1 DEF InvalInv, Relisting
  <2>6. ~Pulls(n, j, stored[i].name)
    BY <2>1 DEF Pulls
  <2> QED
    BY <1>3, <1>5, <1>7, <1>8, <1>10, <1>11, <1>12, <1>13, <2>4, <2>5, <2>6
<1>14. CASE w # n
  <2>1. Told(w)
    BY <1>3, <1>14, NowTold
  <2>2. CASE Carried(j)
    <3>1. \/ stored[i].name \in stored[j].triggers \/ touched[j].named > w
          \/ Crossed(j, w) \/ Shared(stored[i].name) \/ Shared(stored[j].name)
      BY <1>5, <1>12, <2>1, <2>2, InvalidatingIs DEF InvalInv
    <3>2. CASE Pulls(n, j, stored[i].name) /\ n \in By(j)'
      <4>1. Overlap(w, n) \/ Shared(stored[i].name)
        BY <1>1, <1>5, <1>12, <2>2, <3>2, PulledApart
      <4>2. Overlap(w, n) => Overlap(n, w) /\ w \in Calls
        BY DEF Overlap
      <4> QED
        BY <1>3, <1>5, <1>7, <1>9, <3>2, <4>1, <4>2
    <3> QED
      BY <1>2, <1>3, <1>5, <1>7, <1>8, <1>10, <1>11, <1>12, <2>2, <3>1, <3>2
  <2>3. CASE ~Carried(j) /\ touched'[j].named = n
    <3>1. n \in By(j)'
      BY <2>3 DEF Impact, Rewritten
    <3>2. n > w \/ Overlap(n, w)
      BY <1>1, <1>14, LaterOrOverlap
    <3>3. Overlap(n, w) => w \in Calls
      BY DEF Overlap
    <3> QED
      BY <1>2, <1>3, <1>9, <2>3, <3>1, <3>2, <3>3
  <2>4. CASE ~Carried(j) /\ PutsBack(j, n)
    <3>1. /\ edits[n].pc \in Writing /\ Body(n).do = "update" /\ j = Body(n).id /\ edits[n].old.name = Body(n).name
          /\ stored'[j].name = Body(n).name /\ edits[n].old.triggers \subseteq stored'[j].triggers
          /\ touched'[j].named = touched[j].named /\ j \in DOMAIN touched
      BY <2>4 DEF PutsBack, Writing
    <3>2. n \in By(j)'
      BY <2>4 DEF Impact, Rewritten
    <3>3. \/ stored[i].name \in edits[n].old.triggers
          \/ touched[j].named > w
          \/ Crossed(j, w) \/ Overlap(n, w)
          \/ Shared(stored[i].name) \/ Shared(edits[n].old.name)
      <4>1. i \in DOMAIN stored \ {j} /\ edits[n].old.name \in stored[i].refs \ {stored[i].name}
        BY <1>5, <1>6, <3>1
      <4> QED
        BY <1>1, <1>5, <2>1, <3>1, <4>1 DEF InvalInv, TriggersRead
    <3>4. Overlap(n, w) => w \in Calls
      BY DEF Overlap
    <3> QED
      BY <1>2, <1>3, <1>5, <1>7, <1>8, <1>9, <3>1, <3>2, <3>3, <3>4
  <2> QED
    BY <2>2, <2>3, <2>4 DEF Impact
<1> QED
  BY <1>13, <1>14

\* Nothing is written, and no call ends well.
LEMMA QuietInvalidating ==
  ASSUME Base, Onward, Invalidating, UNCHANGED <<stored, touched>>, \A w \in Calls : edits'[w].pc = "done" => edits[w].pc = "done"
  PROVE  Invalidating'
<1> SUFFICES ASSUME NEW i \in DOMAIN stored, NEW j \in DOMAIN stored, Refers(i, j), Told(touched[i].wrote)'
             PROVE  \/ stored[i].name \in stored[j].triggers \/ touched[j].named > touched[i].wrote
                    \/ Crossed(j, touched[i].wrote)' \/ Shared(stored[i].name)' \/ Shared(stored[j].name)'
  BY DEF Invalidating, Refers, Crossed
<1>1. PICK w \in Calls \cup {0} : touched[i].wrote = w
  BY DEF Base, Shapes, StoreShapes, History, By
<1>2. Told(w)
  BY <1>1 DEF Told
<1>3. j \in DOMAIN touched /\ By(j)' = By(j)
  BY DEF Base, Shapes, StoreShapes, By
<1>4. Crossed(j, w) => Crossed(j, touched[i].wrote)'
  <2>1. Crossed(j, w) => Crossed(j, w)'
    BY <1>3, CrossedStays
  <2> QED
    BY <1>1, <2>1 DEF Crossed, Overlap
<1>5. \A name : Shared(name) => Shared(name)'
  BY SharedStays
<1> QED
  BY <1>1, <1>2, <1>4, <1>5, InvalidatingIs

(* What a call has found is as it was, or a call that overlaps it wrote it. *)

LEMMA FoundStays ==
  ASSUME Base, Base', Onward, NEW n, Course(n), Impact(n), NEW m \in Calls, m # n, FoundOK(m)
  PROVE  FoundOK(m)'
<1>1. n \in Calls /\ Live(n) /\ Sequential /\ (\A k \in Calls : Met(k)) /\ edits'[m] = edits[m]
  BY CourseNumbers DEF Base, Shapes, CallShapes, CallOK, Course, Stops, GoesOn, Now, Ended, Turn
<1>2. Body(m)' = Body(m) /\ (Saving(m)' <=> Saving(m))
  BY <1>1 DEF Body, Saving
<1> SUFFICES ASSUME Saving(m), edits[m].pc \in {"refs", "index", "retire", "write"}, NEW r \in DOMAIN edits[m].found,
                    NEW j \in DOMAIN stored' \ {Body(m).id}, stored'[j].name = r
             PROVE  edits[m].found[r] = j \/ Crossed(j, m)' \/ Shared(r)'
  BY <1>1, <1>2 DEF FoundOK
<1>3. Live(m)
  BY DEF Live, Over
<1>4. Overlap(n, m)'
  BY <1>1, <1>3, Together, OverlapStays
<1>5. CASE n \in By(j)'
  BY <1>4, <1>5 DEF Crossed
<1>6. CASE j \in DOMAIN stored /\ stored'[j] = stored[j]
  <2>1. edits[m].found[r] = j \/ Crossed(j, m) \/ Shared(r)
    BY <1>6 DEF FoundOK
  <2>2. j \in DOMAIN touched /\ By(j) \subseteq By(j)'
    BY <1>6 DEF Base, Shapes, StoreShapes, Impact, StoreStep
  <2> QED
    BY <2>1, <2>2, CrossedStays, SharedStays
<1> QED
  BY <1>5, <1>6 DEF Impact

LEMMA QuietCrossed ==
  ASSUME Base, Onward, UNCHANGED <<stored, touched>>, NEW j \in DOMAIN stored, NEW a \in Calls, Crossed(j, a)
  PROVE  Crossed(j, a)'
<1>1. j \in DOMAIN touched /\ By(j) = By(j)'
  BY DEF Base, Shapes, StoreShapes, By
<1> QED
  BY <1>1, CrossedStays

LEMMA FoundOwn ==
  ASSUME Base, Base', Onward, NEW n, Course(n), FoundOK(n), edits[n].pc # "refs",
         edits[n].pc \in {"index", "retire", "write"} => UNCHANGED <<stored, touched>> \/ edits'[n].pc = "clear"
  PROVE  FoundOK(n)'
<1>1. n \in Calls /\ Live(n) /\ CallOK(n)
  BY CourseNumbers DEF Base
<1> SUFFICES ASSUME edits'[n].pc \in {"refs", "index", "retire", "write"}, Saving(n)', NEW r \in DOMAIN edits'[n].found,
                    NEW j \in DOMAIN stored' \ {Body(n)'.id}, stored'[j].name = r
             PROVE  edits'[n].found[r] = j \/ Crossed(j, n)' \/ Shared(r)'
  BY DEF FoundOK
<1>2. edits'[n].found = edits[n].found /\ edits[n].pc \in Early \cup {"index", "retire", "write"}
      /\ Body(n)'.id = Body(n).id /\ Saving(n)
  <2>1. CASE UNCHANGED edits
    BY <2>1 DEF Body, Saving
  <2>2. CASE Stops(n)
    BY <2>2 DEF Stops, Ended, Turn, Over
  <2>3. CASE GoesOn(n)
    <3>1. PICK pc, found, todo, clear :
            /\ Now(n, pc, found, todo, clear) /\ Leads(edits[n].pc, pc)
            /\ edits[n].pc \notin {"refs", "find"} => found = edits[n].found
      BY <2>3 DEF GoesOn
    <3>2. edits'[n].pc = pc /\ Body(n)' = Body(n) /\ edits'[n].found = found /\ (Saving(n)' <=> Saving(n))
      BY <1>1, <3>1, NowFacts
    <3> QED
      BY <3>1, <3>2 DEF Leads, Early
  <2> QED
    BY <2>1, <2>2, <2>3 DEF Course
<1>3. CASE edits[n].pc \in Early
  <2>1. edits[n].found = <<>> /\ DOMAIN <<>> = {}
    BY <1>1, <1>3 DEF CallOK, TodoOK
  <2> QED
    BY <1>2, <2>1
<1>4. CASE edits[n].pc \in {"index", "retire", "write"}
  <2>1. UNCHANGED <<stored, touched>>
    BY <1>4
  <2>2. edits[n].found[r] = j \/ Crossed(j, n) \/ Shared(r)
    BY <1>2, <1>4, <2>1 DEF FoundOK
  <2> QED
    BY <1>1, <1>2, <2>1, <2>2, QuietCrossed, SharedStays
<1> QED
  BY <1>2, <1>3, <1>4

LEMMA FoundReference ==
  ASSUME Base, Base', Onward, NEW n, CheckReference(n), FoundOK(n)
  PROVE  FoundOK(n)'
<1>1. Course(n) /\ edits[n].pc = "refs" /\ n \in Calls /\ UNCHANGED <<stored, touched>>
  BY ReferenceCourse, CourseNumbers
<1>2. /\ At(n, "refs")
      /\ \/ Goes(n, "index") \/ Goes(n, "refused")
         \/ \E r \in edits[n].todo : \E i \in Named(r) \ {Body(n).id} :
              Becomes(n, [edits[n] EXCEPT !.todo = @ \ {r}, !.found = Put(@, r, i)])
  BY DEF CheckReference
<1>3. ASSUME NEW pc, NEW found, NEW todo, NEW clear, Now(n, pc, found, todo, clear), Saving(n)',
             NEW s \in DOMAIN edits[n].found, found[s] = edits[n].found[s],
             NEW j \in DOMAIN stored' \ {Body(n)'.id}, stored'[j].name = s
      PROVE  found[s] = j \/ Crossed(j, n)' \/ Shared(s)'
  <2>1. Body(n)' = Body(n) /\ Saving(n)
    BY <1>1, <1>3, NowFacts
  <2>2. edits[n].found[s] = j \/ Crossed(j, n) \/ Shared(s)
    BY <1>1, <1>3, <2>1 DEF FoundOK
  <2> QED
    BY <1>1, <1>3, <2>2, QuietCrossed, SharedStays
<1>4. CASE Goes(n, "index")
  <2>1. Now(n, "index", edits[n].found, edits[n].todo, edits[n].clear)
    BY <1>1, <1>2, <1>4, AtCall, Going DEF Over
  <2>2. edits'[n].found = edits[n].found
    BY <1>1, <2>1, NowFacts
  <2> QED
    BY <1>1, <1>3, <2>1, <2>2 DEF FoundOK
<1>5. CASE Goes(n, "refused")
  <2>1. Ended(n, "refused")
    BY <1>1, <1>2, <1>5, AtCall, Going DEF Over
  <2> QED
    BY <2>1 DEF Ended, Turn, FoundOK
<1>6. ASSUME NEW r \in edits[n].todo, NEW i \in Named(r) \ {Body(n).id},
             Becomes(n, [edits[n] EXCEPT !.todo = @ \ {r}, !.found = Put(@, r, i)])
      PROVE  FoundOK(n)'
  <2>1. Now(n, "refs", Put(edits[n].found, r, i), edits[n].todo \ {r}, edits[n].clear)
    BY <1>2, <1>6, ReferenceFound
  <2>2. PICK found : found = Put(edits[n].found, r, i)
    OBVIOUS
  <2>3. edits'[n].found = found /\ Body(n)' = Body(n) /\ Now(n, "refs", found, edits[n].todo \ {r}, edits[n].clear)
    BY <1>1, <2>1, <2>2, NowFacts
  <2>4. DOMAIN found = DOMAIN edits[n].found \cup {r} /\ found[r] = i
        /\ \A s \in DOMAIN edits[n].found \ {r} : found[s] = edits[n].found[s]
    BY <2>2 DEF Put
  <2> SUFFICES ASSUME Saving(n)', NEW s \in DOMAIN found, NEW j \in DOMAIN stored' \ {Body(n)'.id}, stored'[j].name = s
               PROVE  found[s] = j \/ Crossed(j, n)' \/ Shared(s)'
    BY <2>3 DEF FoundOK
  <2>5. CASE s = r
    <3>1. i \in DOMAIN stored /\ stored[i].name = r
      BY DEF Named
    <3>2. j \in DOMAIN stored /\ stored[j].name = r
      BY <1>1, <2>5
    <3>3. i = j \/ Shared(r)
      BY <3>1, <3>2, NameShared
    <3> QED
      BY <2>4, <2>5, <3>3, SharedStays
  <2>6. CASE s # r
    <3>1. s \in DOMAIN edits[n].found /\ found[s] = edits[n].found[s]
      BY <2>4, <2>6
    <3> QED
      BY <1>3, <2>3, <3>1
  <2> QED
    BY <2>5, <2>6
<1> QED
  BY <1>2, <1>4, <1>5, <1>6

(* What a call still has to tell the others, it has to do. *)

LEMMA RelistingStays ==
  ASSUME Base, Base', Onward, NEW n, Course(n), Impact(n), NEW m \in Calls, m # n, Relisting(m)
  PROVE  Relisting(m)'
<1>1. n \in Calls /\ Live(n) /\ Sequential /\ (\A k \in Calls : Met(k)) /\ edits'[m] = edits[m]
  BY CourseNumbers DEF Base, Shapes, CallShapes, CallOK, Course, Stops, GoesOn, Now, Ended, Turn
<1>2. Body(m)' = Body(m) /\ (HasSaved(m)' <=> HasSaved(m))
  BY <1>1 DEF Body, HasSaved, Saving
<1>3. PICK i : i = Body(m).id
  OBVIOUS
<1> SUFFICES ASSUME HasSaved(m), i \in DOMAIN stored', touched'[i].wrote = m, NEW j \in DOMAIN stored', Refers(i, j)'
             PROVE  \/ stored'[i].name \in stored'[j].triggers
                    \/ Crossed(j, m)' \/ Shared(stored[i].name)' \/ Shared(stored[j].name)' \/ Owed(m, j)'
  <2>1. Body(m)'.id = i
    BY <1>2, <1>3
  <2> QED
    BY <1>2, <2>1 DEF Relisting
<1>4. Live(m)
  BY DEF Live, Over, HasSaved, Changed, Following
<1>5. Overlap(n, m)'
  BY <1>1, <1>4, Together, OverlapStays
<1>6. Carried(i)
  BY DEF Impact, Rewritten
<1>7. i \in DOMAIN stored /\ touched[i].wrote = m /\ stored'[i].name = stored[i].name /\ stored'[i].refs = stored[i].refs
  BY <1>6 DEF Carried
<1>8. CASE n \in By(j)'
  BY <1>5, <1>8 DEF Crossed
<1>9. CASE j \in DOMAIN stored /\ stored'[j] = stored[j]
  <2>1. Refers(i, j)
    BY <1>7, <1>9 DEF Refers
  <2>2. \/ stored[i].name \in stored[j].triggers
        \/ Crossed(j, m) \/ Shared(stored[i].name) \/ Shared(stored[j].name) \/ Owed(m, j)
    BY <1>3, <1>7, <1>9, <2>1 DEF Relisting
  <2>3. j \in DOMAIN touched /\ By(j) \subseteq By(j)'
    BY <1>9 DEF Base, Shapes, StoreShapes, Impact, StoreStep
  <2>4. Owed(m, j) => Owed(m, j)'
    BY <1>1, <1>9 DEF Owed
  <2>5. \A name : Shared(name) => Shared(name)'
    BY SharedStays
  <2> QED
    BY <1>7, <1>9, <2>2, <2>3, <2>4, <2>5, CrossedStays
<1> QED
  BY <1>8, <1>9 DEF Impact

LEMMA RelistingSame ==
  ASSUME Base, Onward, NEW m \in Calls, edits'[m] = edits[m], UNCHANGED <<stored, touched>>, Relisting(m)
  PROVE  Relisting(m)'
<1>1. Body(m)' = Body(m) /\ (Saving(m)' <=> Saving(m)) /\ (HasSaved(m)' <=> HasSaved(m))
  BY DEF Body, Saving, HasSaved
<1>2. PICK i : i = Body(m).id
  OBVIOUS
<1> SUFFICES ASSUME HasSaved(m), i \in DOMAIN stored, touched[i].wrote = m, NEW j \in DOMAIN stored, Refers(i, j)
             PROVE  \/ stored[i].name \in stored[j].triggers
                    \/ Crossed(j, m)' \/ Shared(stored[i].name)' \/ Shared(stored[j].name)' \/ Owed(m, j)'
  <2>1. Body(m)'.id = i
    BY <1>1, <1>2
  <2> QED
    BY <1>1, <2>1 DEF Relisting, Refers
<1>3. \/ stored[i].name \in stored[j].triggers
      \/ Crossed(j, m) \/ Shared(stored[i].name) \/ Shared(stored[j].name) \/ Owed(m, j)
  BY <1>2 DEF Relisting
<1>4. Owed(m, j) => Owed(m, j)'
  BY DEF Owed
<1>5. \A name : Shared(name) => Shared(name)'
  BY SharedStays
<1> QED
  BY <1>3, <1>4, <1>5, QuietCrossed DEF Shared

\* The call itself goes on after its write.
LEMMA RelistingOwn ==
  ASSUME Base, Base', Onward, NEW n, Course(n), Impact(n), Relisting(n), edits[n].pc \in Changed,
         \A j \in DOMAIN stored' : Carried(j),
         \A i \in DOMAIN stored, j \in DOMAIN stored :
           Owed(n, j) /\ Saved(i, n) => Owed(n, j)' \/ stored[i].name \in stored'[j].triggers
  PROVE  Relisting(n)'
<1>1. n \in Calls /\ Live(n) /\ n \in Nat \ {0}
  BY CourseNumbers, CallNumbers DEF Base, Shapes, CallShapes
<1>2. Body(n)'.id = Body(n).id /\ Body(n)'.do = Body(n).do
  BY <1>1 DEF Onward
<1>3. PICK i : i = Body(n).id
  OBVIOUS
<1> SUFFICES ASSUME HasSaved(n)', i \in DOMAIN stored', touched'[i].wrote = n, NEW j \in DOMAIN stored', Refers(i, j)'
             PROVE  \/ stored'[i].name \in stored'[j].triggers
                    \/ Crossed(j, n)' \/ Shared(stored[i].name)' \/ Shared(stored[j].name)' \/ Owed(n, j)'
  <2>1. Body(n)'.id = i
    BY <1>2, <1>3
  <2> QED
    BY <2>1 DEF Relisting
<1>4. Carried(i) /\ Carried(j) /\ HasSaved(n)
  BY <1>2 DEF HasSaved, Saving
<1>5. /\ i \in DOMAIN stored /\ touched[i].wrote = n /\ stored'[i].name = stored[i].name /\ stored'[i].refs = stored[i].refs
      /\ j \in DOMAIN stored /\ stored'[j].name = stored[j].name
  BY <1>4 DEF Carried
<1>6. Refers(i, j)
  BY <1>5 DEF Refers
<1>7. \/ stored[i].name \in stored[j].triggers
      \/ Crossed(j, n) \/ Shared(stored[i].name) \/ Shared(stored[j].name) \/ Owed(n, j)
  BY <1>3, <1>4, <1>5, <1>6 DEF Relisting
<1>8. j \in DOMAIN touched /\ By(j) \subseteq By(j)'
  BY <1>5 DEF Base, Shapes, StoreShapes, Impact, StoreStep
<1>9. \A name : Shared(name) => Shared(name)'
  BY SharedStays
<1>10. CASE stored[i].name \in stored[j].triggers
  <2>1. ~Pulls(n, j, stored[i].name)
    BY <1>1, <1>5, <1>6, PulledApart
  <2> QED
    BY <1>4, <1>5, <1>10, <2>1 DEF Impact
<1>11. CASE Owed(n, j)
  <2>1. LeftBy(i, n)
    BY <1>1, <1>5 DEF Base, StoredOK
  <2>2. Saved(i, n)
    BY <1>1, <1>5, <1>6, <2>1 DEF LeftBy, Added, Refers
  <2> QED
    BY <1>5, <1>11, <2>2
<1> QED
  BY <1>1, <1>5, <1>7, <1>8, <1>9, <1>10, <1>11, CrossedStays

\* The call has written its container: it now owes what it has found.
LEMMA RelistingWritten ==
  ASSUME Base, Base', Onward, NEW n, Course(n), Impact(n), FoundOK(n), edits[n].pc = "write", Saving(n),
         Now(n, "clear", edits[n].found, Refs(n), ToClear(n)),
         NEW new, NEW mark, Written(Body(n).id, n, new, mark), new.name = Body(n).name, new.refs = Body(n).refs
  PROVE  Relisting(n)'
<1>1. n \in Calls /\ Live(n) /\ CallOK(n)
  BY CourseNumbers DEF Base
<1>2. PICK i : i = Body(n).id
  OBVIOUS
<1>3. /\ edits'[n].pc = "clear" /\ edits'[n].found = edits[n].found /\ edits'[n].todo = Refs(n) /\ Body(n)'.id = i
  BY <1>1, <1>2, NowFacts
<1>4. /\ stored'[i].name = Body(n).name /\ stored'[i].refs = Body(n).refs
      /\ \A j \in DOMAIN stored' \ {i} : j \in DOMAIN stored /\ stored'[j] = stored[j]
  BY <1>2 DEF Written
<1> SUFFICES ASSUME NEW j \in DOMAIN stored', Refers(i, j)'
             PROVE  Crossed(j, n)' \/ Shared(stored[j].name)' \/ Owed(n, j)'
  BY <1>3 DEF Relisting
<1>5. j \in DOMAIN stored /\ stored'[j] = stored[j] /\ j # i /\ stored[j].name \in Refs(n)
  BY <1>4 DEF Refers, Refs
<1>6. DOMAIN edits[n].found = Refs(n)
  BY <1>1 DEF CallOK, TodoOK
<1>7. edits[n].found[stored[j].name] = j \/ Crossed(j, n) \/ Shared(stored[j].name)
  BY <1>2, <1>5, <1>6 DEF FoundOK
<1>8. j \in DOMAIN touched /\ By(j) \subseteq By(j)'
  BY <1>5 DEF Base, Shapes, StoreShapes, Impact, StoreStep
<1>9. \A name : Shared(name) => Shared(name)'
  BY SharedStays
<1>10. edits[n].found[stored[j].name] = j => Owed(n, j)'
  BY <1>3, <1>5 DEF Owed
<1> QED
  BY <1>1, <1>5, <1>7, <1>8, <1>9, <1>10, CrossedStays

\* A call that has not written, or has ended, owes nothing.
LEMMA RelistingNone ==
  ASSUME NEW n, ~HasSaved(n)'
  PROVE  Relisting(n)'
BY DEF Relisting

(* What an update has read of the list of caches of its container. *)

LEMMA TriggersStay ==
  ASSUME Base, Base', Onward, NEW n, Course(n), NEW m \in Calls, TriggersRead(m), edits'[m].pc \in Writing,
         NEW j, j = Body(m).id, NEW i \in DOMAIN stored \ {j}, Body(m)'.do = "update",
         Carried(i), Impact(n), edits'[m].old.name \in stored'[i].refs \ {stored'[i].name}, m = n => touched'[j].named = touched[j].named
  PROVE  \/ stored'[i].name \in edits'[m].old.triggers
         \/ ~Told(touched[i].wrote)' \/ touched'[j].named > touched'[i].wrote
         \/ Crossed(j, touched[i].wrote)' \/ Overlap(m, touched[i].wrote)'
         \/ Shared(stored[i].name)' \/ Shared(edits[m].old.name)'
<1>1. n \in Calls /\ Live(n) /\ Sequential /\ (\A k \in Calls : Met(k)) /\ n \in Nat \ {0}
  BY CourseNumbers, CallNumbers DEF Base, Shapes, CallShapes, CallOK
<1>2. edits[m].pc \in Writing /\ edits'[m].old = edits[m].old /\ Live(m) /\ Body(m).do = "update" /\ Live(m)'
  BY WritingStays DEF Onward, Live, Writing, Early, Over
<1>3. PICK w \in Calls \cup {0} : touched[i].wrote = w
  BY DEF Base, Shapes, StoreShapes, History, By
<1>4. touched'[i].wrote = w /\ stored'[i].name = stored[i].name /\ stored'[i].refs = stored[i].refs
  BY <1>3 DEF Carried
<1>5. j \in DOMAIN touched
  BY <1>2 DEF Base, CallOK, IdOK, Writing, Early
<1>6. \/ stored[i].name \in edits[m].old.triggers
      \/ ~Told(w) \/ touched[j].named > w
      \/ Crossed(j, w) \/ Overlap(m, w)
      \/ Shared(stored[i].name) \/ Shared(edits[m].old.name)
  BY <1>2, <1>3, <1>4 DEF TriggersRead
<1>7. (Told(touched[i].wrote)' => Told(w)') /\ (Crossed(j, w)' => Crossed(j, touched[i].wrote)')
      /\ (Overlap(m, w)' => Overlap(m, touched[i].wrote)')
  BY <1>4 DEF Told, Crossed, Overlap
<1>8. \A name : Shared(name) => Shared(name)'
  BY SharedStays
<1>9. Crossed(j, w) => Crossed(j, w)'
  BY <1>5, CrossedStays DEF Impact, StoreStep
<1>10. Overlap(m, w) => Overlap(m, w)'
  BY OverlapStays
<1>11. ASSUME w = n, Told(w)'
       PROVE  Overlap(m, w)'
  <2>1. edits'[n].pc = "done"
    BY <1>1, <1>11 DEF Told
  <2>2. m # n
    BY <1>2, <2>1 DEF Live, Over
  <2> QED
    BY <1>1, <1>2, <1>11, <2>2, Together, OverlapStays
<1>12. CASE w = n
  BY <1>7, <1>11, <1>12
<1>13. CASE w # n
  <2>1. Told(w)' => Told(w)
    BY <1>13, NowTold
  <2>2. CASE touched'[j].named = touched[j].named
    BY <1>2, <1>4, <1>6, <1>7, <1>8, <1>9, <1>10, <2>1, <2>2
  <2>3. CASE touched'[j].named = n /\ n \in By(j)'
    <3>1. n > w \/ Overlap(n, w)
      BY <1>1, <1>13, LaterOrOverlap
    <3>2. Overlap(n, w) => Crossed(j, w)'
      BY <1>1, <2>3, OverlapStays DEF Crossed
    <3> QED
      BY <1>4, <1>7, <2>3, <3>1, <3>2
  <2> QED
    BY <1>5, <2>2, <2>3 DEF Impact
<1> QED
  BY <1>12, <1>13

LEMMA TriggersReadStays ==
  ASSUME Base, Base', Onward, NEW n, Course(n), Impact(n), NEW m \in Calls, TriggersRead(m),
         m = n => \A i \in DOMAIN stored' : Carried(i) \/ stored'[i].refs = {} \/ edits'[n].pc \notin Writing,
         m = n => touched'[Body(n).id].named = touched[Body(n).id].named \/ edits'[n].pc \notin Writing
  PROVE  TriggersRead(m)'
<1>1. n \in Calls /\ Live(n) /\ Sequential /\ (\A k \in Calls : Met(k))
  BY CourseNumbers DEF Base, Shapes, CallShapes, CallOK
<1>2. PICK j : j = Body(m).id
  OBVIOUS
<1>3. Body(m)'.id = j
  BY <1>2 DEF Onward
<1> SUFFICES ASSUME edits'[m].pc \in Writing, Body(m)'.do = "update", NEW i \in DOMAIN stored' \ {j},
                    edits'[m].old.name \in stored'[i].refs \ {stored'[i].name}
             PROVE  \/ stored'[i].name \in edits'[m].old.triggers
                    \/ ~Told(touched[i].wrote)' \/ touched'[j].named > touched'[i].wrote
                    \/ Crossed(j, touched[i].wrote)' \/ Overlap(m, touched[i].wrote)'
                    \/ Shared(stored[i].name)' \/ Shared(edits[m].old.name)'
  BY <1>3 DEF TriggersRead
<1>4. edits[m].pc \in Writing /\ Live(m)
  BY WritingStays
<1>5. CASE Carried(i)
  <2>1. i \in DOMAIN stored \ {j}
    BY <1>5 DEF Carried
  <2> QED
    BY <1>2, <1>5, <2>1, TriggersStay
<1>6. CASE ~Carried(i)
  <2>1. Rewritten(i, n) /\ m # n
    BY <1>6 DEF Impact
  <2>2. Overlap(m, n)'
    BY <1>1, <1>4, <2>1, Together, OverlapStays
  <2> QED
    BY <2>1, <2>2 DEF Rewritten, Overlap
<1> QED
  BY <1>5, <1>6

\* What has just been read.
LEMMA TriggersJustRead ==
  ASSUME Base, Onward, NEW n, n \in Calls, NEW pc, ReadBy(n, pc), UNCHANGED <<stored, touched>>, Invalidating'
  PROVE  TriggersRead(n)'
<1>1. PICK j : j = Body(n).id
  OBVIOUS
<1>2. Body(n)'.id = j /\ j \in DOMAIN stored' /\ edits'[n].old = stored'[j]
  BY <1>1 DEF Onward, ReadBy
<1> SUFFICES ASSUME NEW i \in DOMAIN stored' \ {j}, edits'[n].old.name \in stored'[i].refs \ {stored'[i].name}
             PROVE  \/ stored'[i].name \in edits'[n].old.triggers
                    \/ ~Told(touched[i].wrote)' \/ touched'[j].named > touched'[i].wrote
                    \/ Crossed(j, touched[i].wrote)' \/ Shared(stored[i].name)' \/ Shared(edits[n].old.name)'
  BY <1>2 DEF TriggersRead
<1>3. stored'[j].name \in stored'[i].refs \ {stored'[i].name}
  BY <1>2
<1>4. Shared(stored[j].name)' => Shared(edits[n].old.name)'
  BY <1>2 DEF Shared
<1> QED
  BY <1>2, <1>3, <1>4 DEF Invalidating, Crossed

LEMMA InvalStep ==
  ASSUME Base, Base', Onward, NEW n, Course(n), Impact(n), InvalInv, FoundOK(n)', Relisting(n)', TriggersRead(n)'
  PROVE  InvalInv'
<1>1. Calls' = Calls
  BY CourseNumbers
<1>2. Invalidating'
  BY InvalidatingStays
<1>3. ASSUME NEW m \in Calls, m # n
      PROVE  FoundOK(m)' /\ Relisting(m)' /\ TriggersRead(m)'
  BY <1>3, FoundStays, RelistingStays, TriggersReadStays DEF InvalInv
<1> QED
  BY <1>1, <1>2, <1>3 DEF InvalInv

LEMMA QuietRelisting ==
  ASSUME Base, Base', Onward, NEW n, Course(n), UNCHANGED <<stored, touched>>, Relisting(n),
         Stops(n) \/ (edits[n].pc # "write" /\ (edits[n].pc = "trigger" => edits[n].todo = {}))
  PROVE  Relisting(n)'
<1>1. n \in Calls /\ Calls' = Calls /\ CallOK(n)
  BY CourseNumbers DEF Base
<1>2. CASE Stops(n)
  <2>1. ~HasSaved(n)'
    BY <1>2 DEF Stops, Ended, Turn, HasSaved, Over, Changed, Following
  <2> QED
    BY <2>1, RelistingNone
<1>3. CASE UNCHANGED edits
  BY <1>1, <1>3, RelistingSame
<1>4. CASE GoesOn(n) /\ edits[n].pc # "write" /\ (edits[n].pc = "trigger" => edits[n].todo = {})
  <2>1. PICK pc, found, todo, clear :
          /\ Now(n, pc, found, todo, clear) /\ Leads(edits[n].pc, pc)
          /\ edits[n].pc \notin {"refs", "find"} => found = edits[n].found
          /\ edits[n].pc = "clear" => todo = edits[n].todo
    BY <1>4 DEF GoesOn
  <2>2. /\ edits'[n].pc = pc /\ Body(n)' = Body(n) /\ edits'[n].found = found /\ edits'[n].todo = todo
        /\ (Saving(n)' <=> Saving(n))
    BY <1>1, <2>1, NowFacts
  <2>3. CASE edits[n].pc \in Changed
    <3>1. Impact(n) /\ \A j \in DOMAIN stored' : Carried(j)
      BY <1>1, QuietImpact DEF Carried
    <3>2. ASSUME NEW j \in DOMAIN stored, Owed(n, j)
          PROVE  Owed(n, j)' \/ ~HasSaved(n)'
      <4>1. edits[n].pc = "clear"
        BY <1>4, <3>2 DEF Owed
      <4>2. pc \in {"trigger", "drop"} /\ todo = edits[n].todo /\ found = edits[n].found
        BY <2>1, <4>1 DEF Leads
      <4>3. pc = "drop" => ~Saving(n)'
        <5>1. CallOK(n)'
          BY <1>1 DEF Base
        <5> QED
          BY <2>2, <5>1 DEF CallOK, PlaceOK, Saving, Over, Writing, Early, Following
      <4> QED
        BY <2>2, <3>2, <4>2, <4>3 DEF Owed, HasSaved
    <3>3. CASE HasSaved(n)'
      BY <2>3, <3>1, <3>2, <3>3, RelistingOwn
    <3> QED
      BY <3>3, RelistingNone
  <2>4. CASE edits[n].pc \notin Changed
    <3>1. pc \in Changed => edits[n].pc \in {"remove", "flows"}
      BY <1>4, <2>1, <2>4 DEF Leads, Changed, Following
    <3>2. edits[n].pc \in {"remove", "flows"} => ~Saving(n)
      BY <1>1 DEF CallOK, PlaceOK, Saving, Over, Writing, Early, Following
    <3> QED
      BY <2>2, <3>1, <3>2, RelistingNone DEF HasSaved
  <2> QED
    BY <2>3, <2>4
<1> QED
  BY <1>2, <1>3, <1>4 DEF Course

LEMMA QuietInval ==
  ASSUME Base, Base', Onward, NEW n, Course(n), UNCHANGED <<stored, touched>>, InvalInv,
         edits[n].pc # "refs" \/ FoundOK(n)',
         Stops(n) \/ (edits[n].pc # "write" /\ (edits[n].pc = "trigger" => edits[n].todo = {}))
  PROVE  InvalInv'
<1>1. n \in Calls /\ Calls' = Calls
  BY CourseNumbers
<1>2. Impact(n)
  BY <1>1, QuietImpact
<1>3. FoundOK(n)'
  BY <1>1, FoundOwn DEF InvalInv
<1>4. Relisting(n)'
  BY <1>1, QuietRelisting DEF InvalInv
<1>5. \A i \in DOMAIN stored' : Carried(i)
  BY DEF Carried
<1>6. TriggersRead(n)'
  BY <1>1, <1>2, <1>5, TriggersReadStays DEF InvalInv
<1> QED
  BY <1>2, <1>3, <1>4, <1>6, InvalStep

\* Nothing is written, and no call ends well: what another call has read stays.
LEMMA InvalSame ==
  ASSUME Base, Onward, NEW m \in Calls, edits'[m] = edits[m], UNCHANGED <<stored, touched>>,
         \A w \in Calls : edits'[w].pc = "done" => edits[w].pc = "done", FoundOK(m), Relisting(m), TriggersRead(m)
  PROVE  FoundOK(m)' /\ Relisting(m)' /\ TriggersRead(m)'
<1>1. Body(m)' = Body(m) /\ (Saving(m)' <=> Saving(m)) /\ (HasSaved(m)' <=> HasSaved(m))
  BY DEF Body, Saving, HasSaved
<1>2. \A name : Shared(name) => Shared(name)'
  BY SharedStays
<1>3. \A j \in DOMAIN stored : Crossed(j, m) => Crossed(j, m)'
  BY QuietCrossed
<1>4. FoundOK(m)'
  BY <1>1, <1>2, <1>3 DEF FoundOK
<1>5. Relisting(m)'
  BY RelistingSame
<1>6. TriggersRead(m)'
  <2>1. PICK j : j = Body(m).id
    OBVIOUS
  <2> SUFFICES ASSUME edits[m].pc \in Writing, Body(m).do = "update", NEW i \in DOMAIN stored \ {j},
                      edits[m].old.name \in stored[i].refs \ {stored[i].name}
               PROVE  \/ stored[i].name \in edits[m].old.triggers
                      \/ ~Told(touched[i].wrote)' \/ touched[j].named > touched[i].wrote
                      \/ Crossed(j, touched[i].wrote)' \/ Overlap(m, touched[i].wrote)'
                      \/ Shared(stored[i].name)' \/ Shared(edits[m].old.name)'
    <3>1. Body(m)'.id = j
      BY <1>1, <2>1
    <3> QED
      BY <1>1, <3>1 DEF TriggersRead, Shared
  <2>2. PICK w \in Calls \cup {0} : touched[i].wrote = w
    BY DEF Base, Shapes, StoreShapes, History, By
  <2>3. \/ stored[i].name \in edits[m].old.triggers
        \/ ~Told(w) \/ touched[j].named > w
        \/ Crossed(j, w) \/ Overlap(m, w)
        \/ Shared(stored[i].name) \/ Shared(edits[m].old.name)
    BY <2>1, <2>2 DEF TriggersRead
  <2>4. j \in DOMAIN touched /\ By(j) \subseteq By(j)'
    <3>1. j \in DOMAIN touched
      BY <2>1 DEF Base, CallOK, IdOK, Live, Writing, Early, Over
    <3> QED
      BY <3>1 DEF By
  <2>5. (Overlap(m, w) => Overlap(m, w)') /\ (Crossed(j, w) => Crossed(j, w)')
    BY <2>4, OverlapStays, CrossedStays
  <2>6. /\ Told(touched[i].wrote)' => Told(w)
        /\ Crossed(j, w)' => Crossed(j, touched[i].wrote)'
        /\ Overlap(m, w)' => Overlap(m, touched[i].wrote)'
    BY <2>2 DEF Told, Crossed, Overlap
  <2>7. (Shared(stored[i].name) => Shared(stored[i].name)') /\ (Shared(edits[m].old.name) => Shared(edits[m].old.name)')
    BY <1>2 DEF Shared
  <2> QED
    BY <2>2, <2>3, <2>5, <2>6, <2>7
<1> QED
  BY <1>4, <1>5, <1>6

LEMMA BeginsInval ==
  ASSUME Base, Base', Onward, InvalInv, Len(edits) < Len(Saves), NEW ask \in Saves[Len(edits) + 1], Begins(ask)
  PROVE  InvalInv'
<1>1. PICK n : Begun(n)
  BY Beginning
<1>2. UNCHANGED <<stored, touched>>
  BY DEF Begins
<1>3. \A m \in Calls : edits'[m] = edits[m]
  BY <1>1 DEF Begun
<1>4. Invalidating'
  BY <1>2, <1>3, QuietInvalidating DEF InvalInv
<1>5. FoundOK(n)' /\ Relisting(n)' /\ TriggersRead(n)'
  <2>1. edits'[n].found = <<>> /\ edits'[n].pc \in {"name", "read", "look", "flows"}
        /\ (edits'[n].pc = "name" => Body(n)'.do = "create")
    BY <1>1 DEF Begun
  <2>4. DOMAIN <<>> = {}
    OBVIOUS
  <2>2. ~HasSaved(n)'
    BY <2>1 DEF HasSaved, Changed, Following
  <2>3. TriggersRead(n)'
    BY <2>1 DEF TriggersRead, Writing, Early
  <2> QED
    BY <2>1, <2>2, <2>3, <2>4, RelistingNone DEF FoundOK
<1>6. \A w \in Calls : edits'[w].pc = "done" => edits[w].pc = "done"
  BY <1>3
<1>7. ASSUME NEW m \in Calls
      PROVE  FoundOK(m)' /\ Relisting(m)' /\ TriggersRead(m)'
  BY <1>2, <1>3, <1>6, InvalSame DEF InvalInv
<1> QED
  BY <1>1, <1>4, <1>5, <1>7 DEF InvalInv, Begun

LEMMA ReadInval ==
  ASSUME Base, Base', Onward, InvalInv, NEW n, Read(n)
  PROVE  InvalInv'
<1>1. n \in Calls /\ Live(n) /\ edits[n].pc = "read" /\ UNCHANGED <<stored, touched>>
  BY ReadEffect
<1>2. CASE Course(n) /\ Ended(n, "refused")
  <2>1. Stops(n)
    BY <1>2 DEF Stops, Ended
  <2> QED
    BY <1>1, <1>2, <2>1, QuietInval
<1>3. ASSUME NEW pc \in {"remove", "name"}, ReadBy(n, pc)
      PROVE  InvalInv'
  <2>1. Calls' = Calls /\ edits'[n].pc = pc /\ \A m \in Calls \ {n} : edits'[m] = edits[m]
    BY <1>3 DEF ReadBy, Turn, Calls
  <2>2. \A w \in Calls : edits'[w].pc = "done" => edits[w].pc = "done"
    BY <2>1
  <2>3. Invalidating'
    BY <1>1, <2>2, QuietInvalidating DEF InvalInv
  <2>4. ASSUME NEW m \in Calls \ {n}
        PROVE  FoundOK(m)' /\ Relisting(m)' /\ TriggersRead(m)'
    BY <1>1, <2>1, <2>2, InvalSame DEF InvalInv
  <2>5. TriggersRead(n)'
    BY <1>1, <1>3, <2>3, TriggersJustRead
  <2>6. ~HasSaved(n)'
    BY <2>1 DEF HasSaved, Changed, Following
  <2>7. FoundOK(n)' /\ Relisting(n)'
    BY <2>1, <2>6, RelistingNone DEF FoundOK
  <2> QED
    BY <2>1, <2>3, <2>4, <2>5, <2>7 DEF InvalInv
<1> QED
  BY <1>2, <1>3, ReadEffect

LEMMA AddRoleInval ==
  ASSUME Base, Base', Onward, InvalInv, NEW n, AddRole(n)
  PROVE  InvalInv'
<1>1. Course(n) /\ Saving(n) /\ n \in Calls /\ edits[n].pc = "newRole" /\ CallOK(n) /\ Calls' = Calls
  BY SavesCourse, AddRoleEffect, CourseNumbers DEF Base
<1>2. CASE UNCHANGED <<stored, touched>> /\ Ended(n, "failed")
  <2>1. Stops(n)
    BY <1>2 DEF Stops, Ended
  <2> QED
    BY <1>1, <1>2, <2>1, QuietInval
<1>3. CASE /\ Now(n, "refs", <<>>, Refs(n), {}) /\ <<n, "role">> \notin DOMAIN touched
           /\ stored' = Put(stored, <<n, "role">>, Role)
           /\ touched' = Put(touched, <<n, "role">>, [wrote |-> n, named |-> n, others |-> {}])
  <2>1. edits'[n].pc = "refs"
    BY <1>1, <1>3, NowFacts
  <2>2. PICK i, mark : i = <<n, "role">> /\ Written(i, n, Role, mark) /\ mark.named = n
    BY <1>1, <1>3, WritesRole
  <2>3. StoreStep(n)
    BY <1>1, <1>3, WritesRole
  <2>4. i \notin DOMAIN touched /\ i \notin DOMAIN stored
    BY <1>3, <2>2 DEF Base, Shapes, StoreShapes
  <2>5. Impact(n)
    BY <1>1, <2>1, <2>2, <2>3, <2>4, WrittenImpact
  <2>6. FoundOK(n)'
    BY <1>1, FoundOwn DEF InvalInv
  <2>7. ~HasSaved(n)'
    BY <2>1 DEF HasSaved, Changed, Following
  <2>8. TriggersRead(n)'
    <3>1. \A j \in DOMAIN stored' : Carried(j) \/ stored'[j].refs = {}
      BY <2>2 DEF Written, Role
    <3>2. Body(n).id # i
      BY <1>1, <2>2 DEF CallOK, IdOK, Writing, Early
    <3>3. CASE Body(n).do = "update"
      <4>1. Body(n).id \in DOMAIN touched
        BY <1>1, <3>3 DEF CallOK, IdOK, Live, Over
      <4>2. touched'[Body(n).id] = touched[Body(n).id]
        BY <2>2, <3>2, <4>1 DEF Written
      <4> QED
        BY <1>1, <2>5, <3>1, <4>2, TriggersReadStays DEF InvalInv
    <3>4. CASE Body(n).do # "update"
      BY <1>1, <3>4 DEF TriggersRead, Onward
    <3> QED
      BY <3>3, <3>4
  <2> QED
    BY <1>1, <2>5, <2>6, <2>7, <2>8, RelistingNone, InvalStep
<1> QED
  BY <1>2, <1>3, AddRoleEffect

LEMMA WriteInval ==
  ASSUME Base, Base', Onward, InvalInv, NEW n, WriteContainer(n)
  PROVE  InvalInv'
<1>1. Course(n) /\ Saving(n) /\ n \in Calls /\ edits[n].pc = "write" /\ CallOK(n) /\ Calls' = Calls /\ n \in Nat \ {0}
  BY SavesCourse, WriteEffect, CourseNumbers, CallNumbers DEF Base, Shapes, CallShapes
<1>2. ASSUME NEW pc \in {"refused", "failed"}, UNCHANGED <<stored, touched>>, Ended(n, pc)
      PROVE  InvalInv'
  <2>1. Stops(n)
    BY <1>2 DEF Stops, Ended
  <2> QED
    BY <1>1, <1>2, <2>1, QuietInval
<1>3. CASE /\ Now(n, "clear", edits[n].found, Refs(n), ToClear(n))
           /\ Body(n).id \in DOMAIN stored \/ (Body(n).id = <<n, "made">> /\ Body(n).id \notin DOMAIN touched)
           /\ Body(n).do = "create" => Body(n).id \notin DOMAIN touched
           /\ stored' = Put(stored, Body(n).id, Made(n))
           /\ Wrote(Body(n).id, n, Body(n).name # edits[n].old.name)
  <2>1. edits'[n].pc = "clear"
    BY <1>1, <1>3, NowFacts
  <2>2. PICK i : i = Body(n).id
    OBVIOUS
  <2>3. PICK mark : /\ Written(i, n, Made(n), mark)
                    /\ mark.named = IF i \in DOMAIN touched /\ Body(n).name = edits[n].old.name THEN touched[i].named ELSE n
    BY <1>1, <1>3, <2>2, WritesMade
  <2>4. StoreStep(n)
    BY <1>1, <1>3, WritesMade
  <2>5. Made(n).name = Body(n).name /\ Made(n).refs = Body(n).refs
    BY DEF Made
  <2>6. i \in DOMAIN stored => touched[i].wrote # n
    <3> SUFFICES ASSUME i \in DOMAIN stored, touched[i].wrote = n
                 PROVE  FALSE
      OBVIOUS
    <3>1. Saved(i, n) \/ Added(i, n)
      BY <1>1 DEF Base, StoredOK, LeftBy
    <3>2. ~Saved(i, n)
      BY <1>1 DEF Saved, Changed, Following
    <3>3. i # <<n, "role">>
      BY <1>1, <2>2 DEF CallOK, IdOK, Writing
    <3> QED
      BY <3>1, <3>2, <3>3 DEF Added
  <2>7. mark.named = n \/ (PutsBack(i, n) /\ mark.named = touched[i].named)
    <3>1. CASE i \in DOMAIN touched /\ Body(n).name = edits[n].old.name
      <4>1. Body(n).do = "update"
        BY <1>1, <1>3, <2>2, <3>1 DEF Saving
      <4>2. stored'[i].name = Body(n).name /\ stored'[i].triggers = Made(n).triggers /\ touched'[i].named = touched[i].named
        BY <2>3, <2>5, <3>1 DEF Written
      <4>3. edits[n].old.triggers \subseteq Made(n).triggers
        BY <4>1 DEF Made
      <4> QED
        BY <1>1, <2>2, <2>3, <3>1, <4>1, <4>2, <4>3 DEF PutsBack
    <3> QED
      BY <2>3, <3>1
  <2>8. Impact(n)
    BY <1>1, <2>1, <2>2, <2>3, <2>4, <2>6, <2>7, WrittenImpact
  <2>9. FoundOK(n)'
    BY <2>1 DEF FoundOK
  <2>10. TriggersRead(n)'
    BY <2>1 DEF TriggersRead, Writing, Early
  <2>11. Relisting(n)'
    BY <1>1, <1>3, <2>2, <2>3, <2>5, <2>8, RelistingWritten DEF InvalInv
  <2> QED
    BY <1>1, <2>8, <2>9, <2>10, <2>11, InvalStep
<1> QED
  BY <1>2, <1>3, WriteEffect

LEMMA FlowsInval ==
  ASSUME Base, Base', Onward, InvalInv, NEW n, UpdateFlows(n)
  PROVE  InvalInv'
<1>1. Course(n) /\ n \in Calls /\ edits[n].pc = "flows" /\ Body(n).do = "flows" /\ Calls' = Calls
  BY SavesCourse, FlowsEffect, CourseNumbers
<1>2. CASE UNCHANGED <<stored, touched>> /\ Ended(n, "refused")
  <2>1. Stops(n)
    BY <1>2 DEF Stops, Ended
  <2> QED
    BY <1>1, <1>2, <2>1, QuietInval
<1>3. CASE /\ Now(n, "reclear", edits[n].found, edits[n].todo, {All, Body(n).id}) /\ Body(n).id \in DOMAIN stored
           /\ stored' = [stored EXCEPT ![Body(n).id].flows = n]
           /\ touched' = [touched EXCEPT ![Body(n).id].others = @ \cup {n}]
  <2>1. edits'[n].pc = "reclear" /\ ~Saving(n)'
    BY <1>1, <1>3, NowFacts DEF Saving
  <2>2. PICK i : i = Body(n).id
    OBVIOUS
  <2>3. i \in DOMAIN stored /\ StoreStep(n) /\ Amended(i, n) /\ stored'[i].triggers = stored[i].triggers
    BY <1>1, <1>3, <2>2, FlowsStep DEF Base, Shapes
  <2>4. Impact(n)
    BY <1>1, <2>3, AmendImpact
  <2>5. FoundOK(n)' /\ TriggersRead(n)' /\ ~HasSaved(n)'
    BY <2>1 DEF FoundOK, TriggersRead, Writing, Early, HasSaved
  <2> QED
    BY <1>1, <2>4, <2>5, RelistingNone, InvalStep
<1> QED
  BY <1>2, <1>3, FlowsEffect

LEMMA RemoveInval ==
  ASSUME Base, Base', Onward, InvalInv, NEW n, RemoveContainer(n)
  PROVE  InvalInv'
<1>1. /\ Course(n) /\ n \in Calls /\ Calls' = Calls /\ UNCHANGED touched /\ Body(n).do = "delete"
      /\ stored' = [i \in DOMAIN stored \ {Body(n).id} |-> stored[i]]
      /\ Now(n, "clear", edits[n].found, edits[n].todo, {All, Body(n).id})
  BY SavesCourse, RemoveEffect, CourseNumbers
<1>2. edits'[n].pc = "clear" /\ ~Saving(n)'
  BY <1>1, NowFacts DEF Saving
<1>3. Impact(n)
  BY <1>1, RemoveImpact
<1>4. FoundOK(n)' /\ TriggersRead(n)' /\ ~HasSaved(n)'
  BY <1>2 DEF FoundOK, TriggersRead, Writing, Early, HasSaved
<1> QED
  BY <1>1, <1>3, <1>4, RelistingNone, InvalStep

LEMMA RelistsInval ==
  ASSUME Base, Base', Onward, InvalInv, NEW n, Course(n), NEW pc, NEW todo, NEW clear, edits[n].pc \in Following,
         Now(n, pc, edits[n].found, todo, clear), pc \in Following,
         NEW i \in DOMAIN stored, NEW triggers, Relists(n, i, triggers),
         \A x \in stored[i].triggers : x \in triggers \/ Pulls(n, i, x),
         \A j \in DOMAIN stored : Owed(n, j) => Owed(n, j)' \/ (j = i /\ Body(n).name \in triggers)
  PROVE  InvalInv'
<1>1. n \in Calls /\ Calls' = Calls /\ edits'[n].pc = pc
  BY CourseNumbers, NowFacts
<1>2. StoreStep(n) /\ Amended(i, n) /\ stored'[i].triggers = triggers
  BY <1>1, RelistStep DEF Base, Shapes
<1>3. Impact(n)
  BY <1>1, <1>2, AmendImpact
<1>4. FoundOK(n)' /\ TriggersRead(n)'
  BY <1>1 DEF FoundOK, TriggersRead, Writing, Early, Following
<1>5. \A j \in DOMAIN stored' : Carried(j)
  BY <1>2 DEF Amended
<1>6. \A k \in DOMAIN stored, j \in DOMAIN stored :
        Owed(n, j) /\ Saved(k, n) => Owed(n, j)' \/ stored[k].name \in stored'[j].triggers
  BY <1>2 DEF Saved
<1>7. edits[n].pc \in Changed
  BY DEF Changed
<1>8. Relisting(n)'
  BY <1>1, <1>3, <1>5, <1>6, <1>7, RelistingOwn DEF InvalInv
<1> QED
  BY <1>3, <1>4, <1>8, InvalStep

LEMMA TriggerInval ==
  ASSUME Base, Base', Onward, InvalInv, NEW n, AddTrigger(n)
  PROVE  InvalInv'
<1>1. Course(n) /\ edits[n].pc = "trigger" /\ n \in Calls
  BY TriggerCourse, AddTriggerEffect
<1>2. CASE UNCHANGED <<stored, touched>> /\ edits[n].todo = {}
  BY <1>1, <1>2, QuietInval
<1>3. CASE UNCHANGED <<stored, touched>> /\ Ended(n, "failed")
  <2>1. Stops(n)
    BY <1>3 DEF Stops, Ended
  <2> QED
    BY <1>1, <1>3, <2>1, QuietInval
<1>4. ASSUME NEW r \in edits[n].todo, Now(n, "trigger", edits[n].found, edits[n].todo \ {r}, edits[n].clear),
             NEW i \in DOMAIN stored, i = edits[n].found[r], Relists(n, i, stored[i].triggers \cup {Body(n).name})
      PROVE  InvalInv'
  <2>1. edits'[n].pc = "trigger" /\ edits'[n].found = edits[n].found /\ edits'[n].todo = edits[n].todo \ {r}
    BY <1>1, <1>4, NowFacts
  <2>2. Amended(i, n)
    BY <1>1, <1>4, CourseNumbers, RelistStep DEF Base, Shapes
  <2>3. ASSUME NEW j \in DOMAIN stored, Owed(n, j)
        PROVE  Owed(n, j)' \/ j = i
    <3>1. stored'[j].name = stored[j].name
      BY <2>2 DEF Amended, Carried
    <3> QED
      BY <1>4, <2>1, <2>3, <3>1 DEF Owed
  <2>4. PICK triggers : triggers = stored[i].triggers \cup {Body(n).name}
    OBVIOUS
  <2>5. PICK todo : todo = edits[n].todo \ {r}
    OBVIOUS
  <2>6. /\ Now(n, "trigger", edits[n].found, todo, edits[n].clear) /\ Relists(n, i, triggers)
        /\ \A x \in stored[i].triggers : x \in triggers \/ Pulls(n, i, x)
        /\ \A j \in DOMAIN stored : Owed(n, j) => Owed(n, j)' \/ (j = i /\ Body(n).name \in triggers)
    BY <1>4, <2>3, <2>4, <2>5
  <2>7. edits[n].pc \in Following /\ "trigger" \in Following
    BY <1>1 DEF Following
  <2> QED
    BY <1>1, <2>6, <2>7, RelistsInval
<1> QED
  BY <1>2, <1>3, <1>4, AddTriggerEffect

LEMMA PullInval ==
  ASSUME Base, Base', Onward, InvalInv, NEW n, NEW pc, NEW next, PullPlaces(pc, next), At(n, pc), Pull(n, next)
  PROVE  InvalInv'
<1>1. Course(n) /\ edits[n].pc = pc /\ n \in Calls /\ pc \in {"pull", "rename"} /\ Saving(n)
  BY PullCourse, PullEffect DEF PullPlaces
<1>2. CASE UNCHANGED <<stored, touched>>
  <2>1. edits[n].pc \notin {"refs", "write", "trigger"}
    BY <1>1
  <2> QED
    BY <1>1, <1>2, <2>1, QuietInval
<1>3. ASSUME NEW r \in edits[n].todo, NEW i \in Named(r), NEW clear,
             Now(n, pc, edits[n].found, edits[n].todo \ {r}, clear),
             Relists(n, i, stored[i].triggers \ {edits[n].old.name})
      PROVE  InvalInv'
  <2>1. i \in DOMAIN stored /\ stored[i].name = r
    BY DEF Named
  <2>2. \A x \in stored[i].triggers : x \in stored[i].triggers \ {edits[n].old.name} \/ Pulls(n, i, x)
    BY <1>1, <2>1 DEF Pulls
  <2>3. pc \in Following /\ \A j \in DOMAIN stored : ~Owed(n, j)
    BY <1>1 DEF Following, Owed
  <2>4. PICK triggers : triggers = stored[i].triggers \ {edits[n].old.name}
    OBVIOUS
  <2>5. PICK todo : todo = edits[n].todo \ {r}
    OBVIOUS
  <2> QED
    BY <1>1, <1>3, <2>1, <2>2, <2>3, <2>4, <2>5, RelistsInval
<1> QED
  BY <1>2, <1>3, PullEffect

LEMMA InvalNext ==
  ASSUME Base, Base', Onward, InvalInv, [ContainersNext]_containerVars
  PROVE  InvalInv'
<1>1. CASE UNCHANGED containerVars
  <2>1. UNCHANGED <<stored, touched, edits>>
    BY <1>1 DEF containerVars
  <2>2. Invalidating'
    BY <2>1, QuietInvalidating DEF InvalInv
  <2>3. ASSUME NEW m \in Calls
        PROVE  FoundOK(m)' /\ Relisting(m)' /\ TriggersRead(m)'
    BY <2>1, InvalSame DEF InvalInv
  <2>4. Calls' = Calls
    BY <2>1 DEF Calls
  <2> QED
    BY <2>2, <2>3, <2>4 DEF InvalInv
<1>2. ASSUME NEW n, CheckName(n) \/ CheckAuth(n) \/ CheckRole(n) \/ EnsureIndexes(n) \/ Retire(n) \/ DropCollection(n)
                    \/ Look(n) \/ Breaks(n)
      PROVE  InvalInv'
  <2>1. Course(n) /\ UNCHANGED <<stored, touched>>
    BY <1>2, ChecksCourse
  <2>2. Stops(n) \/ edits[n].pc \notin {"refs", "write", "trigger"}
    <3>1. CASE Breaks(n)
      <4>1. n \in Calls /\ IsCall(edits[n]) /\ Sequential /\ Goes(n, "failed")
        BY <3>1 DEF Breaks, Running, Only, Base, Shapes, CallShapes, Calls
      <4>2. Ended(n, "failed")
        BY <4>1, Going DEF Over
      <4> QED
        BY <4>2 DEF Stops, Ended
    <3> QED
      BY <1>2, <3>1 DEF CheckName, CheckAuth, CheckRole, EnsureIndexes, Retire, DropCollection, Look, At
  <2>3. edits[n].pc # "refs" \/ FoundOK(n)'
    BY <2>2 DEF Stops, Ended, Turn, FoundOK, Over
  <2> QED
    BY <2>1, <2>2, <2>3, QuietInval
<1>3. ASSUME NEW n, CheckReference(n)
      PROVE  InvalInv'
  <2>1. Course(n) /\ edits[n].pc = "refs" /\ UNCHANGED <<stored, touched>> /\ n \in Calls
    BY <1>3, ReferenceCourse, CourseNumbers
  <2>2. FoundOK(n)'
    BY <1>3, <2>1, FoundReference DEF InvalInv
  <2> QED
    BY <2>1, <2>2, QuietInval
<1>4. ASSUME NEW n, Clear(n) \/ Find(n) \/ Fill(n)
      PROVE  InvalInv'
  <2>1. Course(n) /\ UNCHANGED <<stored, touched>>
    BY <1>4, ClearEffect, ListCourse
  <2>2. edits[n].pc \notin {"refs", "write", "trigger"}
    BY <1>4 DEF Clear, Find, Fill, At
  <2> QED
    BY <2>1, <2>2, QuietInval
<1>5. ASSUME NEW n, PullDropped(n) \/ PullRenamed(n)
      PROVE  InvalInv'
  <2>1. PICK pc, next : PullPlaces(pc, next) /\ At(n, pc) /\ Pull(n, next)
    BY <1>5 DEF PullPlaces, PullDropped, PullRenamed
  <2> QED
    BY <2>1, PullInval
<1> QED
  BY <1>1, <1>2, <1>3, <1>4, <1>5, BeginsInval, ReadInval, AddRoleInval, WriteInval, FlowsInval, RemoveInval, TriggerInval
     DEF ContainersNext

-----------------------------------------------------------------------------
(* The indexes that a container declares exist.                              *)

IndexesFine(i) ==
  stored[i].idx \subseteq Built(stored[i].name) \/ (\E n \in Calls : Harms(n, i)) \/ Shared(stored[i].name)
IndexesInv == (\A i \in DOMAIN stored : IndexesFine(i)) /\ \A n \in Calls : IndexesOf(n)

\* A call that has its container to write may stop, but not without a word.
StaysHarmful(m) ==
  edits[m].pc \in {"retire", "write"} => edits'[m].pc \in {"retire", "write", "failed", "refused"}

LEMMA CourseHarmful ==
  ASSUME Base, NEW n, Course(n), edits[n].pc # "write" \/ Stops(n), NEW m \in Calls
  PROVE  StaysHarmful(m)
<1>1. CASE m # n \/ UNCHANGED edits
  BY <1>1 DEF StaysHarmful, Course, Stops, GoesOn, Now, Ended, Turn
<1>2. CASE m = n /\ Stops(n)
  BY <1>2 DEF StaysHarmful, Stops, Ended, Turn, Over
<1>3. CASE m = n /\ GoesOn(n) /\ edits[n].pc # "write"
  BY <1>3 DEF StaysHarmful, GoesOn, Now, Turn, Leads
<1> QED
  BY <1>1, <1>2, <1>3 DEF Course

LEMMA AboutStays ==
  ASSUME Onward, NEW m \in Calls, NEW name, name # "", About(m, name)
  PROVE  About(m, name)'
BY DEF Onward, About

LEMMA HarmsStays ==
  ASSUME Base, Onward, NEW i \in DOMAIN stored, Carried(i), NEW m \in Calls, Harms(m, i), Body(m).id = i => StaysHarmful(m)
  PROVE  Harms(m, i)'
<1>1. PICK w \in Calls \cup {0} : touched[i].wrote = w
  BY DEF Base, Shapes, StoreShapes, History, By
<1>2. PICK name : name = stored[i].name
  OBVIOUS
<1>3. name # "" /\ stored'[i].name = name /\ touched'[i].wrote = w
  BY <1>1, <1>2 DEF Base, Shapes, StoreShapes, Container, Carried
<1>4. About(m, name)'
  BY <1>2, <1>3, AboutStays DEF Harms
<1>5. Overlap(m, w) => Overlap(m, w)'
  BY OverlapStays
<1>6. Overlap(m, w)' => Overlap(m, touched[i].wrote)'
  BY <1>3 DEF Overlap
<1>7. edits[m].pc \in {"failed", "refused"} => edits'[m].pc = edits[m].pc
  BY DEF Onward, Live, Over
<1>8. About(m, stored[i].name)'
  BY <1>3, <1>4 DEF About
<1>9. Body(m)'.id = Body(m).id
  BY DEF Onward
<1>10. m # touched'[i].wrote
  BY <1>1, <1>3 DEF Harms
<1>11. \/ Overlap(m, w) \/ edits[m].pc \in {"failed", "refused"}
       \/ edits[m].pc \in {"retire", "write"} /\ Body(m).id = i
  BY <1>1 DEF Harms
<1> QED
  BY <1>5, <1>6, <1>7, <1>8, <1>9, <1>10, <1>11 DEF Harms, StaysHarmful

LEMMA FineStays ==
  ASSUME Base, Onward, NEW i \in DOMAIN stored, Carried(i), IndexesFine(i), NEW name, name = stored[i].name,
         stored[i].idx \cap Built(name) \subseteq Built(name)', \A m \in Calls : Body(m).id = i => StaysHarmful(m)
  PROVE  IndexesFine(i)'
<1>1. stored'[i].name = name /\ stored'[i].idx = stored[i].idx
  BY DEF Carried
<1>2. Built(name)' = Built(stored[i].name)'
  BY <1>1 DEF Built
<1>3. CASE stored[i].idx \subseteq Built(name)
  BY <1>1, <1>2, <1>3 DEF IndexesFine
<1>4. ASSUME NEW m \in Calls, Harms(m, i)
      PROVE  IndexesFine(i)'
  <2>1. Harms(m, i)' /\ m \in Calls'
    BY <1>4, HarmsStays DEF Onward, Calls
  <2> QED
    BY <2>1 DEF IndexesFine
<1>5. CASE Shared(name)
  <2>1. Shared(name)'
    BY <1>5, SharedStays
  <2>2. Shared(stored[i].name)'
    BY <1>1, <2>1 DEF Shared
  <2> QED
    BY <2>2 DEF IndexesFine
<1> QED
  BY <1>3, <1>4, <1>5 DEF IndexesFine

LEMMA IndexesOfStays ==
  ASSUME Base, Onward, NEW m \in Calls, IndexesOf(m), edits'[m].pc \in {"retire", "write"} => edits[m].pc \in {"retire", "write"},
         NEW name, name = Body(m).name,
         \/ Body(m).idx \cap Built(name) \subseteq Built(name)'
         \/ \E k \in Calls : About(k, name) /\ Overlap(k, m)
  PROVE  IndexesOf(m)'
<1> SUFFICES ASSUME edits'[m].pc \in {"retire", "write"}
             PROVE  Body(m)'.idx \subseteq Built(name)' \/ \E k \in Calls' : About(k, name)' /\ Overlap(k, m)'
  <2>1. Body(m)'.name = name
    BY DEF Onward
  <2> QED
    BY <2>1 DEF IndexesOf, Built, About
<1>1. edits[m].pc \in {"retire", "write"} /\ Body(m)'.idx = Body(m).idx
  BY DEF Onward
<1>2. CASE Body(m).idx \subseteq Built(name) /\ Body(m).idx \cap Built(name) \subseteq Built(name)'
  BY <1>1, <1>2
<1>3. ASSUME NEW k \in Calls, About(k, name), Overlap(k, m)
      PROVE  \E l \in Calls' : About(l, name)' /\ Overlap(l, m)'
  <2>1. name # ""
    <3>1. IsAsk(Body(m)) /\ CallOK(m)
      BY DEF Base, Shapes, CallShapes, IsCall, Body
    <3>2. Saving(m)
      BY <1>1, <3>1 DEF CallOK, PlaceOK, Saving, Over
    <3> QED
      BY <3>1, <3>2 DEF IsAsk, Saving
  <2>2. About(k, name)' /\ Overlap(k, m)' /\ k \in Calls'
    BY <1>3, <2>1, AboutStays, OverlapStays DEF Onward, Calls
  <2> QED
    BY <2>2
<1> QED
  BY <1>1, <1>2, <1>3 DEF IndexesOf

\* Nothing is built or dropped, and no container is written.
LEMMA QuietIndexes ==
  ASSUME Base, Base', Onward, IndexesInv, NEW n, Course(n), UNCHANGED built, edits[n].pc # "write" \/ Stops(n),
         edits[n].pc # "index" \/ Stops(n), \A i \in DOMAIN stored' : Carried(i) \/ stored'[i].idx = {}
  PROVE  IndexesInv'
<1>1. Calls' = Calls
  BY CourseNumbers
<1>2. \A name : Built(name)' = Built(name)
  BY DEF Built
<1>3. ASSUME NEW i \in DOMAIN stored'
      PROVE  IndexesFine(i)'
  <2>1. CASE Carried(i)
    <3>1. i \in DOMAIN stored
      BY <2>1 DEF Carried
    <3> QED
      BY <1>2, <2>1, <3>1, CourseHarmful, FineStays DEF IndexesInv
  <2>2. CASE stored'[i].idx = {}
    BY <2>2 DEF IndexesFine
  <2> QED
    BY <2>1, <2>2
<1>4. ASSUME NEW m \in Calls
      PROVE  IndexesOf(m)'
  <2>1. edits'[m].pc \in {"retire", "write"} => edits[m].pc \in {"retire", "write"}
    <3>1. CASE m # n \/ UNCHANGED edits
      BY <3>1 DEF Course, Stops, GoesOn, Now, Ended, Turn
    <3>2. CASE m = n /\ Stops(n)
      BY <3>2 DEF Stops, Ended, Turn, Over
    <3>3. CASE m = n /\ GoesOn(n) /\ edits[n].pc # "index"
      BY <3>3 DEF GoesOn, Now, Turn, Leads
    <3> QED
      BY <3>1, <3>2, <3>3 DEF Course
  <2> QED
    BY <1>2, <2>1, IndexesOfStays DEF IndexesInv
<1> QED
  BY <1>1, <1>3, <1>4 DEF IndexesInv

LEMMA BeginsIndexes ==
  ASSUME Base, Base', Onward, IndexesInv, Len(edits) < Len(Saves), NEW ask \in Saves[Len(edits) + 1], Begins(ask)
  PROVE  IndexesInv'
<1>1. PICK n : Begun(n)
  BY Beginning
<1>2. UNCHANGED <<stored, touched, built>> /\ \A m \in Calls : edits'[m] = edits[m]
  BY <1>1 DEF Begins, Begun
<1>3. \A name : Built(name)' = Built(name)
  BY <1>2 DEF Built
<1>4. \A m \in Calls : StaysHarmful(m) /\ IndexesOf(m)'
  <2> TAKE m \in Calls
  <2>1. edits'[m] = edits[m] /\ IndexesOf(m)
    BY <1>2 DEF IndexesInv
  <2> QED
    BY <1>3, <2>1, IndexesOfStays DEF StaysHarmful
<1>5. IndexesOf(n)'
  BY <1>1 DEF IndexesOf, Begun
<1>6. \A i \in DOMAIN stored' : IndexesFine(i)'
  <2> TAKE i \in DOMAIN stored'
  <2>1. i \in DOMAIN stored /\ Carried(i) /\ IndexesFine(i)
    BY <1>2 DEF Carried, IndexesInv
  <2> QED
    BY <1>3, <1>4, <2>1, FineStays
<1> QED
  BY <1>1, <1>4, <1>5, <1>6 DEF IndexesInv, Begun

LEMMA ReadIndexes ==
  ASSUME Base, Base', Onward, IndexesInv, NEW n, Read(n)
  PROVE  IndexesInv'
<1>1. n \in Calls /\ Live(n) /\ edits[n].pc = "read" /\ UNCHANGED <<stored, touched, built>>
  BY ReadEffect
<1>2. CASE Course(n)
  BY <1>1, <1>2, QuietIndexes DEF Carried
<1>3. ASSUME NEW pc \in {"remove", "name"}, ReadBy(n, pc)
      PROVE  IndexesInv'
  <2>1. Calls' = Calls /\ edits'[n].pc = pc /\ \A m \in Calls \ {n} : edits'[m] = edits[m]
    BY <1>3 DEF ReadBy, Turn, Calls
  <2>2. \A name : Built(name)' = Built(name)
    BY <1>1 DEF Built
  <2>3. \A m \in Calls : edits'[m].pc \in {"retire", "write"} => edits[m].pc \in {"retire", "write"}
    BY <2>1
  <2>4. \A m \in Calls : StaysHarmful(m) /\ IndexesOf(m)'
    <3> TAKE m \in Calls
    <3>1. IndexesOf(m)
      BY DEF IndexesInv
    <3>2. StaysHarmful(m)
      BY <1>1, <2>1 DEF StaysHarmful
    <3> QED
      BY <2>2, <2>3, <3>1, <3>2, IndexesOfStays
  <2>5. \A i \in DOMAIN stored' : IndexesFine(i)'
    <3> TAKE i \in DOMAIN stored'
    <3>1. i \in DOMAIN stored /\ Carried(i) /\ IndexesFine(i)
      BY <1>1 DEF Carried, IndexesInv
    <3> QED
      BY <2>2, <2>4, <3>1, FineStays
  <2> QED
    BY <2>1, <2>4, <2>5 DEF IndexesInv
<1> QED
  BY <1>2, <1>3, ReadEffect

LEMMA EnsureIndexesIndexes ==
  ASSUME Base, Base', Onward, IndexesInv, NEW n, EnsureIndexes(n)
  PROVE  IndexesInv'
<1>1. Course(n) /\ UNCHANGED <<stored, touched>> /\ n \in Calls /\ Calls' = Calls /\ edits[n].pc = "index" /\ Sequential /\ IsCall(edits[n])
  <2>1. At(n, "index")
    BY DEF EnsureIndexes
  <2> QED
    BY <2>1, ChecksCourse, CourseNumbers, AtCall DEF Over
<1>2. PICK name : name = Body(n).name
  OBVIOUS
<1>3. \E more : /\ built' = Put(built, name, Built(name) \cup more)
                /\ Goes(n, "failed") \/ (more = Body(n).idx /\ (Goes(n, "retire") \/ Goes(n, "write")))
  BY <1>2 DEF EnsureIndexes
<1>4. PICK more : /\ built' = Put(built, name, Built(name) \cup more)
                  /\ Goes(n, "failed") \/ (more = Body(n).idx /\ (Goes(n, "retire") \/ Goes(n, "write")))
  BY <1>3
<1>5. (\A x : Built(x) \subseteq Built(x)') /\ Built(name)' = Built(name) \cup more
  BY <1>4 DEF Built, Put
<1>6. \A i \in DOMAIN stored' : IndexesFine(i)'
  <2> TAKE i \in DOMAIN stored'
  <2>1. i \in DOMAIN stored /\ Carried(i) /\ IndexesFine(i)
    BY <1>1 DEF Carried, IndexesInv
  <2>2. \A m \in Calls : StaysHarmful(m)
    BY <1>1, CourseHarmful
  <2> QED
    BY <1>5, <2>1, <2>2, FineStays
<1>7. \A m \in Calls \ {n} : IndexesOf(m)'
  <2> TAKE m \in Calls \ {n}
  <2>1. edits'[m] = edits[m] /\ IndexesOf(m)
    BY <1>1 DEF IndexesInv, Course, Stops, GoesOn, Now, Ended, Turn
  <2> QED
    BY <1>5, <2>1, IndexesOfStays
<1>8. IndexesOf(n)'
  <2>1. CASE Goes(n, "failed")
    <3>1. Ended(n, "failed")
      BY <1>1, <2>1, Going DEF Over
    <3> QED
      BY <3>1 DEF Ended, Turn, IndexesOf
  <2>2. CASE more = Body(n).idx
    <3>1. Body(n)'.idx = more /\ Body(n)'.name = name
      BY <1>1, <1>2, <2>2 DEF Onward
    <3>2. Body(n)'.idx \subseteq Built(Body(n).name)'
      BY <1>5, <3>1 DEF Built
    <3> QED
      BY <3>2 DEF IndexesOf
  <2> QED
    BY <1>4, <2>1, <2>2
<1> QED
  BY <1>1, <1>6, <1>7, <1>8 DEF IndexesInv

LEMMA NotYetWritten ==
  ASSUME Base, NEW n \in Calls, edits[n].pc \in Writing, Saving(n), NEW i \in DOMAIN stored, touched[i].wrote = n
  PROVE  Added(i, n) /\ i # Body(n).id
<1>1. n \in Nat \ {0} /\ CallOK(n)
  BY CallNumbers DEF Base, Shapes, CallShapes
<1>2. Saved(i, n) \/ Added(i, n)
  BY <1>1 DEF Base, StoredOK, LeftBy
<1>3. ~Saved(i, n)
  BY DEF Saved, Writing, Early, Changed, Following
<1>4. Body(n).id # <<n, "role">>
  BY <1>1 DEF CallOK, IdOK
<1> QED
  BY <1>2, <1>3, <1>4 DEF Added

\* A step that takes indexes of one name away, those i declares among them.
LEMMA LostIndexes ==
  ASSUME Base, Onward, NEW n \in Calls, UNCHANGED <<stored, touched>>, IndexesInv, NEW name, name # "", About(n, name),
         \A x : x # name => Built(x) = Built(x)', \A m \in Calls : StaysHarmful(m),
         NEW i \in DOMAIN stored,
         stored[i].name = name =>
           \/ stored[i].idx \cap Built(name) \subseteq Built(name)'
           \/ Overlap(touched[i].wrote, n)
           \/ Body(n).id = i /\ touched[i].wrote # n /\ edits'[n].pc \in {"retire", "write"}
           \/ Shared(name)
  PROVE  IndexesFine(i)'
<1>1. Carried(i) /\ IndexesFine(i)
  BY DEF Carried, IndexesInv
<1>2. CASE stored[i].name # name
  <2>1. stored[i].idx \cap Built(stored[i].name) \subseteq Built(stored[i].name)'
    BY <1>2 DEF Built
  <2>2. PICK x : x = stored[i].name
    OBVIOUS
  <2>3. stored[i].idx \cap Built(x) \subseteq Built(x)'
    BY <1>2, <2>2
  <2> QED
    BY <1>1, <2>2, <2>3, FineStays
<1>3. CASE stored[i].name = name /\ stored[i].idx \cap Built(name) \subseteq Built(name)'
  BY <1>1, <1>3, FineStays
<1>4. CASE stored[i].name = name /\ Shared(name)
  <2>1. Shared(name)'
    BY <1>4, SharedStays
  <2>2. Shared(stored[i].name)'
    BY <1>4, <2>1 DEF Shared
  <2> QED
    BY <2>2 DEF IndexesFine
<1>5. CASE stored[i].name = name /\ Overlap(touched[i].wrote, n)
  <2>1. PICK w \in Calls \cup {0} : touched[i].wrote = w
    BY DEF Base, Shapes, StoreShapes, History, By
  <2>2. Overlap(n, w) /\ n # w
    BY <1>5, <2>1 DEF Overlap
  <2>3. Overlap(n, w)' /\ About(n, name)'
    BY <2>2, OverlapStays, AboutStays
  <2>4. Harms(n, i)'
    BY <1>5, <2>1, <2>2, <2>3 DEF Harms, About, Overlap
  <2> QED
    BY <2>4 DEF IndexesFine, Onward, Calls
<1>6. CASE stored[i].name = name /\ Body(n).id = i /\ touched[i].wrote # n /\ edits'[n].pc \in {"retire", "write"}
  <2>1. About(n, name)' /\ Body(n)'.id = i
    BY <1>6, AboutStays DEF Onward
  <2>2. Harms(n, i)'
    BY <1>6, <2>1 DEF Harms, About
  <2> QED
    BY <2>2 DEF IndexesFine, Onward, Calls
<1> QED
  BY <1>2, <1>3, <1>4, <1>5, <1>6

\* What a call has seen built, another that runs beside it may take away.
LEMMA LostOf ==
  ASSUME Base, Onward, NEW n, Course(n), IndexesInv, NEW name, About(n, name),
         \A x : x # name => Built(x) = Built(x)', NEW m \in Calls \ {n}
  PROVE  IndexesOf(m)'
<1>1. n \in Calls /\ Live(n) /\ Sequential /\ (\A k \in Calls : Met(k)) /\ edits'[m] = edits[m] /\ IndexesOf(m)
  BY CourseNumbers DEF Base, Shapes, CallShapes, CallOK, Course, Stops, GoesOn, Now, Ended, Turn, IndexesInv
<1>2. PICK x : x = Body(m).name
  OBVIOUS
<1>3. CASE x # name
  BY <1>1, <1>2, <1>3, IndexesOfStays
<1>4. CASE x = name /\ edits[m].pc \in {"retire", "write"}
  <2>1. Live(m)
    BY <1>4 DEF Live, Over
  <2>2. About(n, x) /\ Overlap(n, m)
    BY <1>1, <1>4, <2>1, Together
  <2> QED
    BY <1>1, <1>2, <2>2, IndexesOfStays
<1>5. CASE edits[m].pc \notin {"retire", "write"}
  BY <1>1, <1>5 DEF IndexesOf
<1> QED
  BY <1>3, <1>4, <1>5

LEMMA RetireIndexes ==
  ASSUME Base, Base', Onward, IndexesInv, NEW n, Retire(n)
  PROVE  IndexesInv'
<1>1. /\ Course(n) /\ UNCHANGED <<stored, touched>> /\ n \in Calls /\ Calls' = Calls /\ edits[n].pc = "retire"
      /\ CallOK(n) /\ NamesOK(n) /\ IsAsk(Body(n))
  <2>1. At(n, "retire")
    BY DEF Retire
  <2> QED
    BY <2>1, ChecksCourse, CourseNumbers, AtCall DEF Over, Base, Shapes, CallShapes, IsCall, Body
<1>2. PICK name : name = Body(n).name
  OBVIOUS
<1>3. CASE UNCHANGED built
  <2>1. \A i \in DOMAIN stored' : Carried(i)
    BY <1>1 DEF Carried
  <2> QED
    BY <1>1, <1>3, <2>1, QuietIndexes
<1>4. ASSUME UNCHANGED edits, NEW x \in (edits[n].old.idx \ Body(n).idx) \cap Built(name), built' = [built EXCEPT ![name] = @ \ {x}]
      PROVE  IndexesInv'
  <2>1. name \in DOMAIN built
    BY <1>4 DEF Built
  <2>2. (\A y : y # name => Built(y) = Built(y)') /\ Built(name)' = Built(name) \ {x}
    BY <1>4, <2>1 DEF Built
  <2>3. Saving(n) /\ name # "" /\ About(n, name)
    BY <1>1, <1>2 DEF CallOK, PlaceOK, Saving, Over, IsAsk, About
  <2>4. \A m \in Calls : StaysHarmful(m)
    BY <1>1, CourseHarmful
  <2>5. \A i \in DOMAIN stored' : IndexesFine(i)'
    <3> TAKE i \in DOMAIN stored'
    <3>1. i \in DOMAIN stored
      BY <1>1
    <3>2. ASSUME stored[i].name = name
          PROVE  \/ stored[i].idx \cap Built(name) \subseteq Built(name)'
                 \/ Overlap(touched[i].wrote, n)
                 \/ Body(n).id = i /\ touched[i].wrote # n /\ edits'[n].pc \in {"retire", "write"}
      <4>1. CASE touched[i].wrote = n
        <5>1. Added(i, n)
          BY <1>1, <2>3, <3>1, <4>1, NotYetWritten DEF Writing
        <5> QED
          BY <5>1 DEF Added
      <4>2. CASE touched[i].wrote # n /\ i # Body(n).id
        <5>1. NameFree(n)
          BY <1>1, <2>3 DEF NamesOK, NameOK, Writing
        <5>2. Raced(touched[i].wrote, n)
          BY <1>2, <3>1, <3>2, <4>2, <5>1 DEF NameFree
        <5> QED
          BY <4>2, <5>2 DEF Raced
      <4>3. CASE touched[i].wrote # n /\ i = Body(n).id
        BY <1>1, <1>4, <4>3
      <4> QED
        BY <4>1, <4>2, <4>3
    <3> QED
      BY <1>1, <2>2, <2>3, <2>4, <3>1, <3>2, LostIndexes
  <2>6. \A m \in Calls \ {n} : IndexesOf(m)'
    BY <1>1, <2>2, <2>3, LostOf
  <2>7. IndexesOf(n)'
    <3>1. Body(n).idx \cap Built(name) \subseteq Built(name)'
      BY <1>4, <2>2
    <3>2. IndexesOf(n) /\ edits'[n].pc \in {"retire", "write"} => edits[n].pc \in {"retire", "write"}
      BY <1>4
    <3> QED
      BY <1>1, <1>2, <3>1, <3>2, IndexesOfStays DEF IndexesInv
  <2> QED
    BY <1>1, <2>5, <2>6, <2>7 DEF IndexesInv
<1> QED
  BY <1>2, <1>3, <1>4 DEF Retire

LEMMA DropIndexes ==
  ASSUME Base, Base', Onward, IndexesInv, NEW n, DropCollection(n)
  PROVE  IndexesInv'
<1>1. /\ Course(n) /\ UNCHANGED <<stored, touched>> /\ n \in Calls /\ Calls' = Calls /\ edits[n].pc = "drop" /\ Live(n)
      /\ CallOK(n) /\ NamesOK(n) /\ IsCall(edits[n]) /\ Sequential
  <2>1. At(n, "drop")
    BY DEF DropCollection
  <2> QED
    BY <2>1, ChecksCourse, CourseNumbers, AtCall DEF Over
<1>2. PICK name : name = edits[n].old.name
  OBVIOUS
<1>3. \A x : x # name => Built(x) = Built(x)'
  BY <1>2 DEF DropCollection, Built
<1>4. Body(n).do = "delete" /\ Body(n).id \notin DOMAIN stored /\ OldFree(n)
  <2>1. Body(n).do = "delete"
    BY <1>1 DEF CallOK, PlaceOK, Over, Writing, Early, Following
  <2> QED
    BY <1>1, <2>1 DEF CallOK, IdOK, NamesOK, OldOK, Changed
<1>5. Ended(n, "reclear") \/ edits'[n].pc = "reclear"
  <2>1. Goes(n, "reclear")
    BY DEF DropCollection
  <2> QED
    BY <1>1, <2>1, Going DEF Now, Turn
<1>6. \A m \in Calls : StaysHarmful(m)
  BY <1>1, CourseHarmful
<1>7. ASSUME NEW i \in DOMAIN stored
      PROVE  IndexesFine(i)'
  <2>1. CASE name = ""
    <3>1. stored[i].name # name
      BY <2>1 DEF Base, Shapes, StoreShapes, Container
    <3>2. PICK x : x = stored[i].name
      OBVIOUS
    <3>3. stored[i].idx \cap Built(x) \subseteq Built(x)'
      BY <1>3, <3>1, <3>2
    <3>4. Carried(i) /\ IndexesFine(i)
      BY <1>1 DEF Carried, IndexesInv
    <3> QED
      BY <1>6, <3>2, <3>3, <3>4, FineStays
  <2>2. CASE name # ""
    <3>1. ASSUME stored[i].name = name
          PROVE  \/ stored[i].idx \cap Built(name) \subseteq Built(name)'
                 \/ Overlap(touched[i].wrote, n) \/ Shared(name)
      <4>1. touched[i].wrote = n \/ Overlap(touched[i].wrote, n) \/ Shared(name)
        BY <1>2, <1>4, <3>1 DEF OldFree
      <4>2. CASE touched[i].wrote = n
        <5>1. n \in Nat \ {0}
          BY <1>1, CallNumbers
        <5>2. Added(i, n)
          BY <1>1, <1>4, <4>2, <5>1 DEF Base, StoredOK, LeftBy, Saved, Saving
        <5> QED
          BY <5>2 DEF Added
      <4> QED
        BY <4>1, <4>2
    <3>2. About(n, name)
      BY <1>2 DEF About
    <3> QED
      BY <1>1, <1>3, <1>6, <2>2, <3>1, <3>2, LostIndexes
  <2> QED
    BY <2>1, <2>2
<1>8. \A m \in Calls \ {n} : IndexesOf(m)'
  BY <1>1, <1>2, <1>3, LostOf DEF About
<1>9. IndexesOf(n)'
  BY <1>5 DEF IndexesOf, Ended, Over
<1> QED
  BY <1>1, <1>7, <1>8, <1>9 DEF IndexesInv

\* A container is written with the indexes that were built for it.
LEMMA WriteIndexes ==
  ASSUME Base, Base', Onward, IndexesInv, NEW n, WriteContainer(n)
  PROVE  IndexesInv'
<1>1. /\ Course(n) /\ Saving(n) /\ n \in Calls /\ edits[n].pc = "write" /\ CallOK(n) /\ Calls' = Calls /\ UNCHANGED built
      /\ IsAsk(Body(n))
  BY SavesCourse, WriteEffect, CourseNumbers DEF Base, Shapes, CallShapes, IsCall, Body
<1>2. \A name : Built(name)' = Built(name)
  BY <1>1 DEF Built
<1>3. CASE UNCHANGED <<stored, touched>> /\ \E pc \in {"refused", "failed"} : Ended(n, pc)
  <2>1. Stops(n)
    BY <1>3 DEF Stops, Ended
  <2>2. \A i \in DOMAIN stored' : Carried(i)
    BY <1>3 DEF Carried
  <2> QED
    BY <1>1, <2>1, <2>2, QuietIndexes
<1>4. CASE /\ Now(n, "clear", edits[n].found, Refs(n), ToClear(n))
           /\ Body(n).id \in DOMAIN stored \/ (Body(n).id = <<n, "made">> /\ Body(n).id \notin DOMAIN touched)
           /\ stored' = Put(stored, Body(n).id, Made(n))
           /\ Wrote(Body(n).id, n, Body(n).name # edits[n].old.name)
  <2>1. PICK i, name : i = Body(n).id /\ name = Body(n).name
    OBVIOUS
  <2>2. PICK mark : Written(i, n, Made(n), mark)
    BY <1>1, <1>4, <2>1, WritesMade
  <2>3. /\ stored'[i].name = name /\ stored'[i].idx = Body(n).idx /\ touched'[i].wrote = n
        /\ \A j \in DOMAIN stored' \ {i} : j \in DOMAIN stored /\ Carried(j)
    BY <2>1, <2>2 DEF Written, Made
  <2>4. edits'[n].pc = "clear"
    BY <1>1, <1>4, NowFacts
  <2>5. \A m \in Calls \ {n} : edits'[m] = edits[m]
    BY <1>4 DEF Now, Turn
  <2>6. ASSUME NEW j \in DOMAIN stored' \ {i}
        PROVE  IndexesFine(j)'
    <3>1. j \in DOMAIN stored /\ Carried(j) /\ IndexesFine(j)
      BY <2>3 DEF IndexesInv
    <3>2. \A m \in Calls : Body(m).id = j => StaysHarmful(m)
      BY <2>1, <2>5 DEF StaysHarmful
    <3> QED
      BY <1>2, <3>1, <3>2, FineStays
  <2>7. IndexesFine(i)'
    <3>1. \/ Body(n).idx \subseteq Built(name)
          \/ \E m \in Calls : About(m, name) /\ Overlap(m, n)
      BY <1>1, <2>1 DEF IndexesInv, IndexesOf
    <3>2. CASE Body(n).idx \subseteq Built(name)
      <4>1. stored'[i].idx \subseteq Built(name)'
        BY <1>2, <2>3, <3>2
      <4>2. Built(name)' = Built(stored[i].name)'
        BY <2>3 DEF Built
      <4> QED
        BY <4>1, <4>2 DEF IndexesFine
    <3>3. ASSUME NEW m \in Calls, About(m, name), Overlap(m, n)
          PROVE  IndexesFine(i)'
      <4>1. name # ""
        BY <1>1, <2>1 DEF IsAsk, Saving
      <4>2. About(m, name)' /\ Overlap(m, n)' /\ m # n
        BY <1>1, <3>3, <4>1, AboutStays, OverlapStays DEF Overlap
      <4>3. Harms(m, i)'
        BY <2>3, <4>2 DEF Harms, About, Overlap
      <4> QED
        BY <1>1, <4>3 DEF IndexesFine
    <3> QED
      BY <3>1, <3>2, <3>3
  <2>8. \A m \in Calls \ {n} : IndexesOf(m)'
    <3> TAKE m \in Calls \ {n}
    <3>1. edits'[m] = edits[m] /\ IndexesOf(m)
      BY <2>5 DEF IndexesInv
    <3> QED
      BY <1>2, <3>1, IndexesOfStays
  <2>9. IndexesOf(n)'
    BY <2>4 DEF IndexesOf
  <2> QED
    BY <1>1, <2>6, <2>7, <2>8, <2>9 DEF IndexesInv
<1> QED
  BY <1>3, <1>4, WriteEffect

LEMMA IndexesNext ==
  ASSUME Base, Base', Onward, IndexesInv, [ContainersNext]_containerVars
  PROVE  IndexesInv'
<1>1. CASE UNCHANGED containerVars
  <2>1. UNCHANGED <<stored, touched, edits, built>>
    BY <1>1 DEF containerVars
  <2>2. \A m \in Calls : StaysHarmful(m) /\ IndexesOf(m)'
    <3> TAKE m \in Calls
    <3>1. edits'[m] = edits[m] /\ IndexesOf(m) /\ \A name : Built(name)' = Built(name)
      BY <2>1 DEF IndexesInv, Built
    <3> QED
      BY <3>1, IndexesOfStays DEF StaysHarmful
  <2>3. \A i \in DOMAIN stored' : IndexesFine(i)'
    <3> TAKE i \in DOMAIN stored'
    <3>1. i \in DOMAIN stored /\ Carried(i) /\ IndexesFine(i) /\ \A name : Built(name)' = Built(name)
      BY <2>1 DEF Carried, IndexesInv, Built
    <3> QED
      BY <2>2, <3>1, FineStays
  <2>4. Calls' = Calls
    BY <2>1 DEF Calls
  <2> QED
    BY <2>2, <2>3, <2>4 DEF IndexesInv
<1>2. ASSUME NEW n, CheckName(n) \/ CheckAuth(n) \/ CheckRole(n) \/ CheckReference(n) \/ Look(n) \/ Find(n) \/ Fill(n) \/ Clear(n)
      PROVE  IndexesInv'
  <2>1. Course(n) /\ UNCHANGED <<stored, touched>>
    BY <1>2, ChecksCourse, ReferenceCourse, ListCourse, ClearEffect
  <2>2. UNCHANGED built /\ edits[n].pc \notin {"index", "write"}
    BY <1>2 DEF CheckName, CheckAuth, CheckRole, CheckReference, Look, Find, Fill, Clear, Only, At
  <2>3. \A i \in DOMAIN stored' : Carried(i)
    BY <2>1 DEF Carried
  <2> QED
    BY <2>1, <2>2, <2>3, QuietIndexes
<1>3. ASSUME NEW n, Breaks(n)
      PROVE  IndexesInv'
  <2>1. Course(n) /\ UNCHANGED <<stored, touched, built>>
    BY <1>3, ChecksCourse DEF Breaks, Only
  <2>2. Stops(n)
    <3>1. n \in Calls /\ IsCall(edits[n]) /\ Sequential /\ Goes(n, "failed")
      BY <1>3 DEF Breaks, Running, Only, Base, Shapes, CallShapes, Calls
    <3>2. Ended(n, "failed")
      BY <3>1, Going DEF Over
    <3> QED
      BY <3>2 DEF Stops, Ended
  <2>3. \A i \in DOMAIN stored' : Carried(i)
    BY <2>1 DEF Carried
  <2> QED
    BY <2>1, <2>2, <2>3, QuietIndexes
<1>4. ASSUME NEW n, AddRole(n)
      PROVE  IndexesInv'
  <2>1. Course(n) /\ n \in Calls /\ Calls' = Calls /\ edits[n].pc = "newRole" /\ UNCHANGED built
    BY <1>4, SavesCourse, AddRoleEffect, CourseNumbers
  <2>2. \A i \in DOMAIN stored' : Carried(i) \/ stored'[i].idx = {}
    <3>1. CASE UNCHANGED <<stored, touched>>
      BY <3>1 DEF Carried
    <3>2. CASE /\ <<n, "role">> \notin DOMAIN touched /\ stored' = Put(stored, <<n, "role">>, Role)
               /\ touched' = Put(touched, <<n, "role">>, [wrote |-> n, named |-> n, others |-> {}])
      <4>1. PICK i, mark : i = <<n, "role">> /\ Written(i, n, Role, mark)
        BY <2>1, <3>2, WritesRole
      <4> QED
        BY <4>1 DEF Written, Role
    <3> QED
      BY <1>4, <3>1, <3>2, AddRoleEffect
  <2> QED
    BY <2>1, <2>2, QuietIndexes
<1>5. ASSUME NEW n, UpdateFlows(n)
      PROVE  IndexesInv'
  <2>1. Course(n) /\ n \in Calls /\ Calls' = Calls /\ edits[n].pc = "flows" /\ UNCHANGED built
    BY <1>5, SavesCourse, FlowsEffect, CourseNumbers
  <2>2. \A i \in DOMAIN stored' : Carried(i)
    <3>1. CASE UNCHANGED <<stored, touched>>
      BY <3>1 DEF Carried
    <3>2. CASE /\ Body(n).id \in DOMAIN stored
               /\ stored' = [stored EXCEPT ![Body(n).id].flows = n]
               /\ touched' = [touched EXCEPT ![Body(n).id].others = @ \cup {n}]
      <4>1. PICK i : i = Body(n).id
        OBVIOUS
      <4>2. Amended(i, n)
        BY <2>1, <3>2, <4>1, FlowsStep DEF Base, Shapes
      <4> QED
        BY <4>2 DEF Amended
    <3> QED
      BY <1>5, <3>1, <3>2, FlowsEffect
  <2> QED
    BY <2>1, <2>2, QuietIndexes
<1>6. ASSUME NEW n, RemoveContainer(n)
      PROVE  IndexesInv'
  <2>1. /\ Course(n) /\ edits[n].pc = "remove" /\ UNCHANGED <<built, touched>>
        /\ stored' = [i \in DOMAIN stored \ {Body(n).id} |-> stored[i]]
    BY <1>6, SavesCourse, RemoveEffect
  <2>2. \A i \in DOMAIN stored' : Carried(i)
    BY <2>1 DEF Carried
  <2> QED
    BY <2>1, <2>2, QuietIndexes
<1>7. ASSUME NEW n, Course(n), edits[n].pc \in Following, UNCHANGED built,
             UNCHANGED <<stored, touched>> \/ \E i \in DOMAIN stored : \E triggers : Relists(n, i, triggers)
      PROVE  IndexesInv'
  <2>1. n \in Calls /\ Calls' = Calls
    BY <1>7, CourseNumbers
  <2>2. \A i \in DOMAIN stored' : Carried(i)
    <3>1. CASE UNCHANGED <<stored, touched>>
      BY <3>1 DEF Carried
    <3>2. ASSUME NEW i \in DOMAIN stored, NEW triggers, Relists(n, i, triggers)
          PROVE  \A j \in DOMAIN stored' : Carried(j)
      <4>1. Amended(i, n)
        BY <2>1, <3>2, RelistStep DEF Base, Shapes
      <4> QED
        BY <4>1 DEF Amended
    <3> QED
      BY <1>7, <3>1, <3>2
  <2>3. edits[n].pc \notin {"index", "write"}
    BY <1>7 DEF Following
  <2> QED
    BY <1>7, <2>2, <2>3, QuietIndexes
<1>8. ASSUME NEW n, AddTrigger(n)
      PROVE  IndexesInv'
  <2>1. Course(n) /\ edits[n].pc \in Following /\ UNCHANGED built
    BY <1>8, TriggerCourse, AddTriggerEffect DEF Following
  <2>2. UNCHANGED <<stored, touched>> \/ \E i \in DOMAIN stored : \E triggers : Relists(n, i, triggers)
    BY <1>8, AddTriggerEffect
  <2> QED
    BY <1>7, <2>1, <2>2
<1>9. ASSUME NEW n, PullDropped(n) \/ PullRenamed(n)
      PROVE  IndexesInv'
  <2>1. PICK pc, next : PullPlaces(pc, next) /\ At(n, pc) /\ Pull(n, next)
    BY <1>9 DEF PullPlaces, PullDropped, PullRenamed
  <2>2. Course(n) /\ edits[n].pc \in Following /\ UNCHANGED built
    BY <2>1, PullCourse, PullEffect DEF PullPlaces, Following
  <2>3. UNCHANGED <<stored, touched>> \/ \E i \in DOMAIN stored : \E triggers : Relists(n, i, triggers)
    <3>1. ASSUME NEW r, NEW i \in Named(r), Relists(n, i, stored[i].triggers \ {edits[n].old.name})
          PROVE  \E j \in DOMAIN stored : \E triggers : Relists(n, j, triggers)
      BY <3>1 DEF Named
    <3> QED
      BY <2>1, <3>1, PullEffect
  <2> QED
    BY <1>7, <2>2, <2>3
<1> QED
  BY <1>1, <1>2, <1>3, <1>4, <1>5, <1>6, <1>8, <1>9, BeginsIndexes, ReadIndexes, EnsureIndexesIndexes, RetireIndexes,
     DropIndexes, WriteIndexes DEF ContainersNext

-----------------------------------------------------------------------------
(* The cached listings of the panel are current.                             *)

ListsInv == ListedOK /\ \A n \in Calls : FillOK(n) /\ RenamedTo(n)

\* A call forgets what it has to clear only when it has cleared it, or says so.
Keeps(m) ==
  Live(m) /\ Body(m).do # "list" =>
    \/ edits'[m].pc \in {"failed", "refused"}
    \/ edits'[m].pc = "done" /\ (edits'[m].cleared => DOMAIN listed' \cap (edits[m].clear \cup {All}) = {})
    \/ Live(m)' /\ edits[m].clear \subseteq edits'[m].clear

\* The last deletion, when it works, leaves nothing of what n has to clear.
Swept(n) ==
  edits[n].pc = "reclear" /\ edits'[n].pc = "done" /\ edits'[n].cleared => DOMAIN listed' \cap edits[n].clear = {}

LEMMA CourseKeeps ==
  ASSUME Base, NEW n, Course(n), Swept(n), NEW m \in Calls
  PROVE  Keeps(m)
<1>1. n \in Calls /\ Live(n) /\ CallOK(n)
  BY CourseNumbers DEF Base
<1>2. CASE m # n \/ UNCHANGED edits
  BY <1>2 DEF Keeps, Course, Stops, GoesOn, Now, Ended, Turn, Live
<1>3. CASE m = n /\ GoesOn(n)
  BY <1>3 DEF Keeps, GoesOn, Now, Turn, Live
<1>4. CASE m = n /\ Stops(n)
  <2>1. PICK pc \in Over : edits'[n].pc = pc /\ (pc = "done" => edits[n].pc \in {"reclear", "look", "fill"})
    BY <1>4 DEF Stops, Ended, Turn
  <2>2. CASE pc = "done" /\ edits[n].pc = "reclear"
    <3>1. All \in edits[n].clear
      BY <1>1, <2>2 DEF CallOK, ClearOK, Changed
    <3> QED
      BY <1>4, <2>1, <2>2, <3>1 DEF Keeps, Swept
  <2>3. CASE edits[n].pc \in {"look", "fill"}
    <3>1. Body(n).do = "list"
      BY <1>1, <2>3 DEF CallOK, PlaceOK, Over, Writing, Early, Following
    <3> QED
      BY <1>4, <3>1 DEF Keeps
  <2>4. CASE pc \in {"failed", "refused"}
    BY <1>4, <2>1, <2>4 DEF Keeps
  <2> QED
    BY <2>1, <2>2, <2>3, <2>4 DEF Over
<1> QED
  BY <1>2, <1>3, <1>4 DEF Course

LEMMA MarksStay ==
  ASSUME Onward, NEW m \in Calls, Marks(m)
  PROVE  Marks(m)'
BY DEF Onward, Marks

LEMMA LeavesStays ==
  ASSUME Onward, NEW m \in Calls, Body(m).do # "list", Keeps(m), NEW k \in DOMAIN listed', Leaves(m, k)
  PROVE  Leaves(m, k)'
<1>1. CASE ~Live(m)
  <2>1. edits'[m] = edits[m]
    BY <1>1 DEF Onward
  <2> QED
    BY <1>1, <2>1 DEF Leaves, Live
<1>2. CASE Live(m)
  <2>1. k \in edits[m].clear
    BY <1>2 DEF Leaves, Live, Over
  <2> QED
    BY <1>2, <2>1 DEF Leaves, Keeps
<1> QED
  BY <1>1, <1>2

LEMMA MissedStays ==
  ASSUME Onward, NEW m \in Calls, Keeps(m), NEW k \in DOMAIN listed', NEW b \in Calls, Missed(m, k, b)
  PROVE  Missed(m, k, b)'
<1>1. Marks(m)' /\ Body(m).do # "list"
  BY MarksStay DEF Missed, Marks
<1>2. CASE Overlap(m, b)
  BY <1>1, <1>2, OverlapStays DEF Missed
<1>3. CASE Leaves(m, k)
  BY <1>1, <1>3, LeavesStays DEF Missed
<1>4. CASE Live(m) /\ k = All
  BY <1>1, <1>4 DEF Missed, Leaves, Keeps
<1> QED
  BY <1>2, <1>3, <1>4 DEF Missed

\* What is listed now was listed before, or another call than m has put it there,
\* beside it.
Entries(m) ==
  \A k \in DOMAIN listed' :
    \/ k \in DOMAIN listed /\ listed'[k] = listed[k]
    \/ \E b \in Calls : listed'[k].by = b /\ Overlap(m, b)'

LEMMA RenamedByStays ==
  ASSUME Onward, NEW m \in Calls, Entries(m), \A k \in Calls : Keeps(k), NEW i \in DOMAIN stored, Carried(i), RenamedBy(m, i)
  PROVE  RenamedBy(m, i)'
<1>1. PICK w \in Calls : /\ touched[i].wrote = w /\ Overlap(w, m) /\ Marks(w)
                         /\ i \in DOMAIN listed => Leaves(w, i) \/ \E b \in Calls : listed[i].by = b /\ Overlap(m, b)
  BY DEF RenamedBy
<1>2. touched'[i].wrote = w /\ Overlap(w, m)' /\ Marks(w)' /\ w \in Calls' /\ Body(w).do # "list" /\ Calls \subseteq Calls'
  BY <1>1, OverlapStays, MarksStay DEF Carried, Onward, Calls, Marks
<1>3. ASSUME i \in DOMAIN listed'
      PROVE  Leaves(w, i)' \/ \E b \in Calls' : listed'[i].by = b /\ Overlap(m, b)'
  <2>1. CASE i \in DOMAIN listed /\ listed'[i] = listed[i]
    <3>1. CASE Leaves(w, i)
      BY <1>2, <1>3, <3>1, LeavesStays
    <3>2. ASSUME NEW b \in Calls, listed[i].by = b, Overlap(m, b)
          PROVE  \E c \in Calls' : listed'[i].by = c /\ Overlap(m, c)'
      <4>1. listed'[i].by = b /\ Overlap(m, b)' /\ b \in Calls'
        BY <1>2, <2>1, <3>2, OverlapStays
      <4> QED
        BY <4>1
    <3> QED
      BY <1>1, <2>1, <3>1, <3>2
  <2> QED
    BY <1>2, <1>3, <2>1 DEF Entries
<1> QED
  BY <1>2, <1>3 DEF RenamedBy

\* The call m, in a step in which it keeps what it has found.
LEMMA RenamedStays ==
  ASSUME Onward, NEW m \in Calls, Entries(m), \A k \in Calls : Keeps(k), RenamedTo(m),
         edits'[m].pc \in Writing \cup Changed => edits[m].pc \in Writing \cup Changed /\ edits'[m].found = edits[m].found,
         \A i \in DOMAIN stored' \ {Body(m).id} :
           Carried(i) \/ RenamedBy(m, i)' \/ edits'[m].found = <<>> \/ edits'[m].pc \notin Writing \cup Changed
  PROVE  RenamedTo(m)'
<1>1. Body(m)'.id = Body(m).id /\ (Saving(m)' => Saving(m))
  BY DEF Onward, Saving
<1> SUFFICES ASSUME edits'[m].pc \in Writing \cup Changed, Saving(m)', NEW r \in DOMAIN edits'[m].found,
                    NEW i \in DOMAIN stored' \ {Body(m).id}, stored'[i].name = r, i # edits'[m].found[r]
             PROVE  Shared(r)' \/ RenamedBy(m, i)'
  BY <1>1 DEF RenamedTo
<1>2. edits[m].pc \in Writing \cup Changed /\ edits'[m].found = edits[m].found /\ Saving(m)
  BY <1>1
<1>3. edits'[m].found # <<>>
  <2>1. DOMAIN <<>> = {}
    OBVIOUS
  <2> QED
    BY <2>1
<1>4. CASE Carried(i)
  <2>1. i \in DOMAIN stored \ {Body(m).id} /\ stored[i].name = r /\ i # edits[m].found[r]
    BY <1>2, <1>4 DEF Carried
  <2>2. Shared(r) \/ RenamedBy(m, i)
    BY <1>2, <2>1 DEF RenamedTo
  <2> QED
    BY <1>2, <1>4, <2>1, <2>2, SharedStays, RenamedByStays
<1> QED
  BY <1>3, <1>4

LEMMA SharedAny ==
  ASSUME NEW name, Shared(name)
  PROVE  AnyShared
<1>1. PICK m \in Calls : name \in Gives(m)
  BY DEF Shared, Calls
<1> QED
  BY <1>1 DEF AnyShared

\* An entry that stays, of what has not changed.
LEMMA FineListed ==
  ASSUME Base, Onward, \A m \in Calls : Keeps(m), NEW k \in DOMAIN listed', k \in DOMAIN listed, listed'[k] = listed[k],
         ListedFine(k), View(k)' = View(k)
  PROVE  ListedFine(k)'
<1>1. CASE listed[k].view = View(k)
  BY <1>1 DEF ListedFine
<1>2. ASSUME NEW m \in Calls, NEW b \in Calls, listed[k].by = b, Missed(m, k, b)
      PROVE  ListedFine(k)'
  <2>1. Missed(m, k, b)' /\ m \in Calls' /\ b \in Calls' /\ listed'[k].by = b
    BY <1>2, MissedStays DEF Onward, Calls
  <2> QED
    BY <2>1 DEF ListedFine
<1>3. CASE AnyShared
  BY <1>3, AnySharedStays DEF ListedFine
<1> QED
  BY <1>1, <1>2, <1>3 DEF ListedFine

\* What n has found, when its step is not one that finds.
LEMMA OwnFill ==
  ASSUME NEW n, Course(n), edits[n].pc \notin {"find", "fill"}
  PROVE  FillOK(n)'
<1>1. edits'[n].pc # "fill"
  BY DEF Course, Stops, Ended, Over, GoesOn, Now, Turn, Leads
<1> QED
  BY <1>1 DEF FillOK

LEMMA OwnRenamed ==
  ASSUME Base, Onward, NEW n, Course(n), Entries(n), \A k \in Calls : Keeps(k), RenamedTo(n),
         edits[n].pc \notin {"refs", "find", "fill"},
         \A i \in DOMAIN stored' \ {Body(n).id} : Carried(i) \/ edits[n].found = <<>>
  PROVE  RenamedTo(n)'
<1>1. n \in Calls /\ Live(n) /\ CallOK(n)
  BY CourseNumbers DEF Base
<1>2. CASE ~Saving(n)
  <2>1. ~Saving(n)'
    BY <1>1, <1>2 DEF Onward, Saving
  <2> QED
    BY <2>1 DEF RenamedTo
<1>3. CASE Saving(n)
  <2>1. edits'[n].pc \in Writing \cup Changed => edits[n].pc \in Writing \cup Changed /\ edits'[n].found = edits[n].found
    <3>1. CASE UNCHANGED edits
      BY <3>1
    <3>2. CASE Stops(n)
      BY <3>2 DEF Stops, Ended, Turn, Over, Writing, Early, Changed, Following
    <3>3. CASE GoesOn(n)
      <4>1. edits'[n].found = edits[n].found /\ edits[n].pc # "look"
        BY <1>1, <1>3, <3>3 DEF GoesOn, Now, CallOK, PlaceOK, Saving, Over, Writing, Early, Following
      <4>2. edits[n].pc \in {"read"} \cup Writing \cup Changed
        BY <1>1, <1>3 DEF Live, CallOK, PlaceOK, Saving, Changed
      <4>3. edits[n].pc # "read"
        BY <3>3 DEF GoesOn, Leads
      <4> QED
        BY <4>1, <4>2, <4>3
    <3> QED
      BY <3>1, <3>2, <3>3 DEF Course
  <2>2. \A i \in DOMAIN stored' \ {Body(n).id} :
           Carried(i) \/ RenamedBy(n, i)' \/ edits'[n].found = <<>> \/ edits'[n].pc \notin Writing \cup Changed
    BY <2>1
  <2> QED
    BY <1>1, <2>1, <2>2, RenamedStays
<1> QED
  BY <1>2, <1>3

\* One step of n: it leaves marks of what it changes, and an entry that is not
\* current any more is one that n has to clear.
LEMMA ListsStep ==
  ASSUME Base, Onward, ListsInv, NEW n \in Calls, Live(n), Calls' = Calls, \A m \in Calls \ {n} : edits'[m] = edits[m],
         \A m \in Calls : Keeps(m),
         \A k \in DOMAIN listed' : (k \in DOMAIN listed /\ listed'[k] = listed[k]) \/ listed'[k].by = n,
         \A k \in DOMAIN listed' : (k \in DOMAIN listed /\ listed'[k] = listed[k] /\ View(k)' = View(k)) \/ ListedFine(k)',
         UNCHANGED stored \/ Marks(n)',
         \A i \in DOMAIN stored' :
           Carried(i) \/ (touched'[i].wrote = n /\ Marks(n)' /\ (i \in DOMAIN listed' => Leaves(n, i)')),
         FillOK(n)', RenamedTo(n)'
  PROVE  ListsInv'
<1>3. ASSUME NEW k \in DOMAIN listed'
      PROVE  ListedFine(k)'
  <2>1. k \in DOMAIN listed => ListedFine(k)
    BY DEF ListsInv, ListedOK
  <2> QED
    BY <2>1, FineListed
<1>4. ASSUME NEW m \in Calls \ {n}
      PROVE  FillOK(m)' /\ RenamedTo(m)'
  <2>1. edits'[m] = edits[m] /\ FillOK(m) /\ RenamedTo(m)
    BY DEF ListsInv
  <2>2. Live(m) => Overlap(m, n)' /\ Overlap(n, m)'
    <3>1. Live(m) => Overlap(m, n) /\ Overlap(n, m)
      BY Together DEF Base, Shapes, CallShapes, CallOK
    <3> QED
      BY <3>1, OverlapStays
  <2>3. FillOK(m)'
    <3>1. CASE Marks(n)' /\ edits[m].pc = "fill"
      <4>1. Live(m)
        BY <3>1 DEF Live, Over
      <4>2. Overlap(n, m)'
        BY <2>2, <4>1
      <4> QED
        BY <3>1, <4>2 DEF FillOK
    <3>2. CASE UNCHANGED stored /\ edits[m].pc = "fill"
      <4>1. edits'[m].found = edits[m].found /\ \A k : View(k)' = View(k)
        BY <2>1, <3>2 DEF View
      <4>2. CASE edits[m].found = View(Body(m).id)
        <5>1. PICK k : k = Body(m).id
          OBVIOUS
        <5>2. Body(m)'.id = k /\ edits'[m].found = View(k)'
          BY <2>1, <4>1, <4>2, <5>1 DEF Body
        <5>3. edits'[m].found = View(Body(m).id)'
          BY <5>2 DEF View
        <5> QED
          BY <5>3 DEF FillOK
      <4>3. ASSUME NEW w \in Calls, Marks(w), Overlap(w, m)
            PROVE  FillOK(m)'
        <5>1. Marks(w)' /\ Overlap(w, m)'
          BY <4>3, MarksStay, OverlapStays
        <5> QED
          BY <5>1 DEF FillOK
      <4> QED
        BY <2>1, <3>2, <4>2, <4>3 DEF FillOK
    <3> QED
      BY <2>1, <3>1, <3>2 DEF FillOK
  <2>4. RenamedTo(m)'
    <3>1. CASE ~Live(m)
      BY <2>1, <3>1 DEF RenamedTo, Live, Over, Writing, Early, Changed, Following
    <3>2. CASE Live(m)
      <4>1. ASSUME NEW i \in DOMAIN stored', ~Carried(i)
            PROVE  RenamedBy(m, i)'
        <5>1. touched'[i].wrote = n /\ Marks(n)' /\ (i \in DOMAIN listed' => Leaves(n, i)')
          BY <4>1
        <5> QED
          BY <2>2, <3>2, <5>1 DEF RenamedBy
      <4>2. Entries(m)
        BY <2>2, <3>2 DEF Entries
      <4> QED
        BY <2>1, <4>1, <4>2, RenamedStays
    <3> QED
      BY <3>1, <3>2
  <2> QED
    BY <2>3, <2>4
<1> QED
  BY <1>3, <1>4 DEF ListsInv, ListedOK

\* A call on its way.
LEMMA ListsCourse ==
  ASSUME Base, Onward, ListsInv, NEW n, Course(n), Swept(n), UNCHANGED listed,
         \A k \in DOMAIN listed' : View(k)' = View(k) \/ ListedFine(k)',
         UNCHANGED stored \/ Marks(n)',
         \A i \in DOMAIN stored' :
           Carried(i) \/ (touched'[i].wrote = n /\ Marks(n)' /\ (i \in DOMAIN listed' => Leaves(n, i)')),
         FillOK(n)', RenamedTo(n)'
  PROVE  ListsInv'
<1>1. n \in Calls /\ Live(n) /\ Calls' = Calls
  BY CourseNumbers
<1>2. \A m \in Calls : Keeps(m)
  BY CourseKeeps
<1>3. \A m \in Calls \ {n} : edits'[m] = edits[m]
  BY DEF Course, Stops, GoesOn, Now, Ended, Turn
<1> QED
  BY <1>1, <1>2, <1>3, ListsStep

\* A call that only removes listings, or nothing.
LEMMA QuietLists ==
  ASSUME Base, Onward, ListsInv, NEW n, Course(n), Swept(n), UNCHANGED <<stored, touched>>,
         \A k \in DOMAIN listed' : k \in DOMAIN listed /\ listed'[k] = listed[k],
         edits[n].pc \in {"find", "fill"} => FillOK(n)', edits[n].pc = "refs" => RenamedTo(n)'
  PROVE  ListsInv'
<1>1. n \in Calls /\ Live(n) /\ Calls' = Calls
  BY CourseNumbers
<1>2. \A m \in Calls : Keeps(m)
  BY CourseKeeps
<1>3. \A k : View(k)' = View(k)
  BY DEF View
<1>4. \A i \in DOMAIN stored' : Carried(i)
  BY DEF Carried
<1>5. FillOK(n)'
  BY OwnFill
<1>6. RenamedTo(n)'
  <2>1. CASE edits[n].pc = "refs"
    BY <2>1
  <2>2. CASE edits[n].pc \in {"find", "fill"}
    <3>1. ~Saving(n)'
      BY <1>1, <2>2 DEF Base, CallOK, PlaceOK, Saving, Over, Writing, Early, Following, Onward
    <3> QED
      BY <3>1 DEF RenamedTo
  <2>3. CASE edits[n].pc \notin {"refs", "find", "fill"}
    <3>1. Entries(n)
      BY DEF Entries
    <3> QED
      BY <1>1, <1>2, <1>4, <2>3, <3>1, OwnRenamed DEF ListsInv
  <2> QED
    BY <2>1, <2>2, <2>3
<1>7. \A m \in Calls \ {n} : edits'[m] = edits[m]
  BY DEF Course, Stops, GoesOn, Now, Ended, Turn
<1> QED
  BY <1>1, <1>2, <1>3, <1>4, <1>5, <1>6, <1>7, ListsStep

\* The container i is changed, and what is listed stays: the listing of all is
\* no longer current, and n has not cleared it.
LEMMA ListedBut ==
  ASSUME Base, NEW n \in Calls, Calls' = Calls, Marks(n)', Live(n)', UNCHANGED listed, NEW i,
         \A k : k # i => (k \in DOMAIN stored' <=> k \in DOMAIN stored) /\ (k \in DOMAIN stored => stored'[k] = stored[k]),
         i \in DOMAIN listed => ListedFine(i)'
  PROVE  \A k \in DOMAIN listed' : View(k)' = View(k) \/ ListedFine(k)'
<1> TAKE k \in DOMAIN listed'
<1>1. CASE k = All
  <2>1. PICK b \in Calls : listed'[k].by = b
    BY DEF Base, Shapes, ListShapes
  <2>2. Missed(n, k, b)'
    BY <1>1 DEF Missed
  <2> QED
    BY <2>1, <2>2 DEF ListedFine
<1>2. CASE k = i
  BY <1>2
<1>3. CASE k # All /\ k # i
  BY <1>3 DEF View
<1> QED
  BY <1>1, <1>2, <1>3

LEMMA LeavesListed ==
  ASSUME Base, NEW n \in Calls, Calls' = Calls, Marks(n)', Live(n)', UNCHANGED listed, NEW i \in edits'[n].clear
  PROVE  Leaves(n, i)' /\ (i \in DOMAIN listed => ListedFine(i)')
<1>1. Leaves(n, i)'
  BY DEF Leaves
<1>2. ASSUME i \in DOMAIN listed
      PROVE  ListedFine(i)'
  <2>1. PICK b \in Calls : listed'[i].by = b
    BY <1>2 DEF Base, Shapes, ListShapes
  <2>2. Missed(n, i, b)'
    BY <1>1 DEF Missed
  <2> QED
    BY <2>1, <2>2 DEF ListedFine
<1> QED
  BY <1>1, <1>2

LEMMA ListedStill ==
  ASSUME Base, NEW n, UNCHANGED listed
  PROVE  Entries(n) /\ (edits[n].pc # "reclear" \/ edits'[n].pc # "done" => Swept(n))
BY DEF Entries, Swept

LEMMA AddRoleLists ==
  ASSUME Base, Base', Onward, ListsInv, NEW n, AddRole(n)
  PROVE  ListsInv'
<1>1. /\ n \in Calls /\ Live(n) /\ edits[n].pc = "newRole" /\ Saving(n) /\ Course(n) /\ Calls' = Calls
      /\ UNCHANGED listed /\ Entries(n) /\ Swept(n) /\ CallOK(n)
  BY AddRoleEffect, SavesCourse, CourseNumbers, ListedStill DEF Base
<1>2. CASE UNCHANGED <<stored, touched>>
  BY <1>1, <1>2, QuietLists
<1>3. CASE /\ Now(n, "refs", <<>>, Refs(n), {})
           /\ <<n, "role">> \notin DOMAIN touched
           /\ stored' = Put(stored, <<n, "role">>, Role)
           /\ touched' = Put(touched, <<n, "role">>, [wrote |-> n, named |-> n, others |-> {}])
  <2>1. PICK i, mark : i = <<n, "role">> /\ Written(i, n, Role, mark)
    BY <1>1, <1>3, WritesRole
  <2>2. edits'[n].pc = "refs" /\ Live(n)' /\ Marks(n)'
    <3>1. edits'[n].pc = "refs" /\ Body(n)' = Body(n)
      BY <1>1, <1>3, NowFacts
    <3> QED
      BY <1>1, <3>1 DEF CallOK, ReadOK, Live, Over, Marks, Saving
  <2>3. i \notin DOMAIN listed
    <3>1. i # All
      BY <2>1 DEF All
    <3> QED
      BY <1>3, <2>1, <3>1 DEF Base, Shapes, ListShapes
  <2>4. edits[n].found = <<>>
    BY <1>1 DEF CallOK, TodoOK, Early
  <2>5. \A k \in DOMAIN listed' : View(k)' = View(k) \/ ListedFine(k)'
    <3>1. \A k : k # i => (k \in DOMAIN stored' <=> k \in DOMAIN stored) /\ (k \in DOMAIN stored => stored'[k] = stored[k])
      BY <2>1 DEF Written
    <3> QED
      BY <1>1, <2>2, <2>3, <3>1, ListedBut
  <2>6. \A j \in DOMAIN stored' : Carried(j) \/ (touched'[j].wrote = n /\ Marks(n)' /\ j \notin DOMAIN listed')
    BY <1>1, <2>1, <2>2, <2>3 DEF Written
  <2>7. FillOK(n)' /\ RenamedTo(n)'
    BY <1>1, <2>4, OwnFill, OwnRenamed, CourseKeeps DEF ListsInv
  <2> QED
    BY <1>1, <2>2, <2>5, <2>6, <2>7, ListsCourse
<1> QED
  BY <1>2, <1>3, AddRoleEffect

LEMMA WriteLists ==
  ASSUME Base, Base', Onward, ListsInv, NEW n, WriteContainer(n)
  PROVE  ListsInv'
<1>1. /\ n \in Calls /\ Live(n) /\ edits[n].pc = "write" /\ Saving(n) /\ Course(n) /\ Calls' = Calls
      /\ UNCHANGED listed /\ Entries(n) /\ Swept(n)
  BY WriteEffect, SavesCourse, CourseNumbers, ListedStill
<1>2. CASE UNCHANGED <<stored, touched>>
  BY <1>1, <1>2, QuietLists
<1>3. CASE /\ Now(n, "clear", edits[n].found, Refs(n), ToClear(n))
           /\ Body(n).id \in DOMAIN stored \/ (Body(n).id = <<n, "made">> /\ Body(n).id \notin DOMAIN touched)
           /\ stored' = Put(stored, Body(n).id, Made(n))
           /\ Wrote(Body(n).id, n, Body(n).name # edits[n].old.name)
  <2>1. PICK i, mark : i = Body(n).id /\ Written(i, n, Made(n), mark)
    BY <1>1, <1>3, WritesMade
  <2>2. edits'[n].pc = "clear" /\ Live(n)' /\ Marks(n)' /\ i \in edits'[n].clear
    <3>1. edits'[n].pc = "clear" /\ Body(n)' = Body(n) /\ edits'[n].clear = ToClear(n)
      BY <1>1, <1>3, NowFacts
    <3> QED
      BY <1>1, <2>1, <3>1 DEF ToClear, Live, Over, Marks, Saving, Changed
  <2>3. Leaves(n, i)' /\ (i \in DOMAIN listed => ListedFine(i)')
    BY <1>1, <2>2, LeavesListed
  <2>5. \A k \in DOMAIN listed' : View(k)' = View(k) \/ ListedFine(k)'
    <3>1. \A k : k # i => (k \in DOMAIN stored' <=> k \in DOMAIN stored) /\ (k \in DOMAIN stored => stored'[k] = stored[k])
      BY <2>1 DEF Written
    <3> QED
      BY <1>1, <2>2, <2>3, <3>1, ListedBut
  <2>6. \A j \in DOMAIN stored' : Carried(j) \/ (touched'[j].wrote = n /\ Marks(n)' /\ Leaves(n, j)')
    <3> TAKE j \in DOMAIN stored'
    <3> QED
      BY <2>1, <2>2, <2>3 DEF Written
  <2>7. FillOK(n)' /\ RenamedTo(n)'
    <3>1. \A j \in DOMAIN stored' \ {Body(n).id} : Carried(j)
      BY <2>1 DEF Written
    <3> QED
      BY <1>1, <3>1, OwnFill, OwnRenamed, CourseKeeps DEF ListsInv
  <2> QED
    BY <1>1, <2>2, <2>5, <2>6, <2>7, ListsCourse
<1> QED
  BY <1>2, <1>3, WriteEffect

\* Only the container i changes, and not its name.
LEMMA AmendsLists ==
  ASSUME Base, Base', Onward, ListsInv, NEW n, Course(n), edits[n].pc \notin {"refs", "find", "fill", "reclear"},
         UNCHANGED listed, Marks(n)', Live(n)', NEW i,
         \A k : k # i => (k \in DOMAIN stored' <=> k \in DOMAIN stored) /\ (k \in DOMAIN stored => stored'[k] = stored[k]),
         \A j \in DOMAIN stored' : Carried(j),
         i \in DOMAIN listed => ListedFine(i)'
  PROVE  ListsInv'
<1>1. n \in Calls /\ Calls' = Calls /\ Entries(n) /\ Swept(n)
  BY CourseNumbers, ListedStill
<1>2. \A k \in DOMAIN listed' : View(k)' = View(k) \/ ListedFine(k)'
  BY <1>1, ListedBut
<1>3. FillOK(n)' /\ RenamedTo(n)'
  BY <1>1, OwnFill, OwnRenamed, CourseKeeps DEF ListsInv
<1> QED
  BY <1>1, <1>2, <1>3, ListsCourse

LEMMA FlowsLists ==
  ASSUME Base, Base', Onward, ListsInv, NEW n, UpdateFlows(n)
  PROVE  ListsInv'
<1>1. /\ n \in Calls /\ Live(n) /\ edits[n].pc = "flows" /\ Body(n).do = "flows" /\ Course(n) /\ Calls' = Calls
      /\ UNCHANGED listed /\ Entries(n) /\ Swept(n)
  BY FlowsEffect, SavesCourse, CourseNumbers, ListedStill
<1>2. CASE UNCHANGED <<stored, touched>>
  BY <1>1, <1>2, QuietLists
<1>3. CASE /\ Now(n, "reclear", edits[n].found, edits[n].todo, {All, Body(n).id}) /\ Body(n).id \in DOMAIN stored
           /\ stored' = [stored EXCEPT ![Body(n).id].flows = n]
           /\ touched' = [touched EXCEPT ![Body(n).id].others = @ \cup {n}]
  <2>1. PICK i : i = Body(n).id
    OBVIOUS
  <2>2. Amended(i, n)
    BY <1>1, <1>3, <2>1, FlowsStep DEF Base, Shapes
  <2>3. Live(n)' /\ Marks(n)' /\ i \in edits'[n].clear
    <3>1. edits'[n].pc = "reclear" /\ Body(n)' = Body(n) /\ edits'[n].clear = {All, i}
      BY <1>1, <1>3, <2>1, NowFacts
    <3> QED
      BY <1>1, <3>1 DEF Live, Over, Marks, Changed
  <2>4. i \in DOMAIN listed => ListedFine(i)'
    BY <1>1, <2>3, LeavesListed
  <2> QED
    BY <1>1, <2>2, <2>3, <2>4, AmendsLists DEF Amended
<1> QED
  BY <1>2, <1>3, FlowsEffect

LEMMA RemoveLists ==
  ASSUME Base, Base', Onward, ListsInv, NEW n, RemoveContainer(n)
  PROVE  ListsInv'
<1>1. /\ n \in Calls /\ Live(n) /\ edits[n].pc = "remove" /\ Body(n).do = "delete" /\ Course(n) /\ Calls' = Calls
      /\ UNCHANGED <<listed, touched>>
      /\ Now(n, "clear", edits[n].found, edits[n].todo, {All, Body(n).id})
      /\ stored' = [k \in DOMAIN stored \ {Body(n).id} |-> stored[k]]
  BY RemoveEffect, SavesCourse, CourseNumbers
<1>2. PICK i : i = Body(n).id
  OBVIOUS
<1>3. Live(n)' /\ Marks(n)' /\ i \in edits'[n].clear
  <2>1. edits'[n].pc = "clear" /\ Body(n)' = Body(n) /\ edits'[n].clear = {All, i}
    BY <1>1, <1>2, NowFacts
  <2> QED
    BY <1>1, <2>1 DEF Live, Over, Marks, Changed
<1>4. i \in DOMAIN listed => ListedFine(i)'
  BY <1>1, <1>3, LeavesListed
<1>5. /\ \A k : k # i => (k \in DOMAIN stored' <=> k \in DOMAIN stored) /\ (k \in DOMAIN stored => stored'[k] = stored[k])
      /\ \A j \in DOMAIN stored' : Carried(j)
  BY <1>1, <1>2 DEF Carried
<1> QED
  BY <1>1, <1>3, <1>4, <1>5, AmendsLists

\* A call that maintains the container i has to clear what is listed of it, or
\* another call gave i its name.
LEMMA RelistsLists ==
  ASSUME Base, Base', Onward, ListsInv, NEW n, Course(n), edits[n].pc \in Following, Saving(n), Live(n)', UNCHANGED listed,
         NEW i \in DOMAIN stored, NEW triggers, Relists(n, i, triggers),
         i \in DOMAIN listed => i \in edits'[n].clear \/ ListedFine(i)'
  PROVE  ListsInv'
<1>1. n \in Calls /\ Calls' = Calls
  BY CourseNumbers
<1>2. Marks(n)'
  <2>1. Marks(n)
    BY DEF Marks, Saving, Changed
  <2> QED
    BY <1>1, <2>1, MarksStay
<1>3. i \in DOMAIN listed => ListedFine(i)'
  BY <1>1, <1>2, LeavesListed
<1>4. Amended(i, n)
  BY <1>1, RelistStep DEF Base, Shapes
<1>5. edits[n].pc \notin {"refs", "find", "fill", "reclear"}
  BY DEF Following
<1> QED
  BY <1>2, <1>3, <1>4, <1>5, AmendsLists DEF Amended

LEMMA TriggerLists ==
  ASSUME Base, Base', Onward, ListsInv, NEW n, AddTrigger(n)
  PROVE  ListsInv'
<1>1. /\ n \in Calls /\ Live(n) /\ edits[n].pc = "trigger" /\ Saving(n) /\ Course(n) /\ Calls' = Calls /\ CallOK(n)
      /\ UNCHANGED listed /\ Entries(n) /\ Swept(n)
  BY AddTriggerEffect, TriggerCourse, CourseNumbers, ListedStill DEF Base
<1>2. CASE UNCHANGED <<stored, touched>>
  BY <1>1, <1>2, QuietLists
<1>3. ASSUME NEW r \in edits[n].todo, Now(n, "trigger", edits[n].found, edits[n].todo \ {r}, edits[n].clear),
             edits[n].found[r] \in DOMAIN stored,
             Relists(n, edits[n].found[r], stored[edits[n].found[r]].triggers \cup {Body(n).name})
      PROVE  ListsInv'
  <2>1. PICK i, triggers : i = edits[n].found[r] /\ triggers = stored[i].triggers \cup {Body(n).name}
    OBVIOUS
  <2>2. i \in DOMAIN stored /\ Relists(n, i, triggers)
    BY <1>3, <2>1
  <2>3. i \in edits[n].clear
    <3>1. r \in DOMAIN edits[n].found
      BY <1>1 DEF CallOK, TodoOK, Changed, Following
    <3> QED
      BY <1>1, <2>1, <3>1 DEF CallOK, ClearOK, HasSaved, Changed, Following
  <2>4. edits'[n].clear = edits[n].clear /\ Live(n)'
    BY <1>3 DEF Now, Turn, Live
  <2> QED
    BY <1>1, <2>2, <2>3, <2>4, RelistsLists DEF Following
<1> QED
  BY <1>2, <1>3, AddTriggerEffect

LEMMA PullLists ==
  ASSUME Base, Base', Onward, ListsInv, NEW n, NEW pc, NEW next, PullPlaces(pc, next), At(n, pc), Pull(n, next)
  PROVE  ListsInv'
<1>1. /\ n \in Calls /\ Live(n) /\ edits[n].pc = pc /\ Saving(n) /\ Course(n) /\ Calls' = Calls /\ CallOK(n)
      /\ UNCHANGED listed /\ Entries(n) /\ Swept(n) /\ pc \in Following
  BY PullEffect, PullCourse, CourseNumbers, ListedStill DEF Base, PullPlaces, Following
<1>2. CASE UNCHANGED <<stored, touched>>
  BY <1>1, <1>2, QuietLists DEF Following
<1>3. ASSUME NEW r \in edits[n].todo, NEW i \in Named(r), NEW clear,
             next = "rename" => i \in clear, edits[n].clear \subseteq clear,
             Now(n, pc, edits[n].found, edits[n].todo \ {r}, clear),
             Relists(n, i, stored[i].triggers \ {edits[n].old.name})
      PROVE  ListsInv'
  <2>1. PICK triggers : triggers = stored[i].triggers \ {edits[n].old.name}
    OBVIOUS
  <2>2. i \in DOMAIN stored /\ stored[i].name = r /\ Relists(n, i, triggers)
    BY <1>3, <2>1 DEF Named
  <2>3. Live(n)' /\ edits'[n].clear = clear
    BY <1>3 DEF Now, Turn, Live
  <2>4. CASE i \in edits'[n].clear
    BY <1>1, <2>2, <2>3, <2>4, RelistsLists
  <2>5. CASE i \notin edits'[n].clear
    <3>1. pc = "rename" /\ i \notin edits[n].clear
      BY <1>3, <2>3, <2>5 DEF PullPlaces
    <3>2. r \in DOMAIN edits[n].found
      BY <1>1, <3>1 DEF CallOK, TodoOK, Kept, Refs, Changed, Following
    <3>3. i # Body(n).id /\ i # edits[n].found[r]
      BY <1>1, <3>1, <3>2 DEF CallOK, ClearOK, HasSaved, Changed, Following
    <3>4. Shared(r) \/ RenamedBy(n, i)
      BY <1>1, <2>2, <3>1, <3>2, <3>3 DEF ListsInv, RenamedTo, Changed, Following
    <3>5. Marks(n)
      BY <1>1 DEF Marks, Saving, Changed
    <3>6. ASSUME i \in DOMAIN listed
          PROVE  ListedFine(i)'
      <4>1. CASE Shared(r)
        BY <4>1, SharedAny, AnySharedStays DEF ListedFine
      <4>2. CASE RenamedBy(n, i)
        <5>1. PICK b \in Calls : listed[i].by = b
          BY <3>6 DEF Base, Shapes, ListShapes
        <5>2. PICK w \in Calls : Marks(w) /\ (Leaves(w, i) \/ Overlap(n, b))
          BY <3>6, <4>2, <5>1 DEF RenamedBy
        <5>3. Missed(w, i, b) \/ Missed(n, i, b)
          BY <3>5, <5>2 DEF Missed
        <5>4. i \in DOMAIN listed' /\ Keeps(w) /\ Keeps(n)
          BY <1>1, <3>6, CourseKeeps
        <5>5. (Missed(w, i, b) => Missed(w, i, b)') /\ (Missed(n, i, b) => Missed(n, i, b)')
          BY <1>1, <5>4, MissedStays
        <5> QED
          BY <1>1, <5>1, <5>3, <5>5 DEF ListedFine
      <4> QED
        BY <3>4, <4>1, <4>2
    <3> QED
      BY <1>1, <2>2, <2>3, <3>6, RelistsLists
  <2> QED
    BY <2>4, <2>5
<1>4. ASSUME NEW r \in edits[n].todo, NEW i \in Named(r), NEW more, next = "rename" => i \in more,
             Now(n, pc, edits[n].found, edits[n].todo \ {r}, edits[n].clear \cup more),
             Relists(n, i, stored[i].triggers \ {edits[n].old.name})
      PROVE  ListsInv'
  <2>1. PICK clear : clear = edits[n].clear \cup more
    OBVIOUS
  <2>2. edits[n].clear \subseteq clear /\ (next = "rename" => i \in clear)
    BY <1>4, <2>1
  <2> QED
    BY <1>3, <1>4, <2>1, <2>2
<1> QED
  BY <1>2, <1>4, PullEffect

\* A second container of the name r: two calls gave the name.
LEMMA ReferenceLists ==
  ASSUME Base, Base', Onward, ListsInv, NEW n, CheckReference(n)
  PROVE  ListsInv'
<1>1. /\ n \in Calls /\ Live(n) /\ Course(n) /\ edits[n].pc = "refs" /\ UNCHANGED <<stored, touched, listed>> /\ Calls' = Calls
      /\ At(n, "refs") /\ RenamedTo(n) /\ CallOK(n) /\ IsCall(edits[n]) /\ Sequential
  BY ReferenceCourse, CourseNumbers DEF CheckReference, ListsInv, Base, Shapes, CallShapes
<1>2. Saving(n)
  BY <1>1 DEF CallOK, PlaceOK, Saving, Over
<1>3. Entries(n) /\ \A m \in Calls : Keeps(m)
  BY <1>1, CourseKeeps, ListedStill
<1>4. \A i \in DOMAIN stored' : Carried(i)
  BY <1>1 DEF Carried
<1>5. ASSUME edits'[n].found = edits[n].found
      PROVE  RenamedTo(n)'
  BY <1>1, <1>3, <1>4, <1>5, RenamedStays DEF Writing
<1>6. CASE Goes(n, "index") \/ Goes(n, "refused")
  <2>1. ASSUME Goes(n, "index") PROVE RenamedTo(n)'
    <3>1. Now(n, "index", edits[n].found, edits[n].todo, edits[n].clear)
      BY <1>1, <2>1, Going DEF Over
    <3> QED
      BY <1>5, <3>1 DEF Now
  <2>2. ASSUME Goes(n, "refused") PROVE RenamedTo(n)'
    <3>1. Ended(n, "refused")
      BY <1>1, <2>2, Going DEF Over
    <3>2. edits'[n].pc \notin Writing \cup Changed
      BY <3>1 DEF Ended, Turn, Writing, Early, Changed, Following
    <3> QED
      BY <3>2 DEF RenamedTo
  <2>3. RenamedTo(n)'
    BY <1>6, <2>1, <2>2
  <2> QED
    BY <1>1, <1>3, <2>3, ListedStill, QuietLists
<1>7. ASSUME NEW r \in edits[n].todo, NEW i \in Named(r) \ {Body(n).id},
             Becomes(n, [edits[n] EXCEPT !.todo = @ \ {r}, !.found = Put(@, r, i)])
      PROVE  ListsInv'
  <2>1. PICK found : found = Put(edits[n].found, r, i)
    OBVIOUS
  <2>2. Now(n, "refs", found, edits[n].todo \ {r}, edits[n].clear)
    BY <1>1, <1>7, <2>1, ReferenceFound
  <2>3. edits'[n].pc = "refs" /\ edits'[n].found = found /\ Body(n)' = Body(n)
    BY <1>1, <2>2, NowFacts
  <2>4. found[r] = i /\ \A q \in DOMAIN found \ {r} : q \in DOMAIN edits[n].found /\ found[q] = edits[n].found[q]
    BY <2>1 DEF Put
  <2>5. ASSUME NEW q \in DOMAIN found, NEW j \in DOMAIN stored \ {Body(n).id}, stored[j].name = q, j # found[q]
        PROVE  Shared(q)' \/ RenamedBy(n, j)'
    <3>1. CASE q = r
      <4>1. i \in DOMAIN stored /\ i # j /\ stored[i].name = r
        BY <1>7, <2>4, <2>5, <3>1 DEF Named
      <4>2. Shared(stored[i].name)
        BY <2>5, <3>1, <4>1, NameShared
      <4>3. Shared(q)
        BY <3>1, <4>1, <4>2
      <4> QED
        BY <4>3, SharedStays
    <3>2. CASE q # r
      <4>1. Shared(q) \/ RenamedBy(n, j)
        BY <1>1, <1>2, <2>4, <2>5, <3>2 DEF RenamedTo, Writing
      <4> QED
        BY <1>1, <1>3, <1>4, <4>1, SharedStays, RenamedByStays
    <3> QED
      BY <3>1, <3>2
  <2>6. RenamedTo(n)'
    BY <1>1, <2>3, <2>5 DEF RenamedTo
  <2> QED
    BY <1>1, <1>3, <2>6, ListedStill, QuietLists
<1> QED
  BY <1>6, <1>7 DEF CheckReference

LEMMA FindLists ==
  ASSUME Base, Onward, ListsInv, NEW n, Find(n)
  PROVE  ListsInv'
<1>1. /\ n \in Calls /\ Live(n) /\ edits[n].pc = "find" /\ IsCall(edits[n]) /\ Sequential
      /\ Course(n) /\ UNCHANGED <<stored, touched, listed>>
  BY AtCall, ListCourse DEF Find, Over
<1>2. FillOK(n)'
  <2>1. CASE Goes(n, "refused")
    <3>1. Ended(n, "refused")
      BY <1>1, <2>1, Going DEF Over
    <3> QED
      BY <3>1 DEF Ended, Turn, FillOK
  <2>2. CASE Becomes(n, [edits[n] EXCEPT !.pc = "fill", !.found = View(Body(n).id)])
    <3>1. PICK k, found : k = Body(n).id /\ found = View(k)
      OBVIOUS
    <3>2. Becomes(n, [edits[n] EXCEPT !.pc = "fill", !.found = found])
      BY <2>2, <3>1
    <3>3. Now(n, "fill", found, edits[n].todo, edits[n].clear)
      BY <1>1, <3>2, SetsFound DEF Over
    <3>4. edits'[n].found = found /\ Body(n)'.id = k
      BY <1>1, <3>1, <3>3, NowFacts
    <3>5. found = View(k)'
      BY <1>1, <3>1 DEF View
    <3>6. edits'[n].found = View(Body(n).id)'
      BY <3>4, <3>5 DEF View
    <3> QED
      BY <3>6 DEF FillOK
  <2> QED
    BY <2>1, <2>2 DEF Find
<1> QED
  BY <1>1, <1>2, ListedStill, QuietLists

\* What n found is listed as it is now, or a call beside n has changed it.
LEMMA FillLists ==
  ASSUME Base, Onward, ListsInv, NEW n, Fill(n)
  PROVE  ListsInv'
<1>1. /\ n \in Calls /\ Live(n) /\ edits[n].pc = "fill" /\ IsCall(edits[n]) /\ Sequential
      /\ Course(n) /\ UNCHANGED <<stored, touched>> /\ Calls' = Calls
  BY AtCall, ListCourse, CourseNumbers DEF Fill, Over
<1>2. Goes(n, "done") /\ listed' = Put(listed, Body(n).id, [view |-> edits[n].found, by |-> n])
  BY DEF Fill
<1>3. Ended(n, "done")
  BY <1>1, <1>2, Going DEF Over
<1>4. PICK i : i = Body(n).id
  OBVIOUS
<1>5. PICK entry : entry = [view |-> edits[n].found, by |-> n]
  OBVIOUS
<1>6. /\ entry.view = edits[n].found /\ entry.by = n /\ i \in DOMAIN listed' /\ listed'[i] = entry
      /\ \A k \in DOMAIN listed' \ {i} : k \in DOMAIN listed /\ listed'[k] = listed[k]
  BY <1>2, <1>4, <1>5 DEF Put
<1>7. ListedFine(i)'
  <2>1. CASE edits[n].found = View(i)
    <3>1. listed'[i].view = View(i)'
      BY <1>1, <1>6, <2>1 DEF View
    <3> QED
      BY <3>1 DEF ListedFine
  <2>2. ASSUME NEW m \in Calls, Marks(m), Overlap(m, n)
        PROVE  ListedFine(i)'
    <3>1. Marks(m)' /\ Overlap(m, n)'
      BY <1>1, <2>2, MarksStay, OverlapStays
    <3>2. Missed(m, i, n)'
      BY <3>1 DEF Missed
    <3> QED
      BY <1>1, <1>6, <3>2 DEF ListedFine
  <2>3. FillOK(n)
    BY <1>1 DEF ListsInv
  <2> QED
    BY <1>1, <1>4, <2>1, <2>2, <2>3 DEF FillOK
<1>8. \A m \in Calls : Keeps(m)
  <2>1. Swept(n)
    BY <1>1 DEF Swept
  <2> QED
    BY <2>1, <1>1, CourseKeeps
<1>9. /\ \A k \in DOMAIN listed' : (k \in DOMAIN listed /\ listed'[k] = listed[k]) \/ listed'[k].by = n
      /\ \A k \in DOMAIN listed' : (k \in DOMAIN listed /\ listed'[k] = listed[k] /\ View(k)' = View(k)) \/ ListedFine(k)'
  BY <1>1, <1>6, <1>7 DEF View
<1>10. FillOK(n)' /\ RenamedTo(n)'
  BY <1>3 DEF Ended, Turn, FillOK, RenamedTo, Writing, Early, Changed, Following
<1>11. /\ \A i_1 \in DOMAIN stored' : Carried(i_1)
       /\ \A m \in Calls \ {n} : edits'[m] = edits[m]
  BY <1>1, <1>3 DEF Carried, Ended, Turn
<1> QED
  BY <1>1, <1>8, <1>9, <1>10, <1>11, ListsStep

LEMMA ClearLists ==
  ASSUME Base, Onward, ListsInv, NEW n, Clear(n)
  PROVE  ListsInv'
<1>1. Course(n) /\ edits[n].pc \in {"clear", "reclear"} /\ UNCHANGED <<stored, touched>>
  BY ClearEffect
<1>2. PICK works \in BOOLEAN :
        /\ edits'[n].cleared = works
        /\ listed' = IF works THEN [k \in DOMAIN listed \ edits[n].clear |-> listed[k]] ELSE listed
  BY ClearEffect
<1>3. \A k \in DOMAIN listed' : k \in DOMAIN listed /\ listed'[k] = listed[k]
  BY <1>2
<1>4. Swept(n)
  BY <1>2 DEF Swept
<1> QED
  BY <1>1, <1>3, <1>4, QuietLists

LEMMA BreaksLists ==
  ASSUME Base, Onward, ListsInv, NEW n, Breaks(n)
  PROVE  ListsInv'
<1>1. Course(n) /\ n \in Calls /\ IsCall(edits[n]) /\ Sequential /\ Goes(n, "failed") /\ UNCHANGED <<stored, touched, listed>>
  BY ChecksCourse DEF Breaks, Running, Only, Base, Shapes, CallShapes, Calls
<1>2. Ended(n, "failed")
  BY <1>1, Going DEF Over
<1>3. FillOK(n)' /\ RenamedTo(n)' /\ edits'[n].pc # "done"
  BY <1>2 DEF Ended, Turn, FillOK, RenamedTo, Writing, Early, Changed, Following
<1> QED
  BY <1>1, <1>3, ListedStill, QuietLists

LEMMA ChecksLists ==
  ASSUME Base, Onward, ListsInv, NEW n,
         CheckName(n) \/ CheckAuth(n) \/ CheckRole(n) \/ EnsureIndexes(n) \/ Retire(n) \/ DropCollection(n) \/ Look(n)
  PROVE  ListsInv'
<1>1. Course(n) /\ UNCHANGED <<stored, touched, listed>>
  BY ChecksCourse
<1>2. edits[n].pc \notin {"find", "fill", "refs", "reclear"}
  BY DEF CheckName, CheckAuth, CheckRole, EnsureIndexes, Retire, DropCollection, Look, At
<1> QED
  BY <1>1, <1>2, ListedStill, QuietLists

LEMMA ReadLists ==
  ASSUME Base, Onward, ListsInv, NEW n, Read(n)
  PROVE  ListsInv'
<1>1. n \in Calls /\ Live(n) /\ edits[n].pc = "read" /\ UNCHANGED <<stored, touched, listed>> /\ CallOK(n)
  BY ReadEffect DEF Base
<1>2. CASE Course(n)
  BY <1>1, <1>2, ListedStill, QuietLists
<1>3. ASSUME NEW pc \in {"remove", "name"}, ReadBy(n, pc)
      PROVE  ListsInv'
  <2>1. /\ Calls' = Calls /\ edits'[n].pc = pc /\ edits'[n].found = edits[n].found /\ edits'[n].clear = edits[n].clear
        /\ \A m \in Calls \ {n} : edits'[m] = edits[m]
    BY <1>3 DEF ReadBy, Turn, Calls
  <2>2. \A m \in Calls : Keeps(m)
    BY <2>1 DEF Keeps, Live, Over
  <2>3. FillOK(n)' /\ RenamedTo(n)'
    <3>1. edits[n].found = <<>> /\ DOMAIN <<>> = {}
      BY <1>1 DEF CallOK, TodoOK
    <3> QED
      BY <2>1, <3>1 DEF FillOK, RenamedTo
  <2>4. (\A i \in DOMAIN stored' : Carried(i)) /\ \A k : View(k)' = View(k)
    BY <1>1 DEF Carried, View
  <2> QED
    BY <1>1, <2>1, <2>2, <2>3, <2>4, ListsStep
<1> QED
  BY <1>2, <1>3, ReadEffect

\* The calls stay as they are, but for one that begins.
LEMMA SameLists ==
  ASSUME Base, Onward, ListsInv, UNCHANGED <<stored, touched, listed>>, \A m \in Calls : edits'[m] = edits[m]
  PROVE  ListedOK' /\ \A m \in Calls : FillOK(m)' /\ RenamedTo(m)'
<1>1. \A m \in Calls : Keeps(m)
  BY DEF Keeps, Live
<1>2. (\A i \in DOMAIN stored' : Carried(i)) /\ \A k : View(k)' = View(k)
  BY DEF Carried, View
<1>3. ListedOK'
  BY <1>1, <1>2, FineListed DEF ListsInv, ListedOK
<1>4. ASSUME NEW m \in Calls
      PROVE  RenamedTo(m)'
  <2>1. Entries(m) /\ RenamedTo(m) /\ edits'[m] = edits[m]
    BY DEF Entries, ListsInv
  <2> QED
    BY <1>1, <1>2, <2>1, RenamedStays
<1>5. ASSUME NEW m \in Calls, edits[m].pc = "fill"
      PROVE  FillOK(m)'
  <2>1. edits'[m] = edits[m] /\ FillOK(m)
    BY DEF ListsInv
  <2>2. CASE edits[m].found = View(Body(m).id)
    <3>1. PICK k : k = Body(m).id
      OBVIOUS
    <3>2. Body(m)'.id = k /\ edits'[m].found = View(k)'
      BY <1>2, <2>1, <2>2, <3>1 DEF Body
    <3>3. edits'[m].found = View(Body(m).id)'
      BY <3>2 DEF View
    <3> QED
      BY <3>3 DEF FillOK
  <2>3. ASSUME NEW w \in Calls, Marks(w), Overlap(w, m)
        PROVE  FillOK(m)'
    <3>1. Marks(w)' /\ Overlap(w, m)' /\ w \in Calls'
      BY <2>3, MarksStay, OverlapStays DEF Onward, Calls
    <3> QED
      BY <3>1 DEF FillOK
  <2> QED
    BY <1>5, <2>1, <2>2, <2>3 DEF FillOK
<1>6. \A m \in Calls : FillOK(m)'
  BY <1>5 DEF FillOK
<1> QED
  BY <1>3, <1>4, <1>6

LEMMA BeginsLists ==
  ASSUME Base, Onward, ListsInv, Len(edits) < Len(Saves), NEW ask \in Saves[Len(edits) + 1], Begins(ask)
  PROVE  ListsInv'
<1>1. PICK n : Begun(n)
  BY Beginning
<1>2. UNCHANGED <<stored, touched, listed>> /\ \A m \in Calls : edits'[m] = edits[m]
  BY <1>1 DEF Begins, Begun
<1>3. FillOK(n)' /\ RenamedTo(n)'
  <2>1. DOMAIN <<>> = {}
    OBVIOUS
  <2>2. edits'[n].found = <<>> /\ edits'[n].pc # "fill"
    BY <1>1 DEF Begun
  <2> QED
    BY <2>1, <2>2 DEF FillOK, RenamedTo
<1>4. Calls' = Calls \cup {n}
  BY <1>1 DEF Begun
<1> QED
  BY <1>2, <1>3, <1>4, SameLists DEF ListsInv

LEMMA ListsNext ==
  ASSUME Base, Base', Onward, ListsInv, [ContainersNext]_containerVars
  PROVE  ListsInv'
<1>1. CASE UNCHANGED containerVars
  <2>1. UNCHANGED <<stored, touched, listed>> /\ Calls' = Calls /\ \A m \in Calls : edits'[m] = edits[m]
    BY <1>1 DEF containerVars, Calls
  <2> QED
    BY <2>1, SameLists DEF ListsInv
<1>2. ASSUME NEW n, PullDropped(n) \/ PullRenamed(n)
      PROVE  ListsInv'
  <2>1. PICK pc, next : PullPlaces(pc, next) /\ At(n, pc) /\ Pull(n, next)
    BY <1>2 DEF PullPlaces, PullDropped, PullRenamed
  <2> QED
    BY <2>1, PullLists
<1> QED
  BY <1>1, <1>2, BeginsLists, ReadLists, ChecksLists, AddRoleLists, ReferenceLists, WriteLists, FlowsLists, RemoveLists,
     ClearLists, TriggerLists, FindLists, FillLists, BreaksLists DEF ContainersNext

-----------------------------------------------------------------------------
(* What the containers promise each other.                                   *)

ContainersIInv == Base /\ FlowsInv /\ InvalInv /\ IndexesInv /\ ListsInv

LEMMA StartsSo ==
  ASSUME ContainersInit
  PROVE  /\ Calls = {} /\ DOMAIN listed = {} /\ stored = Existing
         /\ \A i \in DOMAIN stored : touched[i].wrote = 0 /\ touched[i].named = 0 /\ By(i) = {0}
<1>1. stored = Existing /\ listed = <<>> /\ edits = <<>>
      /\ touched = [i \in DOMAIN Existing |-> [wrote |-> 0, named |-> 0, others |-> {}]]
  BY DEF ContainersInit
<1>2. DOMAIN <<>> = {}
  OBVIOUS
<1> QED
  BY <1>1, <1>2 DEF Calls, By

LEMMA InvariantsInit ==
  ASSUME ContainersInit
  PROVE  ContainersIInv
<1>1. /\ Calls = {} /\ DOMAIN listed = {} /\ stored = Existing
      /\ \A i \in DOMAIN stored : touched[i].wrote = 0 /\ touched[i].named = 0 /\ By(i) = {0}
  BY StartsSo
<1>2. Base
  BY BaseInit
<1>3. FlowsInv
  BY <1>1 DEF FlowsInv, FlowsOf
<1>4. InvalInv
  <2>1. ASSUME NEW i \in DOMAIN stored, NEW j \in DOMAIN stored, i # j, stored[j].name \in stored[i].refs
        PROVE  stored[i].name \in stored[j].triggers
    <3>1. Agree(i, j)
      BY <1>1, <2>1, ContainersAssumption
    <3> QED
      BY <1>1, <2>1, <3>1 DEF Agree
  <2> QED
    BY <1>1, <2>1 DEF InvalInv, Invalidating
<1>5. IndexesInv
  <2>1. ASSUME NEW i \in DOMAIN stored
        PROVE  stored[i].idx \subseteq Built(stored[i].name)
    <3>1. PICK name : name = Existing[i].name
      OBVIOUS
    <3>2. built = [x \in {Existing[k].name : k \in DOMAIN Existing} |->
                     UNION {Existing[k].idx : k \in {j \in DOMAIN Existing : Existing[j].name = x}}]
      BY DEF ContainersInit
    <3>3. name \in DOMAIN built /\ Existing[i].idx \subseteq built[name]
      BY <1>1, <2>1, <3>1, <3>2
    <3> QED
      BY <1>1, <3>1, <3>3 DEF Built
  <2> QED
    BY <1>1, <2>1 DEF IndexesInv, IndexesFine
<1>6. ListsInv
  BY <1>1 DEF ListsInv, ListedOK
<1> QED
  BY <1>2, <1>3, <1>4, <1>5, <1>6 DEF ContainersIInv

LEMMA InvariantsStep ==
  ASSUME ContainersIInv, [ContainersNext]_containerVars
  PROVE  ContainersIInv'
<1>1. Base /\ FlowsInv /\ InvalInv /\ IndexesInv /\ ListsInv
  BY DEF ContainersIInv
<1>2. Base' /\ Onward
  BY <1>1, BaseNext
<1> QED
  BY <1>1, <1>2, FlowsNext, InvalNext, IndexesNext, ListsNext DEF ContainersIInv

LEMMA DistinctIs ==
  ASSUME Base
  PROVE  DistinctUnlessRaced
<1> SUFFICES ASSUME NEW i \in DOMAIN stored, NEW j \in DOMAIN stored, i # j
             PROVE  /\ stored[i].name = stored[j].name => ~NamesIndexed /\ \E m \in By(i), n \in By(j) : Raced(m, n)
                    /\ stored[i].auth /\ stored[j].auth => \E m \in By(i), n \in By(j) : Overlap(m, n)
  BY DEF DistinctUnlessRaced
<1>1. PICK m \in Calls \cup {0} : touched[i].wrote = m
  BY DEF Base, Shapes, StoreShapes, History, By
<1>2. PICK n \in Calls \cup {0} : touched[j].wrote = n
  BY DEF Base, Shapes, StoreShapes, History, By
<1>3. m \in By(i) /\ n \in By(j)
  BY <1>1, <1>2 DEF By
<1>4. /\ stored[i].name = stored[j].name => ~NamesIndexed /\ Raced(m, n)
      /\ stored[i].auth /\ stored[j].auth => Overlap(m, n)
  BY <1>1, <1>2 DEF Base, Distinct
<1> QED
  BY <1>3, <1>4

LEMMA BuiltIs ==
  ASSUME Base, IndexesInv
  PROVE  IndexesBuilt
<1> SUFFICES ASSUME NEW i \in DOMAIN stored, NEW n \in Calls, Harms(n, i)
             PROVE  /\ n \in DOMAIN edits \ {touched[i].wrote} /\ stored[i].name \in {Body(n).name, edits[n].old.name}
                    /\ ~ Told(n) \/ Overlap(n, touched[i].wrote)
  BY DEF IndexesInv, IndexesFine, IndexesBuilt
<1>1. n # 0
  BY CallNumbers DEF Base, Shapes, CallShapes
<1> QED
  BY <1>1 DEF Harms, About, Calls, Told

LEMMA ListedIs ==
  ASSUME Base, ListsInv
  PROVE  ListedIsCurrent
<1> SUFFICES ASSUME NEW k \in DOMAIN listed, listed[k].view # View(k), ~AnyShared
             PROVE  \E n \in DOMAIN edits :
                      /\ Body(n).do # "list" /\ (edits[n].pc = "refused" => TRUE \in Body(n).auth)
                      /\ ~ Told(n) \/ ~ edits[n].cleared \/ Overlap(n, listed[k].by)
  BY DEF ListedIsCurrent, AnyShared, Calls
<1>1. PICK m, b \in Calls : listed[k].by = b /\ Missed(m, k, b)
  BY DEF ListsInv, ListedOK, ListedFine
<1>2. m # 0
  BY CallNumbers DEF Base, Shapes, CallShapes
<1>3. Body(m).do # "list" /\ (edits[m].pc = "refused" => TRUE \in Body(m).auth)
  BY <1>1 DEF Missed, Marks, Changed, Following
<1>4. ~ Told(m) \/ ~ edits[m].cleared \/ Overlap(m, b)
  BY <1>1, <1>2 DEF Missed, Leaves, Told, Live, Over
<1> QED
  BY <1>1, <1>3, <1>4 DEF Calls

(* Every call is at a place its request leads to, with what it has read and  *)
(* found by then; what is stored was last written by the call that says so,  *)
(* and two containers have one name, or are both account containers, only    *)
(* where the calls that wrote them ran at the same time.                     *)
THEOREM ContainersBase == ContainersSpec => []Base
<1>1. ContainersInit => Base
  BY BaseInit
<1>2. Base /\ [ContainersNext]_containerVars => Base'
  BY BaseNext
<1> QED
  BY <1>1, <1>2, PTL DEF ContainersSpec

(* What the containers of a project promise each other is broken only by     *)
(* calls that overlapped or did not end well: whatever is asked, in whatever *)
(* order the steps of the calls come, names and the account container are    *)
(* unique, writes invalidate the caches of those that refer to a container,  *)
(* saved workflows and declared indexes stay and listings are current.       *)
THEOREM ContainersAgree == ContainersSpec => []OnlyOverlapsDisagree
<1>1. ContainersInit => ContainersIInv
  BY InvariantsInit
<1>2. ContainersIInv /\ [ContainersNext]_containerVars => ContainersIInv'
  BY InvariantsStep
<1>3. ContainersIInv => OnlyOverlapsDisagree
  <2> SUFFICES ASSUME ContainersIInv
               PROVE  OnlyOverlapsDisagree
    OBVIOUS
  <2>1. Base /\ FlowsInv /\ InvalInv /\ IndexesInv /\ ListsInv
    BY DEF ContainersIInv
  <2>2. FlowsKept
    BY <2>1 DEF FlowsInv, FlowsOf, Crossed, FlowsKept
  <2>3. Invalidating
    BY <2>1 DEF InvalInv
  <2> QED
    BY <2>1, <2>2, <2>3, DistinctIs, BuiltIs, ListedIs DEF OnlyOverlapsDisagree
<1> QED
  BY <1>1, <1>2, <1>3, PTL DEF ContainersSpec
=============================================================================
