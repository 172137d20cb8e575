--------------------------- MODULE ContainerEdits ----------------------------
(* The containers of a project: their creation, update and removal, the      *)
(* lists of caches that a write to one of them invalidates, the indexes of   *)
(* their collections and the cached listings of the panel                    *)
(* (containerController.go, indexHelpers.go, indexSync.go).                  *)
(*                                                                           *)
(* No call is a transaction: a call checks, writes and then maintains the    *)
(* other containers one after another, while other calls do the same. Every  *)
(* call may fail or stop at any step. Calls are numbered as they begin.      *)
(* A container is [name, refs, triggers, auth, flows, idx]: refs the names   *)
(* its fields refer to, flows the call that last saved its workflows.        *)
EXTENDS Naturals, FiniteSets, Sequences

CONSTANTS
  Saves,          \* what may be asked as the first, second ... call:
                  \* sets of [do, id, name, refs, auth, idx]
  MaxAtOnce,      \* how many of them at a time
  NamesIndexed,   \* the unique index on names, whose failure a creation of a
                  \* project only logs
  Existing        \* id -> container at the start

VARIABLES
  stored,         \* id -> container
  built,          \* name of a collection -> its indexes
  listed,         \* in Redis: id or All -> [view, by]
  edits,          \* what has been asked so far, and how far it is
  touched         \* id -> the calls that wrote it or a listing of it: [wrote, named, others]

containerVars == <<stored, built, listed, edits, touched>>

Role == [name |-> "role", refs |-> {}, triggers |-> {"role"}, auth |-> FALSE, flows |-> 0, idx |-> {}]

\* The key of the listing of all; an identifier is a pair, too.
All == <<0, "all">>

Has(record, fields) == record = [f \in fields |-> record[f]]

\* A request that is valid has a name for what it saves and an identifier.
IsAsk(ask) ==
  /\ Has(ask, {"do", "id", "name", "refs", "auth", "idx"})
  /\ ask.do \in {"create", "update", "delete", "flows", "list"}
  /\ ask.do \in {"create", "update"} => ask.name # ""
  /\ ask.do \in {"update", "delete", "flows"} => ask.id # All

\* What the calls find at the start is what calls one after another have left.
IsContainer(i) ==
  /\ i # All /\ \A n \in 1..Len(Saves) : i \notin {<<n, "made">>, <<n, "role">>}
  /\ Has(Existing[i], DOMAIN Role)
  /\ Existing[i].name # "" /\ Existing[i].auth \in BOOLEAN /\ Existing[i].flows = 0

Agree(i, j) ==
  /\ Existing[i].name # Existing[j].name /\ ~(Existing[i].auth /\ Existing[j].auth)
  /\ Existing[j].name \in Existing[i].refs => Existing[i].name \in Existing[j].triggers

ASSUME ContainersAssumption ==
  /\ NamesIndexed \in BOOLEAN /\ MaxAtOnce \in Nat /\ Len(Saves) \in Nat
  /\ \A k \in 1..Len(Saves) : \A ask \in Saves[k] : IsAsk(ask)
  /\ \A i \in DOMAIN Existing : IsContainer(i) /\ \A j \in DOMAIN Existing \ {i} : Agree(i, j)

\* What f says, but for d, of which it says v from now on.
Put(f, d, v) == [x \in DOMAIN f \cup {d} |-> IF x = d THEN v ELSE f[x]]

Over == {"done", "refused", "failed"}
Running == {n \in DOMAIN edits : edits[n].pc \notin Over}

ContainersInit ==
  /\ stored = Existing /\ listed = <<>> /\ edits = <<>>
  /\ built = [name \in {Existing[i].name : i \in DOMAIN Existing} |->
                UNION {Existing[i].idx : i \in {j \in DOMAIN Existing : Existing[j].name = name}}]
  /\ touched = [i \in DOMAIN Existing |-> [wrote |-> 0, named |-> 0, others |-> {}]]

At(n, pc) == n \in DOMAIN edits /\ edits[n].pc = pc

\* What is kept of a call that has ended.
Settled(call) ==
  IF call.pc \notin Over THEN call
  ELSE [call EXCEPT !.found = <<>>, !.todo = {}, !.clear = {}, !.old = [name |-> @.name]]

Becomes(n, call) == edits' = [edits EXCEPT ![n] = Settled(call)]
Goes(n, pc) == Becomes(n, [edits[n] EXCEPT !.pc = pc])
Only(n, pc) == Goes(n, pc) /\ UNCHANGED <<stored, built, listed, touched>>

Body(n) == edits[n].ask
Named(name) == {i \in DOMAIN stored : stored[i].name = name}
Others(n) == DOMAIN stored \ {Body(n).id}

\* The index refuses the name for the container id.
Taken(name, id) == NamesIndexed /\ Named(name) \ {id} # {}

\* A create that is valid looks for its name, everything else reads its
\* container; a listing looks into its cache.
Begins(ask) ==
  /\ Cardinality(Running) < MaxAtOnce
  /\ edits' = Append(edits, [pc |-> CASE ask.do = "create" -> "name" [] ask.do = "list" -> "look"
                                      [] ask.do = "flows" -> "flows" [] OTHER -> "read",
                             ask |-> IF ask.do = "create" THEN [ask EXCEPT !.id = <<Len(edits) + 1, "made">>]
                                     ELSE ask,
                             old |-> [Role EXCEPT !.name = ""], found |-> <<>>, todo |-> ask.refs \ {ask.name},
                             clear |-> {}, cleared |-> FALSE, with |-> Running])
  /\ UNCHANGED <<stored, built, listed, touched>>

\* The container as it is now; an update keeps what its body does not carry.
Read(n) ==
  /\ At(n, "read")
  /\ IF Body(n).id \in DOMAIN stored
     THEN Becomes(n, [edits[n] EXCEPT !.pc = IF Body(n).do = "delete" THEN "remove" ELSE "name",
                                      !.old = stored[Body(n).id],
                                      !.ask.auth = IF @ = {} THEN {stored[Body(n).id].auth} ELSE @])
     ELSE Goes(n, "refused")
  /\ UNCHANGED <<stored, built, listed, touched>>

CheckName(n) ==
  /\ At(n, "name")
  /\ Only(n, IF Named(Body(n).name) \cap Others(n) # {} THEN "refused"
             ELSE IF TRUE \in Body(n).auth THEN "auth" ELSE "refs")

CheckAuth(n) ==
  /\ At(n, "auth")
  /\ Only(n, IF \E i \in Others(n) : stored[i].auth THEN "refused" ELSE "role")

CheckRole(n) == At(n, "role") /\ Only(n, IF Named("role") # {} THEN "refs" ELSE "newRole")

AddRole(n) ==
  /\ At(n, "newRole")
  /\ IF Taken("role", All) THEN Goes(n, "failed") /\ UNCHANGED <<stored, touched>>
     ELSE /\ Goes(n, "refs")
          /\ stored' = Put(stored, <<n, "role">>, Role)
          /\ touched' = Put(touched, <<n, "role">>, [wrote |-> n, named |-> n, others |-> {}])
  /\ UNCHANGED <<built, listed>>

\* The containers the fields refer to, each found by its name.
CheckReference(n) ==
  /\ At(n, "refs")
  /\ IF edits[n].todo = {} THEN Goes(n, "index")
     ELSE \E r \in edits[n].todo :
            \/ Named(r) \ {Body(n).id} = {} /\ Goes(n, "refused")
            \/ \E i \in Named(r) \ {Body(n).id} :
                 Becomes(n, [edits[n] EXCEPT !.todo = @ \ {r}, !.found = Put(@, r, i)])
  /\ UNCHANGED <<stored, built, listed, touched>>

-----------------------------------------------------------------------------
(* Indexes. A build may fail at a conflict or a duplicate.                   *)

Built(name) == IF name \in DOMAIN built THEN built[name] ELSE {}

\* When one fails, an update takes those that are new back as far as the
\* database lets it, a create leaves them.
EnsureIndexes(n) ==
  /\ At(n, "index")
  /\ \/ /\ built' = Put(built, Body(n).name, Built(Body(n).name) \cup Body(n).idx)
        /\ Goes(n, IF edits[n].old.name = Body(n).name THEN "retire" ELSE "write")
     \/ /\ Goes(n, "failed")
        /\ \E some \in SUBSET (Body(n).idx \ Built(Body(n).name)) :
             built' = Put(built, Body(n).name, Built(Body(n).name) \cup some)
  /\ UNCHANGED <<stored, listed, touched>>

\* The indexes the container declared and no longer does, one by one.
Retire(n) ==
  /\ At(n, "retire")
  /\ LET retired == (edits[n].old.idx \ Body(n).idx) \cap Built(Body(n).name)
     IN IF retired = {} THEN Goes(n, "write") /\ UNCHANGED built
        ELSE /\ \E x \in retired : built' = [built EXCEPT ![Body(n).name] = @ \ {x}]
             /\ UNCHANGED edits
  /\ UNCHANGED <<stored, listed, touched>>

-----------------------------------------------------------------------------
(* The write, and what follows it.                                           *)

Wrote(i, n, renamed) ==
  touched' = Put(touched, i, IF i \in DOMAIN touched
                             THEN [wrote |-> n, named |-> IF renamed THEN n ELSE touched[i].named,
                                   others |-> touched[i].others \cup {touched[i].wrote}]
                             ELSE [wrote |-> n, named |-> n, others |-> {}])

\* The whole container: an update puts back the workflows and the list of
\* caches it has read, a create starts without workflows.
WriteContainer(n) ==
  /\ At(n, "write")
  /\ LET i == Body(n).id
         new == [name |-> Body(n).name, refs |-> Body(n).refs, auth |-> TRUE \in Body(n).auth,
                 triggers |-> {Body(n).name} \cup (IF Body(n).do = "create" THEN {} ELSE edits[n].old.triggers),
                 flows |-> edits[n].old.flows, idx |-> Body(n).idx]
     IN IF Body(n).do = "update" /\ i \notin DOMAIN stored
        THEN Goes(n, "refused") /\ UNCHANGED <<stored, touched>>
        ELSE IF Taken(new.name, i) THEN Goes(n, "failed") /\ UNCHANGED <<stored, touched>>
        ELSE /\ stored' = Put(stored, i, new)
             /\ Wrote(i, n, new.name # edits[n].old.name)
             /\ Becomes(n, [edits[n] EXCEPT !.pc = "clear", !.todo = new.refs \ {new.name},
                              !.clear = {All, i} \cup {edits[n].found[r] : r \in DOMAIN edits[n].found}])
  /\ UNCHANGED <<built, listed>>

UpdateFlows(n) ==
  /\ At(n, "flows")
  /\ LET i == Body(n).id
     IN IF i \notin DOMAIN stored THEN Only(n, "refused")
        ELSE /\ stored' = [stored EXCEPT ![i].flows = n]
             /\ touched' = [touched EXCEPT ![i].others = @ \cup {n}]
             /\ Becomes(n, [edits[n] EXCEPT !.pc = "reclear", !.clear = {All, i}])
             /\ UNCHANGED <<built, listed>>

\* Removed or not, the collection goes, under the name that was read.
RemoveContainer(n) ==
  /\ At(n, "remove")
  /\ stored' = [i \in DOMAIN stored \ {Body(n).id} |-> stored[i]]
  /\ Becomes(n, [edits[n] EXCEPT !.pc = "clear", !.clear = {All, Body(n).id}])
  /\ UNCHANGED <<built, listed, touched>>

DropCollection(n) ==
  /\ At(n, "drop") /\ Goes(n, "reclear")
  /\ built' = [name \in DOMAIN built \ {edits[n].old.name} |-> built[name]]
  /\ UNCHANGED <<stored, listed, touched>>

\* The listings are deleted after the write and again at the end; an error of
\* Redis is not looked at.
Clear(n) ==
  /\ At(n, "clear") \/ At(n, "reclear")
  /\ \E works \in BOOLEAN :
       /\ listed' = IF works THEN [k \in DOMAIN listed \ edits[n].clear |-> listed[k]] ELSE listed
       /\ Becomes(n, [edits[n] EXCEPT !.pc = IF At(n, "reclear") THEN "done"
                                             ELSE IF Body(n).do = "delete" THEN "drop" ELSE "trigger",
                                      !.cleared = works])
  /\ UNCHANGED <<stored, built, touched>>

\* A write to the container i now invalidates, or no longer, the caches of name.
Relists(n, i, triggers) ==
  /\ stored' = [stored EXCEPT ![i].triggers = triggers]
  /\ touched' = [touched EXCEPT ![i].others = @ \cup {n}]

(* Fault: the references that stay are not taken out of the old ones. *)
AllOld(n) == edits[n].old.refs

\* The old references that are gone; one to itself counts as gone.
Dropped(n) == edits[n].old.refs \ (Body(n).refs \ {Body(n).name})
Kept(n) == IF edits[n].old.name \in {"", Body(n).name} THEN {} ELSE Body(n).refs \ {Body(n).name}

AddTrigger(n) ==
  /\ At(n, "trigger")
  /\ IF edits[n].todo = {}
     THEN Becomes(n, [edits[n] EXCEPT !.pc = "pull", !.todo = Dropped(n)]) /\ UNCHANGED <<stored, touched>>
     ELSE \E r \in edits[n].todo :
            LET i == edits[n].found[r]
            IN IF i \in DOMAIN stored
               THEN /\ Relists(n, i, stored[i].triggers \cup {Body(n).name})
                    /\ Becomes(n, [edits[n] EXCEPT !.todo = @ \ {r}])
               ELSE Goes(n, "failed") /\ UNCHANGED <<stored, touched>>
  /\ UNCHANGED <<built, listed>>

Pull(n, next) ==
  /\ IF edits[n].todo = {}
     THEN Becomes(n, [edits[n] EXCEPT !.pc = next, !.todo = Kept(n)]) /\ UNCHANGED <<stored, touched>>
     ELSE \E r \in edits[n].todo :
            \/ /\ Named(r) = {} /\ Becomes(n, [edits[n] EXCEPT !.todo = @ \ {r}])
               /\ UNCHANGED <<stored, touched>>
            \/ \E i \in Named(r) :
                 /\ Relists(n, i, stored[i].triggers \ {edits[n].old.name})
                 /\ Becomes(n, [edits[n] EXCEPT !.todo = @ \ {r},
                                                !.clear = @ \cup (IF next = "rename" THEN {i} ELSE {})])
  /\ UNCHANGED <<built, listed>>

PullDropped(n) == At(n, "pull") /\ Pull(n, "rename")
PullRenamed(n) == At(n, "rename") /\ Pull(n, "reclear")

-----------------------------------------------------------------------------
(* Listings of the panel: of one container or of all.                        *)

View(k) == IF k = All THEN stored ELSE IF k \in DOMAIN stored THEN [i \in {k} |-> stored[i]] ELSE <<>>

\* An entry may have lapsed.
Look(n) ==
  /\ At(n, "look")
  /\ Only(n, "find") \/ (Body(n).id \in DOMAIN listed /\ Only(n, "done"))

Find(n) ==
  /\ At(n, "find")
  /\ IF View(Body(n).id) = <<>> /\ Body(n).id # All THEN Goes(n, "refused")
     ELSE Becomes(n, [edits[n] EXCEPT !.pc = "fill", !.found = View(Body(n).id)])
  /\ UNCHANGED <<stored, built, listed, touched>>

Fill(n) ==
  /\ At(n, "fill") /\ Goes(n, "done")
  /\ listed' = Put(listed, Body(n).id, [view |-> edits[n].found, by |-> n])
  /\ UNCHANGED <<stored, built, touched>>

\* A database error, the timeout of ten seconds, a crash.
Breaks(n) == n \in Running /\ Only(n, "failed")

ContainersNext ==
  \/ Len(edits) < Len(Saves) /\ \E ask \in Saves[Len(edits) + 1] : Begins(ask)
  \/ \E n \in DOMAIN edits :
       \/ Read(n) \/ CheckName(n) \/ CheckAuth(n) \/ CheckRole(n) \/ AddRole(n) \/ CheckReference(n)
       \/ EnsureIndexes(n) \/ Retire(n) \/ WriteContainer(n) \/ UpdateFlows(n) \/ RemoveContainer(n) \/ DropCollection(n)
       \/ Clear(n) \/ AddTrigger(n) \/ PullDropped(n) \/ PullRenamed(n)
       \/ Look(n) \/ Find(n) \/ Fill(n) \/ Breaks(n)

ContainersSpec == ContainersInit /\ [][ContainersNext]_containerVars

-----------------------------------------------------------------------------
(* Properties.                                                               *)

Overlap(m, n) == m # n /\ m # 0 /\ n # 0 /\ (m \in edits[n].with \/ n \in edits[m].with)

Told(n) == n = 0 \/ edits[n].pc = "done"

By(i) == {touched[i].wrote, touched[i].named} \cup touched[i].others

\* "role" is not a reserved name: a call that asks for an account container of
\* that name adds the role container before it writes its own.
Raced(m, n) ==
  Overlap(m, n) \/ (m = n /\ m # 0 /\ Body(m).name = "role" /\ TRUE \in Body(m).auth)

DistinctUnlessRaced ==
  \A i, j \in DOMAIN stored : i # j =>
    /\ stored[i].name = stored[j].name => ~NamesIndexed /\ \E m \in By(i), n \in By(j) : Raced(m, n)
    /\ stored[i].auth /\ stored[j].auth => \E m \in By(i), n \in By(j) : Overlap(m, n)

\* Without the unique index two containers may have been given one name; what
\* other calls did by that name may have met either.
Gives(n) == ({Body(n).name} \ {""}) \cup (IF TRUE \in Body(n).auth THEN {"role"} ELSE {})

Shared(name) ==
  ~NamesIndexed /\ \E m, n \in DOMAIN edits : Raced(m, n) /\ name \in Gives(m) \cap Gives(n)

\* A container that is referred to invalidates the caches of those that refer
\* to it, unless it was given its name after they were saved.
Invalidating ==
  \A i, j \in DOMAIN stored :
    \/ i = j \/ stored[j].name \notin stored[i].refs \ {stored[i].name}
    \/ stored[i].name \in stored[j].triggers
    \/ ~ Told(touched[i].wrote) \/ touched[j].named > touched[i].wrote
    \/ \E n \in By(j) : Overlap(n, touched[i].wrote)
    \/ Shared(stored[i].name) \/ Shared(stored[j].name)

FlowsKept ==
  \A i \in DOMAIN stored : \A n \in By(i) :
    n # 0 /\ Body(n).do = "flows" /\ n > stored[i].flows => \E m \in By(i) : Overlap(m, n)

IndexesBuilt ==
  \A i \in DOMAIN stored :
    \/ stored[i].idx \subseteq Built(stored[i].name)
    \/ \E n \in DOMAIN edits \ {touched[i].wrote} :
         /\ stored[i].name \in {Body(n).name, edits[n].old.name}
         /\ ~ Told(n) \/ Overlap(n, touched[i].wrote)
    \/ Shared(stored[i].name)

ListedIsCurrent ==
  \A k \in DOMAIN listed :
    \/ listed[k].view = View(k)
    \/ \E n \in DOMAIN edits :
         /\ Body(n).do # "list" /\ (edits[n].pc = "refused" => TRUE \in Body(n).auth)
         /\ ~ Told(n) \/ ~ edits[n].cleared \/ Overlap(n, listed[k].by)
    \/ \E n \in DOMAIN edits : \E name \in Gives(n) : Shared(name)

\* What the containers promise each other is broken only by calls that overlapped
\* or did not end well, never by calls one after another: names and the account
\* container are unique, a container invalidates the caches of those that refer
\* to it, saved workflows stay, declared indexes exist and listings are current.
OnlyOverlapsDisagree ==
  DistinctUnlessRaced /\ Invalidating /\ FlowsKept /\ IndexesBuilt /\ ListedIsCurrent
=============================================================================
