------------------------ MODULE ProjectLifecycleProofs ------------------------
(* Theorems about ProjectLifecycle, ProjectSlugs and TemplateClones, for    *)
(* any projects, credentials, templates, requests, lookups and bounds.     *)
EXTENDS ProjectSlugs, TemplateClones, TLAPS

Pc == {"idle", "check", "insert", "snapshot", "touch", "commit", "member", "populate",
       "deactivate", "read", "unique", "update", "invalidate", "write"} \cup Removing

Owners == Projects \cup {"tenant", "revoked", "gone"}

Requested ==
  [op : Ops \cup {"none"}, pc : Pc, p : Projects \cup {NoOne}, slug : Slugs \cup {NoOne},
   old : Slugs \cup {NoOne}, active : {"keep", "on", "off"}, todo : SUBSET Credentials,
   seen : SUBSET (Credentials \X Owners \X Rows),
   template : BOOLEAN, listed : BOOLEAN, failed : BOOLEAN]

ReqType == req \in [Requests -> Requested]

(* A promotion learns its project from the snapshot; every other request   *)
(* comes with one.                                                         *)
Placed(r) == req[r].p \in Projects \/ At(r, "idle") \/ (At(r, "snapshot") /\ req[r].op = "promote")

(* A creation has its identity to itself until it has inserted the row;    *)
(* every other request is about a project that was there once.             *)
Unborn(r) ==
  /\ req[r].pc \in {"check", "insert"} =>
       /\ req[r].op = "create" /\ req[r].slug \in Slugs /\ row[req[r].p].there = "unborn"
       /\ \A q \in Requests \ {r} : req[q].p # req[r].p
  /\ req[r].p \in Projects /\ req[r].pc \notin {"check", "insert"} => Known(req[r].p)

(* A transaction past its touch holds the row, and a promotion the project *)
(* it found the credential with.                                           *)
Holding(r) ==
  /\ At(r, "commit") => held[req[r].p] = r
  /\ req[r].op = "promote" /\ req[r].pc \in {"touch", "commit"} =>
       \A t \in req[r].seen : t[2] = req[r].p

Reactivated(p) == "activated" \in disturbed[p]

(* What a deletion has achieved: the project takes no grant from its       *)
(* deactivation on, and has none once they are deleted.                    *)
Ungranted(r) ==
  /\ req[r].pc \in Removing => ~Active(req[r].p) \/ Reactivated(req[r].p)
  /\ req[r].pc \in {"rows", "joined", "memberships", "remove"} /\ ~req[r].failed =>
       Reactivated(req[r].p) \/ \A g \in grants : g[1] # req[r].p
  /\ req[r].pc \in {"memberships", "remove"} => ~req[r].failed

(* What a deletion has emptied, when nothing was written under it.         *)
Emptied(r) ==
  LET left == stored[req[r].p] IN
  req[r].pc \in Removing /\ disturbed[req[r].p] = {} /\ ~req[r].failed =>
    /\ At(r, "drop") => req[r].listed \/ "collections" \notin left
    /\ req[r].pc \in {"creds", "grants", "rows", "joined", "memberships", "remove"} =>
         "collections" \notin left
    /\ req[r].pc \in {"joined", "memberships", "remove"} => "rows" \notin left
    /\ At(r, "remove") => "memberships" \notin left

RequestOK(r) == Placed(r) /\ Unborn(r) /\ Holding(r) /\ Ungranted(r) /\ Emptied(r)

(* Only a row that is there and active is held, and a credential belongs   *)
(* to a project that was there once.                                       *)
HeldIsActive == \A p \in Projects : held[p] # NoOne => Active(p)
OwnerIsKnown == \A c \in Credentials : owner[c] \in Projects => Known(owner[c])

IInv ==
  /\ TypeOK
  /\ ReqType
  /\ \A r \in Requests : RequestOK(r)
  /\ HeldIsActive
  /\ OwnerIsKnown
  /\ GrantsEndWithProject
  /\ NothingLeftBehind
-----------------------------------------------------------------------------
(* The records of the requests.                                            *)

(* The fields a step may set at a request.                                 *)
LEMMA IdleRequested == Idle \in Requested
BY DEF Idle, Requested, Pc

LEMMA GotoFields ==
  ASSUME ReqType, NEW r \in Requests, NEW pc \in Pc, Goto(r, pc)
  PROVE  /\ ReqType'
         /\ req'[r] = [req[r] EXCEPT !.pc = pc]
         /\ req'[r].pc = pc /\ req'[r].p = req[r].p /\ req'[r].op = req[r].op
         /\ req'[r].seen = req[r].seen /\ req'[r].failed = req[r].failed
         /\ req'[r].listed = req[r].listed /\ req'[r].slug = req[r].slug
         /\ \A q \in Requests \ {r} : req'[q] = req[q]
BY DEF ReqType, Goto, Requested

LEMMA AnswerFields ==
  ASSUME ReqType, NEW r \in Requests, Answer(r)
  PROVE  /\ ReqType'
         /\ req'[r].pc = "idle" /\ req'[r].p = NoOne /\ req'[r].op = "none"
         /\ \A q \in Requests \ {r} : req'[q] = req[q]
BY IdleRequested DEF ReqType, Answer, Idle

LEMMA RefusedFields ==
  ASSUME ReqType, NEW r \in Requests, Refused(r)
  PROVE  /\ ReqType'
         /\ \/ /\ req'[r].pc = "idle" /\ req'[r].p = NoOne /\ req'[r].op = "none"
            \/ /\ req'[r].pc = "deactivate" /\ req'[r].p = req[r].p /\ req[r].op = "create"
               /\ req'[r].failed = req[r].failed /\ req'[r].op = "create"
         /\ \A q \in Requests \ {r} : req'[q] = req[q]
<1>1. CASE req[r].op = "create"
  <2> DEFINE next == [req[r] EXCEPT !.pc = "deactivate", !.seen = {}]
  <2>1. req' = [req EXCEPT ![r] = next]
    BY <1>1 DEF Refused
  <2>2. next \in Requested
    <3>1. "deactivate" \in Pc /\ {} \in SUBSET (Credentials \X Owners \X Rows)
      BY DEF Pc
    <3> QED
      BY <3>1 DEF ReqType, Requested
  <2>3. /\ next.pc = "deactivate" /\ next.p = req[r].p /\ next.op = req[r].op
        /\ next.failed = req[r].failed
    BY DEF ReqType, Requested
  <2> HIDE DEF next
  <2> QED
    BY <1>1, <2>1, <2>2, <2>3 DEF ReqType
<1>2. CASE req[r].op # "create"
  BY <1>2, IdleRequested DEF ReqType, Refused, Idle
<1> QED
  BY <1>1, <1>2

LEMMA GrantedFields ==
  ASSUME ReqType, NEW r \in Requests, NEW c \in Credentials, Granted(r, c)
  PROVE  /\ ReqType'
         /\ \/ /\ req'[r].pc = "idle" /\ req'[r].p = NoOne /\ req'[r].op = "none"
            \/ /\ req'[r].pc \in {"member", "snapshot"} /\ req'[r].p = req[r].p
               /\ req[r].op = "create" /\ req'[r].op = "create"
         /\ \A q \in Requests \ {r} : req'[q] = req[q]
<1>1. CASE req[r].op = "create"
  <2> DEFINE next == [req[r] EXCEPT !.todo = req[r].todo \ {c}, !.seen = {},
                           !.pc = IF req[r].todo = {c} THEN "member" ELSE "snapshot"]
  <2>1. req' = [req EXCEPT ![r] = next]
    BY <1>1 DEF Granted
  <2>2. next \in Requested
    <3>1. {"member", "snapshot"} \subseteq Pc /\ {} \in SUBSET (Credentials \X Owners \X Rows)
      BY DEF Pc
    <3> QED
      BY <3>1 DEF ReqType, Requested
  <2>3. next.pc \in {"member", "snapshot"} /\ next.p = req[r].p /\ next.op = req[r].op
    BY DEF ReqType, Requested
  <2> HIDE DEF next
  <2> QED
    BY <1>1, <2>1, <2>2, <2>3 DEF ReqType
<1>2. CASE req[r].op # "create"
  BY <1>2, IdleRequested DEF ReqType, Granted, Idle
<1> QED
  BY <1>1, <1>2

LEMMA BeginFields ==
  ASSUME ReqType, NEW r \in Requests, NEW op, NEW request \in Requested, Begin(r, op, request)
  PROVE  /\ ReqType'
         /\ req'[r].pc = request.pc /\ req'[r].p = request.p /\ req'[r].op = op
         /\ req'[r].slug = request.slug
         /\ \A q \in Requests \ {r} : req'[q] = req[q]
BY DEF ReqType, Begin, Requested

-----------------------------------------------------------------------------
(* What a step of a request may do to the shared state, for the invariant  *)
(* to hold of all the others.                                              *)

DataTypes ==
  /\ row \in [Projects -> Rows] /\ \A p \in Projects : Present(p) => row[p].slug \in Slugs
  /\ stored \in [Projects -> SUBSET Stores]
  /\ grants \subseteq Projects \X Credentials
  /\ owner \in [Credentials -> Owners]
  /\ held \in [Projects -> Requests \cup {NoOne}]
  /\ used \in [ops : 0..MaxOps, faults : 0..MaxFaults]
  /\ disturbed \in [Projects -> SUBSET {"activated", "written"}]

RowMoves(r, p) ==
  /\ row'[p].there = "unborn" => row[p].there = "unborn"
  /\ row[p].there = "unborn" /\ row'[p].there # "unborn" => At(r, "insert") /\ req[r].p = p
  /\ row'[p].there = "gone" => row[p].there = "gone" \/ (At(r, "remove") /\ req[r].p = p)
  /\ BeingRemoved(p) /\ Active(p)' => Active(p) \/ Reactivated(p)'

StoreMoves(p) ==
  /\ disturbed[p] \subseteq disturbed'[p]
  /\ BeingRemoved(p) => stored'[p] \subseteq stored[p] \/ "written" \in disturbed'[p]

HoldMoves(r, p) ==
  /\ held'[p] \in {held[p], r, NoOne}
  /\ held[p] \notin {r, NoOne} => held'[p] = held[p]
  /\ held'[p] # NoOne => Active(p)'
  /\ held'[p] = r => At(r, "commit")' /\ req'[r].p = p

PlaceMoves(r) ==
  LET p == req'[r].p IN
  p \in {req[r].p, NoOne} \/ Known(p) \/ \A q \in Requests : req[q].p # p

Keeps(r) ==
  /\ \A p \in Projects : RowMoves(r, p) /\ StoreMoves(p) /\ HoldMoves(r, p)
  /\ \A g \in grants' : g \in grants \/ Active(g[1])
  /\ \A c \in Credentials : owner'[c] \in {owner[c], "tenant", "revoked", "gone"}
  /\ \A q \in Requests \ {r} : req'[q] = req[q]
  /\ PlaceMoves(r)

LEMMA OthersKept ==
  ASSUME IInv, ReqType', NEW r \in Requests, Keeps(r),
         NEW q \in Requests, q # r
  PROVE  RequestOK(q)'
<1>0. RequestOK(q) /\ req'[q] = req[q] /\ TypeOK
  BY DEF IInv, Keeps
<1> DEFINE p == req[q].p
<1>1. CASE p \notin Projects
  BY <1>0, <1>1 DEF RequestOK, Placed, Unborn, Holding, Ungranted, Emptied, At, Removing
<1>2. CASE p \in Projects
  <2>1. Placed(q)' /\ p \in Projects /\ req'[q].p = p
    BY <1>0, <1>2 DEF Placed
  <2>2. RowMoves(r, p) /\ StoreMoves(p) /\ HoldMoves(r, p)
    BY <1>2 DEF Keeps
  <2>3. Unborn(q)'
    <3>1. p # NoOne
      BY <1>2, NamesAssumption
    <3>2. req[q].pc \notin {"check", "insert"} => row'[p].there # "unborn"
      BY <1>0, <1>2, <2>2 DEF Unborn, RequestOK, Known, RowMoves
    <3>3. SUFFICES ASSUME req[q].pc \in {"check", "insert"}
                   PROVE  row'[p].there = "unborn" /\ \A s \in Requests \ {q} : req'[s].p # p
      BY <1>0, <3>2 DEF Unborn, RequestOK, Known
    <3>4. row[p].there = "unborn" /\ \A s \in Requests \ {q} : req[s].p # p
      BY <1>0, <3>3 DEF Unborn, RequestOK
    <3>5. row'[p].there = "unborn"
      BY <2>2, <3>4 DEF RowMoves
    <3>6. req'[r].p # p
      BY <3>1, <3>4 DEF Keeps, PlaceMoves, Known
    <3> QED
      BY <3>4, <3>5, <3>6 DEF Keeps
  <2>4. Holding(q)'
    <3>1. At(q, "commit") => held'[p] = q
      BY <1>0, <2>2, NamesAssumption DEF RequestOK, Holding, HoldMoves
    <3> QED
      BY <1>0, <3>1 DEF RequestOK, Holding, At
  <2>5. req[q].pc \in Removing => BeingRemoved(p)
    BY DEF BeingRemoved
  <2>6. Ungranted(q)'
    <3>1. Reactivated(p) => Reactivated(p)'
      BY <1>0, <2>2 DEF StoreMoves, Reactivated
    <3>2. req[q].pc \in Removing => ~Active(p)' \/ Reactivated(p)'
      BY <1>0, <2>2, <2>5, <3>1 DEF RequestOK, Ungranted, RowMoves
    <3>3. req[q].pc \in {"rows", "joined", "memberships", "remove"} /\ ~req[q].failed =>
             Reactivated(p)' \/ \A g \in grants' : g[1] # p
      BY <1>0, <3>1 DEF RequestOK, Ungranted, Removing, Keeps
    <3> QED
      BY <1>0, <3>2, <3>3 DEF RequestOK, Ungranted, Reactivated
  <2>7. Emptied(q)'
    <3>1. req[q].pc \in Removing /\ disturbed'[p] = {} =>
            disturbed[p] = {} /\ stored'[p] \subseteq stored[p]
      BY <2>2, <2>5 DEF StoreMoves
    <3> QED
      BY <1>0, <3>1 DEF RequestOK, Emptied, At
  <2> QED
    BY <2>1, <2>3, <2>4, <2>6, <2>7 DEF RequestOK
<1> QED
  BY <1>1, <1>2

LEMMA StepKeeps ==
  ASSUME IInv, DataTypes', ReqType', NEW r \in Requests, Keeps(r), RequestOK(r)'
  PROVE  IInv'
<1>0. TypeOK /\ RequestOK(r) /\ HeldIsActive /\ OwnerIsKnown
      /\ GrantsEndWithProject /\ NothingLeftBehind
  BY DEF IInv
<1>1. TypeOK'
  <2> SUFFICES ASSUME NEW p \in Projects, held'[p] # NoOne
               PROVE  At(held[p], "commit")' /\ req'[held'[p]].p = p
    BY DEF TypeOK, DataTypes, Owners, At
  <2>1. HoldMoves(r, p)
    BY DEF Keeps
  <2>2. CASE held'[p] = r
    BY <2>1, <2>2 DEF HoldMoves
  <2>3. CASE held'[p] # r
    <3>1. held'[p] = held[p] /\ held[p] \in Requests \ {r}
      BY <1>0, <2>1, <2>3 DEF HoldMoves, TypeOK
    <3> QED
      BY <1>0, <3>1 DEF TypeOK, Keeps, At
  <2> QED
    BY <2>2, <2>3
<1>2. \A q \in Requests : RequestOK(q)'
  BY OthersKept
<1>3. HeldIsActive'
  BY DEF HeldIsActive, Keeps, HoldMoves
<1>4. OwnerIsKnown'
  <2> SUFFICES ASSUME NEW c \in Credentials, owner'[c] \in Projects
               PROVE  row'[owner'[c]].there # "unborn"
    BY DEF OwnerIsKnown, Known
  <2>1. owner'[c] = owner[c]
    BY NamesAssumption DEF Keeps
  <2> QED
    BY <1>0, <2>1 DEF OwnerIsKnown, Known, Keeps, RowMoves
<1>5. GrantsEndWithProject'
  <2> SUFFICES ASSUME NEW g \in grants', row'[g[1]].there = "gone"
               PROVE  Reactivated(g[1])'
    BY DEF GrantsEndWithProject, Reactivated
  <2>1. g[1] \in Projects
    BY DEF DataTypes
  <2>2. RowMoves(r, g[1]) /\ StoreMoves(g[1])
    BY <2>1 DEF Keeps
  <2>3. Reactivated(g[1]) => Reactivated(g[1])'
    BY <2>2 DEF StoreMoves, Reactivated
  <2>4. g \in grants \/ Active(g[1])
    BY DEF Keeps
  <2>5. CASE row[g[1]].there = "gone"
    BY <1>0, <2>3, <2>4, <2>5 DEF GrantsEndWithProject, Reactivated, Active, Present
  <2>6. CASE At(r, "remove") /\ req[r].p = g[1]
    BY <1>0, <2>3, <2>4, <2>6 DEF RequestOK, Ungranted, At, Removing
  <2> QED
    BY <2>2, <2>5, <2>6 DEF RowMoves
<1>6. NothingLeftBehind'
  <2> SUFFICES ASSUME NEW p \in Projects, row'[p].there = "gone", disturbed'[p] = {}
               PROVE  stored'[p] = {}
    BY DEF NothingLeftBehind
  <2>1. RowMoves(r, p) /\ StoreMoves(p)
    BY DEF Keeps
  <2>2. CASE row[p].there = "gone"
    BY <1>0, <2>1, <2>2 DEF StoreMoves, BeingRemoved, NothingLeftBehind
  <2>3. CASE At(r, "remove") /\ req[r].p = p
    <3>1. BeingRemoved(p)
      BY <2>3 DEF BeingRemoved, At, Removing
    <3>2. disturbed[p] = {} /\ stored'[p] \subseteq stored[p]
      BY <2>1, <3>1 DEF StoreMoves
    <3>3. stored[p] \subseteq Stores
      BY <1>0 DEF TypeOK
    <3>4. stored[p] = {}
      BY <1>0, <2>3, <3>2, <3>3 DEF RequestOK, Ungranted, Emptied, At, Removing, Stores
    <3> QED
      BY <3>2, <3>4
  <2> QED
    BY <2>1, <2>2, <2>3 DEF RowMoves
<1> QED
  BY <1>1, <1>2, <1>3, <1>4, <1>5, <1>6 DEF IInv

-----------------------------------------------------------------------------
(* Where a request may stand without a promise.                            *)

LEMMA IdleOK ==
  ASSUME NEW r \in Requests, req'[r].pc = "idle", req'[r].p = NoOne
  PROVE  RequestOK(r)' /\ PlaceMoves(r)
BY NamesAssumption DEF RequestOK, Placed, Unborn, Holding, Ungranted, Emptied, Removing, At, PlaceMoves

PlainPc == {"snapshot", "member", "populate", "deactivate", "read", "unique", "update",
            "invalidate", "write"}

LEMMA PlainOK ==
  ASSUME NEW r \in Requests, req'[r].pc \in PlainPc, req'[r].p \in Projects,
         row'[req'[r].p].there # "unborn"
  PROVE  RequestOK(r)'
BY DEF RequestOK, Placed, Unborn, Known, Holding, Ungranted, Emptied, Removing, At, PlainPc

(* A step of a request without a transaction keeps the rows held.          *)
LEMMA HoldKept ==
  ASSUME IInv, NEW r \in Requests, ~At(r, "commit"), held' = held,
         NEW p \in Projects, held[p] # NoOne => Active(p)'
  PROVE  HoldMoves(r, p)
<1>1. held[p] # r
  BY NamesAssumption DEF IInv, TypeOK, At
<1> QED
  BY <1>1 DEF HoldMoves

LEMMA QuietStep ==
  ASSUME IInv, NEW r \in Requests, ~At(r, "commit"),
         UNCHANGED <<row, stored, grants, owner, held, disturbed>>,
         used' \in [ops : 0..MaxOps, faults : 0..MaxFaults],
         ReqType', \A q \in Requests \ {r} : req'[q] = req[q],
         RequestOK(r)', PlaceMoves(r)
  PROVE  IInv'
<1>0. TypeOK /\ HeldIsActive
  BY DEF IInv
<1>1. DataTypes'
  BY <1>0 DEF TypeOK, DataTypes, Owners, Present
<1>2. ASSUME NEW p \in Projects
      PROVE  RowMoves(r, p) /\ StoreMoves(p) /\ HoldMoves(r, p)
  BY <1>0, HoldKept DEF RowMoves, StoreMoves, Active, Present, HeldIsActive
<1>3. Keeps(r)
  BY <1>2 DEF Keeps
<1> QED
  BY <1>1, <1>3, StepKeeps

LEMMA CallType ==
  ASSUME TypeOK, CallFails \/ UNCHANGED used
  PROVE  used' \in [ops : 0..MaxOps, faults : 0..MaxFaults]
BY BoundsAssumption DEF TypeOK, CallFails

-----------------------------------------------------------------------------
(* Requests arrive.                                                        *)

LEMMA BeginStep ==
  ASSUME IInv, NEW r \in Requests,
         NEW op, NEW request \in Requested, Begin(r, op, request),
         request.p \in Projects \/ (op = "promote" /\ request.pc = "snapshot" /\ request.p = NoOne),
         \/ request.pc \in PlainPc /\ (request.p \in Projects => Known(request.p))
         \/ /\ request.pc = "check" /\ op = "create" /\ request.slug \in Slugs /\ row[request.p].there = "unborn"
            /\ \A q \in Requests : req[q].p # request.p
  PROVE  IInv'
<1>0. TypeOK /\ ReqType
  BY DEF IInv
<1>1. /\ ReqType'
      /\ req'[r].pc = request.pc /\ req'[r].p = request.p /\ req'[r].op = op
      /\ req'[r].slug = request.slug
      /\ \A q \in Requests \ {r} : req'[q] = req[q]
  BY <1>0, BeginFields
<1>2. ~At(r, "commit") /\ UNCHANGED <<row, stored, grants, owner, held, disturbed>>
  BY DEF Begin, At
<1>3. used' \in [ops : 0..MaxOps, faults : 0..MaxFaults]
  BY <1>0, BoundsAssumption DEF TypeOK, Begin
<1>4. PlaceMoves(r)
  BY <1>1 DEF PlaceMoves
<1>5. RequestOK(r)'
  <2>1. CASE request.pc \in PlainPc /\ request.p \in Projects
    BY <1>1, <1>2, <2>1, PlainOK DEF Known, PlainPc
  <2>2. CASE op = "promote" /\ request.pc = "snapshot"
    BY <1>1, <1>2, <2>2
    DEF RequestOK, Placed, Unborn, Known, Holding, Ungranted, Emptied, Removing, At
  <2>3. CASE request.pc = "check" /\ request.p \in Projects
    BY <1>1, <1>2, <2>3
    DEF RequestOK, Placed, Unborn, Holding, Ungranted, Emptied, Removing, At, PlainPc
  <2> QED
    BY <2>1, <2>2, <2>3
<1> QED
  BY <1>1, <1>2, <1>3, <1>4, <1>5, QuietStep

LEMMA ArrivalStep ==
  ASSUME IInv, NEW r \in Requests,
         \/ BeginCreate(r) \/ BeginUpdate(r) \/ BeginDelete(r)
         \/ BeginGrant(r) \/ BeginPromote(r) \/ BeginWrite(r)
  PROVE  IInv'
<1>1. CASE BeginCreate(r)
  <2>1. PICK p \in Projects, s \in Slugs, cs \in SUBSET Credentials, fromTemplate \in BOOLEAN :
          /\ row[p].there = "unborn" /\ \A q \in Requests : req[q].p # p
          /\ Begin(r, "create", [Idle EXCEPT !.pc = "check", !.p = p, !.slug = s, !.todo = cs,
                                             !.template = fromTemplate])
    BY <1>1 DEF BeginCreate
  <2> DEFINE request == [Idle EXCEPT !.pc = "check", !.p = p, !.slug = s, !.todo = cs,
                                     !.template = fromTemplate]
  <2>2. request \in Requested /\ request.pc = "check" /\ request.p = p /\ request.slug = s
    BY DEF Idle, Requested, Pc
  <2> QED
    BY <2>1, <2>2, BeginStep
<1>2. CASE BeginUpdate(r)
  <2>1. PICK p \in Projects, s \in Slugs \cup {NoOne}, a \in {"keep", "on", "off"} :
          /\ Known(p)
          /\ Begin(r, "update", [Idle EXCEPT !.pc = "read", !.p = p, !.slug = s, !.active = a])
    BY <1>2 DEF BeginUpdate
  <2> DEFINE request == [Idle EXCEPT !.pc = "read", !.p = p, !.slug = s, !.active = a]
  <2>2. request \in Requested /\ request.pc \in PlainPc /\ request.p = p
    BY DEF Idle, Requested, Pc, PlainPc
  <2> QED
    BY <2>1, <2>2, BeginStep
<1>3. CASE BeginDelete(r)
  <2>1. PICK p \in Projects :
          Known(p) /\ Begin(r, "delete", [Idle EXCEPT !.pc = "read", !.p = p])
    BY <1>3 DEF BeginDelete
  <2> DEFINE request == [Idle EXCEPT !.pc = "read", !.p = p]
  <2>2. request \in Requested /\ request.pc \in PlainPc /\ request.p = p
    BY DEF Idle, Requested, Pc, PlainPc
  <2> QED
    BY <2>1, <2>2, BeginStep
<1>4. CASE BeginGrant(r)
  <2>1. PICK p \in Projects, c \in Credentials :
          Known(p) /\ Begin(r, "grant", [Idle EXCEPT !.pc = "snapshot", !.p = p, !.todo = {c}])
    BY <1>4 DEF BeginGrant
  <2> DEFINE request == [Idle EXCEPT !.pc = "snapshot", !.p = p, !.todo = {c}]
  <2>2. request \in Requested /\ request.pc \in PlainPc /\ request.p = p
    BY DEF Idle, Requested, Pc, PlainPc
  <2> QED
    BY <2>1, <2>2, BeginStep
<1>5. CASE BeginPromote(r)
  <2>1. PICK c \in Credentials :
          Begin(r, "promote", [Idle EXCEPT !.pc = "snapshot", !.todo = {c}])
    BY <1>5 DEF BeginPromote
  <2> DEFINE request == [Idle EXCEPT !.pc = "snapshot", !.todo = {c}]
  <2>2. /\ request \in Requested /\ request.pc \in PlainPc /\ request.pc = "snapshot"
        /\ request.p = NoOne
    BY DEF Idle, Requested, Pc, PlainPc
  <2> QED
    BY <2>1, <2>2, NamesAssumption, BeginStep
<1>6. CASE BeginWrite(r)
  <2>1. PICK p \in Projects :
          Active(p) /\ Begin(r, "write", [Idle EXCEPT !.pc = "write", !.p = p])
    BY <1>6 DEF BeginWrite
  <2> DEFINE request == [Idle EXCEPT !.pc = "write", !.p = p]
  <2>2. request \in Requested /\ request.pc \in PlainPc /\ request.p = p /\ Known(p)
    BY <2>1 DEF Idle, Requested, Pc, PlainPc, Active, Present, Known
  <2> QED
    BY <2>1, <2>2, BeginStep
<1> QED
  BY <1>1, <1>2, <1>3, <1>4, <1>5, <1>6

-----------------------------------------------------------------------------
(* Steps that look, and leave the shared state alone.                      *)

LEMMA PlacedAt ==
  ASSUME IInv, NEW r \in Requests, req[r].pc \notin {"idle", "snapshot"}
  PROVE  req[r].p \in Projects
BY DEF IInv, RequestOK, Placed, At

LEMMA KnownAt ==
  ASSUME IInv, NEW r \in Requests, req[r].p \in Projects, req[r].pc \notin {"check", "insert"}
  PROVE  Known(req[r].p)
BY DEF IInv, RequestOK, Unborn

(* Quiet, and to a place without a promise, or over.                       *)
LEMMA QuietMove ==
  ASSUME IInv, NEW r \in Requests, ~At(r, "commit"),
         UNCHANGED <<row, stored, grants, owner, held, disturbed>>,
         CallFails \/ UNCHANGED used,
         ReqType', \A q \in Requests \ {r} : req'[q] = req[q],
         \/ req'[r].pc = "idle" /\ req'[r].p = NoOne
         \/ /\ req'[r].pc \in PlainPc /\ req'[r].p = req[r].p /\ req[r].p \in Projects
            /\ req[r].pc \notin {"check", "insert"}
  PROVE  IInv'
<1>1. used' \in [ops : 0..MaxOps, faults : 0..MaxFaults]
  BY CallType DEF IInv
<1>2. RequestOK(r)' /\ PlaceMoves(r)
  BY IdleOK, PlainOK, KnownAt DEF Known, PlaceMoves
<1> QED
  BY <1>1, <1>2, QuietStep

LEMMA CheckCreateStep ==
  ASSUME IInv, NEW r \in Requests, CheckCreate(r)
  PROVE  IInv'
<1>0. ReqType /\ RequestOK(r) /\ TypeOK
  BY DEF IInv
<1>1. ~At(r, "commit") /\ UNCHANGED <<row, stored, grants, owner, held, used, disturbed>>
  BY DEF CheckCreate, At
<1>2. CASE Answer(r)
  BY <1>0, <1>1, <1>2, AnswerFields, QuietMove
<1>3. CASE Goto(r, "insert")
  <2>1. /\ ReqType' /\ req'[r].pc = "insert" /\ req'[r].p = req[r].p /\ req'[r].op = req[r].op
        /\ req'[r].slug = req[r].slug /\ \A q \in Requests \ {r} : req'[q] = req[q]
    BY <1>0, <1>3, GotoFields DEF Pc
  <2>2. req[r].p \in Projects
    BY PlacedAt DEF CheckCreate, At
  <2>3. RequestOK(r)'
    BY <1>0, <1>1, <2>1, <2>2
    DEF CheckCreate, RequestOK, Placed, Unborn, Holding, Ungranted, Emptied, Removing, At
  <2>4. PlaceMoves(r)
    BY <2>1 DEF PlaceMoves
  <2> QED
    BY <1>0, <1>1, <2>1, <2>3, <2>4, QuietStep, CallType
<1> QED
  BY <1>2, <1>3 DEF CheckCreate

(* A snapshot holds the credential, its owner and the project's row.       *)
LEMMA SnapshotStep ==
  ASSUME IInv, NEW r \in Requests, Snapshot(r)
  PROVE  IInv'
<1>0. ReqType /\ RequestOK(r) /\ TypeOK /\ OwnerIsKnown
  BY DEF IInv
<1>1. /\ ~At(r, "commit") /\ At(r, "snapshot")
      /\ UNCHANGED <<row, stored, grants, owner, held, used, disturbed>>
  BY DEF Snapshot, At
<1>2. PICK c \in req[r].todo :
       IF req[r].op = "promote"
         THEN IF owner[c] \in Projects
                THEN req' = [req EXCEPT ![r] = [req[r] EXCEPT !.pc = "touch", !.p = owner[c],
                                                   !.seen = {<<c, owner[c], row[owner[c]]>>}]]
                ELSE Answer(r)
         ELSE IF owner[c] = "tenant"
                THEN req' = [req EXCEPT ![r] = [req[r] EXCEPT !.pc = "touch",
                                                   !.seen = {<<c, owner[c], row[req[r].p]>>}]]
                ELSE Refused(r)
  BY DEF Snapshot
<1>3. c \in Credentials /\ owner[c] \in Owners
  BY <1>0 DEF ReqType, Requested, TypeOK, Owners
<1>4. req[r].op # "promote" => req[r].p \in Projects
  BY <1>0, <1>1 DEF RequestOK, Placed, At
<1>5. "touch" \in Pc
  BY DEF Pc
<1>6. CASE Answer(r)
  BY <1>0, <1>1, <1>6, AnswerFields, QuietMove
<1>7. CASE req[r].op # "promote" /\ Refused(r)
  <2>1. /\ ReqType' /\ \A q \in Requests \ {r} : req'[q] = req[q]
        /\ \/ req'[r].pc = "idle" /\ req'[r].p = NoOne
           \/ req'[r].pc = "deactivate" /\ req'[r].p = req[r].p
    BY <1>0, <1>7, RefusedFields
  <2> QED
    BY <1>1, <1>4, <1>7, <2>1, QuietMove DEF PlainPc, At
<1>8. ASSUME NEW p \in Projects, p = req[r].p \/ Known(p),
             NEW seen \in SUBSET (Credentials \X Owners \X Rows),
             req' = [req EXCEPT ![r] = [req[r] EXCEPT !.pc = "touch", !.p = p, !.seen = seen]],
             req[r].op = "promote" => \A t \in seen : t[2] = p
      PROVE  IInv'
  <2>1. [req[r] EXCEPT !.pc = "touch", !.p = p, !.seen = seen] \in Requested
    <3> DEFINE S == SUBSET (Credentials \X Owners \X Rows)
    <3>1. p \in Projects \cup {NoOne} /\ seen \in S /\ req[r] \in Requested
      BY <1>0 DEF ReqType
    <3> HIDE DEF S
    <3> QED
      BY <1>5, <3>1 DEF Requested, S
  <2>2. ReqType' /\ \A q \in Requests \ {r} : req'[q] = req[q]
    BY <1>0, <1>8, <2>1 DEF ReqType
  <2>3. req'[r].pc = "touch" /\ req'[r].p = p /\ req'[r].op = req[r].op /\ req'[r].seen = seen
    BY <1>0, <1>8 DEF ReqType, Requested
  <2>4. RequestOK(r)'
    <3>1. Known(p)
      BY <1>1, <1>8, KnownAt DEF At
    <3> QED
      BY <1>1, <1>8, <2>3, <3>1
      DEF RequestOK, Placed, Unborn, Known, Holding, Ungranted, Emptied, Removing, At
  <2>5. PlaceMoves(r)
    BY <1>8, <2>3 DEF PlaceMoves
  <2> QED
    BY <1>0, <1>1, <2>2, <2>4, <2>5, QuietStep, CallType
<1>9. CASE req[r].op = "promote" /\ owner[c] \in Projects
  <2>1. Known(owner[c]) /\ row[owner[c]] \in Rows
    BY <1>0, <1>3, <1>9 DEF OwnerIsKnown, TypeOK
  <2>2. {<<c, owner[c], row[owner[c]]>>} \in SUBSET (Credentials \X Owners \X Rows)
    BY <1>3, <2>1
  <2>3. \A t \in {<<c, owner[c], row[owner[c]]>>} : t[2] = owner[c]
    OBVIOUS
  <2> QED
    BY <1>2, <1>8, <1>9, <2>1, <2>2, <2>3
<1>10. CASE req[r].op # "promote" /\ owner[c] = "tenant"
  <2>1. row[req[r].p] \in Rows
    BY <1>0, <1>4, <1>10 DEF TypeOK
  <2>2. {<<c, owner[c], row[req[r].p]>>} \in SUBSET (Credentials \X Owners \X Rows)
    BY <1>3, <2>1
  <2>3. req' = [req EXCEPT ![r] = [req[r] EXCEPT !.pc = "touch", !.p = req[r].p,
                                                 !.seen = {<<c, owner[c], row[req[r].p]>>}]]
    BY <1>0, <1>2, <1>10 DEF ReqType, Requested
  <2> QED
    BY <1>4, <1>8, <1>10, <2>2, <2>3
<1> QED
  BY <1>2, <1>6, <1>7, <1>9, <1>10

(* The touch takes hold of an active row that nobody holds.                *)
LEMMA TouchStep ==
  ASSUME IInv, NEW r \in Requests, TouchProject(r)
  PROVE  IInv'
<1>0. ReqType /\ RequestOK(r) /\ TypeOK /\ HeldIsActive
  BY DEF IInv
<1> DEFINE p == req[r].p
<1>1. /\ ~At(r, "commit") /\ At(r, "touch") /\ RowFree(p)
      /\ UNCHANGED <<row, stored, grants, owner, used, disturbed>>
  BY DEF TouchProject, At
<1>2. p \in Projects
  BY <1>1, PlacedAt DEF At
<1>3. CASE Goto(r, "snapshot") /\ UNCHANGED held
  BY <1>0, <1>1, <1>2, <1>3, GotoFields, QuietMove DEF Pc, PlainPc, At
<1>4. CASE Refused(r) /\ UNCHANGED held
  <2>1. /\ ReqType' /\ \A q \in Requests \ {r} : req'[q] = req[q]
        /\ \/ req'[r].pc = "idle" /\ req'[r].p = NoOne
           \/ req'[r].pc = "deactivate" /\ req'[r].p = req[r].p
    BY <1>0, <1>4, RefusedFields
  <2> QED
    BY <1>1, <1>2, <1>4, <2>1, QuietMove DEF PlainPc, At
<1>5. CASE Goto(r, "commit") /\ Active(p) /\ held' = [held EXCEPT ![p] = r]
  <2>1. /\ ReqType' /\ req'[r].pc = "commit" /\ req'[r].p = p /\ req'[r].op = req[r].op
        /\ req'[r].seen = req[r].seen /\ \A q \in Requests \ {r} : req'[q] = req[q]
    BY <1>0, <1>5, GotoFields DEF Pc
  <2>2. held'[p] = r /\ \A s \in Projects \ {p} : held'[s] = held[s]
    BY <1>0, <1>2, <1>5 DEF TypeOK
  <2>3. DataTypes'
    BY <1>0, <1>1, <1>5, <2>2 DEF TypeOK, DataTypes, Owners, Present
  <2>4. ASSUME NEW s \in Projects
        PROVE  RowMoves(r, s) /\ StoreMoves(s) /\ HoldMoves(r, s)
    <3>1. RowMoves(r, s) /\ StoreMoves(s)
      BY <1>1 DEF RowMoves, StoreMoves, Active, Present
    <3>2. HoldMoves(r, s)
      <4>1. CASE s = p
        BY <1>1, <1>5, <2>1, <2>2, <4>1 DEF HoldMoves, RowFree, Active, Present, At
      <4>2. CASE s # p
        BY <1>0, <1>1, <2>2, <4>2, NamesAssumption
        DEF HoldMoves, HeldIsActive, Active, Present, TypeOK, At
      <4> QED
        BY <4>1, <4>2
    <3> QED
      BY <3>1, <3>2
  <2>5. Keeps(r)
    BY <1>1, <2>1, <2>4 DEF Keeps, PlaceMoves
  <2>6. RequestOK(r)'
    BY <1>0, <1>1, <1>2, <2>1, <2>2
    DEF RequestOK, Placed, Unborn, Known, Holding, Ungranted, Emptied, Removing, At
  <2> QED
    BY <2>1, <2>3, <2>5, <2>6, StepKeeps
<1> QED
  BY <1>3, <1>4, <1>5 DEF TouchProject

(* A transaction ends, committed or not.                                   *)
LEMMA ReleaseHolds ==
  ASSUME IInv, NEW r \in Requests, Release(r), UNCHANGED row
  PROVE  /\ held' \in [Projects -> Requests \cup {NoOne}]
         /\ \A p \in Projects : HoldMoves(r, p)
BY NamesAssumption DEF IInv, TypeOK, Release, HoldMoves, HeldIsActive, Active, Present

(* A transaction ends for r, with a grant or a promotion or without.       *)
LEMMA ReleaseStep ==
  ASSUME IInv, NEW r \in Requests, Release(r), UNCHANGED <<row, stored, disturbed>>,
         CallFails \/ UNCHANGED used,
         ReqType', \A q \in Requests \ {r} : req'[q] = req[q],
         \/ req'[r].pc = "idle" /\ req'[r].p = NoOne
         \/ /\ req'[r].pc \in PlainPc /\ req'[r].p = req[r].p /\ req[r].p \in Projects
            /\ req[r].pc \notin {"check", "insert"},
         grants' \subseteq Projects \X Credentials,
         \A g \in grants' : g \in grants \/ Active(g[1]),
         owner' \in [Credentials -> Owners],
         \A c \in Credentials : owner'[c] \in {owner[c], "tenant", "revoked", "gone"}
  PROVE  IInv'
<1>0. TypeOK /\ HeldIsActive
  BY DEF IInv
<1>1. used' \in [ops : 0..MaxOps, faults : 0..MaxFaults]
  BY <1>0, CallType
<1>2. RequestOK(r)' /\ PlaceMoves(r)
  BY IdleOK, PlainOK, KnownAt DEF Known, PlaceMoves
<1>3. DataTypes'
  BY <1>0, <1>1, ReleaseHolds DEF TypeOK, DataTypes, Owners, Present
<1>4. ASSUME NEW p \in Projects
      PROVE  RowMoves(r, p) /\ StoreMoves(p) /\ HoldMoves(r, p)
  BY ReleaseHolds DEF RowMoves, StoreMoves, Active, Present
<1>5. Keeps(r)
  BY <1>2, <1>4 DEF Keeps
<1> QED
  BY <1>2, <1>3, <1>5, StepKeeps

LEMMA CommitGrantStep ==
  ASSUME IInv, NEW r \in Requests, CommitGrant(r)
  PROVE  IInv'
<1>0. ReqType /\ RequestOK(r) /\ TypeOK /\ HeldIsActive
  BY DEF IInv
<1> DEFINE p == req[r].p
<1>1. At(r, "commit") /\ Release(r) /\ UNCHANGED <<row, stored, used, disturbed>>
  BY DEF CommitGrant
<1>2. p \in Projects /\ held[p] = r /\ Active(p)
  BY <1>0, <1>1, PlacedAt, NamesAssumption DEF At, RequestOK, Holding, HeldIsActive
<1>3. PICK t \in req[r].seen :
       IF req[r].op = "promote" /\ owner[t[1]] # t[2]
         THEN Goto(r, "snapshot") /\ UNCHANGED <<grants, owner>>
         ELSE /\ grants' = grants \cup {<<p, t[1]>>}
              /\ Granted(r, t[1])
              /\ owner' = IF req[r].op = "promote" THEN [owner EXCEPT ![t[1]] = "tenant"] ELSE owner
  BY DEF CommitGrant
<1>4. t[1] \in Credentials
  BY <1>0, <1>3 DEF ReqType, Requested
<1>5. CASE Goto(r, "snapshot") /\ UNCHANGED <<grants, owner>>
  <2>1. /\ ReqType' /\ req'[r].pc = "snapshot" /\ req'[r].p = p
        /\ \A q \in Requests \ {r} : req'[q] = req[q]
    BY <1>0, <1>5, GotoFields DEF Pc
  <2>2. /\ grants' \subseteq Projects \X Credentials /\ owner' \in [Credentials -> Owners]
        /\ \A g \in grants' : g \in grants
        /\ \A c \in Credentials : owner'[c] = owner[c]
    BY <1>0, <1>5 DEF TypeOK, Owners
  <2> QED
    BY <1>1, <1>2, <2>1, <2>2, ReleaseStep DEF PlainPc, At
<1>6. CASE /\ grants' = grants \cup {<<p, t[1]>>}
           /\ Granted(r, t[1])
           /\ owner' = IF req[r].op = "promote" THEN [owner EXCEPT ![t[1]] = "tenant"] ELSE owner
  <2>1. /\ ReqType' /\ \A q \in Requests \ {r} : req'[q] = req[q]
        /\ \/ req'[r].pc = "idle" /\ req'[r].p = NoOne
           \/ req'[r].pc \in {"member", "snapshot"} /\ req'[r].p = p
    BY <1>0, <1>4, <1>6, GrantedFields
  <2>2. /\ grants' \subseteq Projects \X Credentials
        /\ \A g \in grants' : g \in grants \/ Active(g[1])
    BY <1>0, <1>2, <1>4, <1>6 DEF TypeOK
  <2>3. /\ owner' \in [Credentials -> Owners]
        /\ \A c \in Credentials : owner'[c] \in {owner[c], "tenant"}
    BY <1>0, <1>4, <1>6 DEF TypeOK, Owners
  <2> QED
    BY <1>1, <1>2, <2>1, <2>2, <2>3, ReleaseStep DEF PlainPc, At
<1> QED
  BY <1>3, <1>5, <1>6

LEMMA AbortStep ==
  ASSUME IInv, NEW r \in Requests, GrantFails(r) \/ Stop(r)
  PROVE  IInv'
<1>0. ReqType /\ RequestOK(r) /\ TypeOK
  BY DEF IInv
<1>1. /\ Release(r) /\ CallFails /\ UNCHANGED <<row, stored, grants, owner, disturbed>>
  BY DEF GrantFails, Stop
<1>2. /\ grants' \subseteq Projects \X Credentials /\ owner' \in [Credentials -> Owners]
      /\ \A g \in grants' : g \in grants
      /\ \A c \in Credentials : owner'[c] = owner[c]
  BY <1>0, <1>1 DEF TypeOK, Owners
<1>3. CASE Answer(r)
  BY <1>0, <1>1, <1>2, <1>3, AnswerFields, ReleaseStep
<1>4. CASE req[r].pc \in {"snapshot", "touch", "commit"} /\ Refused(r)
  <2>1. /\ ReqType' /\ \A q \in Requests \ {r} : req'[q] = req[q]
        /\ \/ req'[r].pc = "idle" /\ req'[r].p = NoOne
           \/ req'[r].pc = "deactivate" /\ req'[r].p = req[r].p /\ req[r].op = "create"
    BY <1>0, <1>4, RefusedFields
  <2>2. req[r].op = "create" => req[r].p \in Projects
    BY <1>0, <1>4 DEF RequestOK, Placed, At
  <2> QED
    BY <1>1, <1>2, <1>4, <2>1, <2>2, ReleaseStep DEF PlainPc
<1>5. CASE req[r].pc \in {"snapshot", "touch", "commit"} /\ Goto(r, "snapshot")
  <2>1. /\ ReqType' /\ req'[r].pc = "snapshot" /\ req'[r].p = req[r].p
        /\ req'[r].op = req[r].op /\ \A q \in Requests \ {r} : req'[q] = req[q]
    BY <1>0, <1>5, GotoFields DEF Pc
  <2>2. CASE req[r].p \in Projects
    BY <1>1, <1>2, <1>5, <2>1, <2>2, ReleaseStep DEF PlainPc
  <2>3. CASE req[r].p \notin Projects
    <3>1. At(r, "snapshot") /\ req[r].op = "promote"
      BY <1>0, <1>5, <2>3 DEF RequestOK, Placed, At
    <3>2. held' = held /\ ~At(r, "commit")
      BY <1>0, <1>1, <3>1, NamesAssumption DEF TypeOK, Release, At
    <3>3. RequestOK(r)' /\ PlaceMoves(r)
      BY <2>1, <2>3, <3>1
      DEF RequestOK, Placed, Unborn, Holding, Ungranted, Emptied, Removing, At, PlaceMoves
    <3> QED
      BY <1>0, <1>1, <2>1, <3>2, <3>3, CallType, QuietStep
  <2> QED
    BY <2>2, <2>3
<1> QED
  BY <1>3, <1>4, <1>5 DEF GrantFails, Stop

-----------------------------------------------------------------------------
(* Steps outside a transaction that write.                                 *)

LEMMA WriteStep ==
  ASSUME IInv, NEW r \in Requests, ~At(r, "commit"), UNCHANGED held,
         DataTypes', ReqType', \A q \in Requests \ {r} : req'[q] = req[q],
         RequestOK(r)', PlaceMoves(r),
         \A p \in Projects : /\ RowMoves(r, p) /\ StoreMoves(p)
                             /\ held[p] # NoOne => Active(p)',
         \A g \in grants' : g \in grants,
         \A c \in Credentials : owner'[c] \in {owner[c], "tenant", "revoked", "gone"}
  PROVE  IInv'
<1>1. Keeps(r)
  BY HoldKept DEF Keeps
<1> QED
  BY <1>1, StepKeeps

LEMMA InsertRowStep ==
  ASSUME IInv, NEW r \in Requests, InsertRow(r)
  PROVE  IInv'
<1>0. ReqType /\ RequestOK(r) /\ TypeOK /\ HeldIsActive /\ OwnerIsKnown
  BY DEF IInv
<1> DEFINE p == req[r].p
<1>1. /\ At(r, "insert") /\ ~At(r, "commit")
      /\ UNCHANGED <<stored, grants, owner, held, used, disturbed>>
  BY DEF InsertRow, At
<1>2. p \in Projects /\ p # NoOne /\ row[p].there = "unborn" /\ \A q \in Requests \ {r} : req[q].p # p
  BY <1>0, <1>1, PlacedAt, NamesAssumption DEF At, RequestOK, Unborn
<1>3. /\ ReqType' /\ req'[r].pc \in PlainPc /\ req'[r].p = p
      /\ \A q \in Requests \ {r} : req'[q] = req[q]
  <2>1. PICK pc \in {"member", "snapshot"} : Goto(r, pc)
    BY DEF InsertRow
  <2> QED
    BY <1>0, <2>1, GotoFields DEF Pc, PlainPc
<1>4. req[r].slug \in Slugs
  BY <1>0, <1>1 DEF RequestOK, Unborn, At
<1>5. /\ row'[p] = [there |-> "present", active |-> TRUE, slug |-> req[r].slug]
      /\ \A s \in Projects \ {p} : row'[s] = row[s]
      /\ row' \in [Projects -> Rows]
  BY <1>0, <1>2, <1>4 DEF InsertRow, TypeOK, Rows
<1>6. RequestOK(r)' /\ PlaceMoves(r)
  BY <1>2, <1>3, <1>5, PlainOK DEF PlaceMoves
<1>7. DataTypes'
  BY <1>0, <1>1, <1>4, <1>5 DEF TypeOK, DataTypes, Owners, Present
<1>8. ~BeingRemoved(p)
  BY <1>1, <1>2 DEF BeingRemoved, At, Removing
<1>9. \A s \in Projects : /\ RowMoves(r, s) /\ StoreMoves(s)
                          /\ held[s] # NoOne => Active(s)'
  BY <1>0, <1>1, <1>2, <1>5, <1>8 DEF RowMoves, StoreMoves, Active, Present, HeldIsActive
<1> QED
  BY <1>1, <1>3, <1>6, <1>7, <1>9, WriteStep

(* A write of a record or of a membership, which counts as written under a *)
(* deletion.                                                               *)
LEMMA StoringStep ==
  ASSUME IInv, NEW r \in Requests, ~At(r, "commit"), NEW what \in SUBSET Stores,
         req[r].p \in Projects,
         stored' = [stored EXCEPT ![req[r].p] = @ \cup what],
         Disturb(req[r].p, "written"),
         UNCHANGED <<row, grants, owner, held>>, CallFails \/ UNCHANGED used,
         ReqType', \A q \in Requests \ {r} : req'[q] = req[q],
         RequestOK(r)', PlaceMoves(r)
  PROVE  IInv'
<1>0. TypeOK /\ HeldIsActive
  BY DEF IInv
<1>1. used' \in [ops : 0..MaxOps, faults : 0..MaxFaults]
  BY <1>0, CallType
<1>2. stored' \in [Projects -> SUBSET Stores]
  BY <1>0 DEF TypeOK
<1>3. disturbed' \in [Projects -> SUBSET {"activated", "written"}]
  BY <1>0 DEF TypeOK, Disturb
<1>4. DataTypes'
  BY <1>0, <1>1, <1>2, <1>3 DEF TypeOK, DataTypes, Owners, Present
<1>5. ASSUME NEW p \in Projects
      PROVE  RowMoves(r, p) /\ StoreMoves(p) /\ (held[p] # NoOne => Active(p)')
  <2>1. RowMoves(r, p) /\ (held[p] # NoOne => Active(p)')
    BY <1>0 DEF RowMoves, Active, Present, HeldIsActive
  <2>2. StoreMoves(p)
    BY <1>0 DEF StoreMoves, Disturb, TypeOK
  <2> QED
    BY <2>1, <2>2
<1> QED
  BY <1>4, <1>5, WriteStep

LEMMA StoreStep ==
  ASSUME IInv, NEW r \in Requests, Write(r) \/ InsertMembership(r) \/ Populate(r)
  PROVE  IInv'
<1>0. ReqType /\ req[r].p \in Projects /\ ~At(r, "commit") /\ Known(req[r].p)
  BY PlacedAt, KnownAt DEF IInv, Write, InsertMembership, Populate, At
<1>1. CASE Write(r)
  <2>1. /\ ReqType' /\ \A q \in Requests \ {r} : req'[q] = req[q]
        /\ RequestOK(r)' /\ PlaceMoves(r)
    BY <1>0, <1>1, AnswerFields, IdleOK DEF Write
  <2>2. {"collections", "rows"} \in SUBSET Stores
    BY DEF Stores
  <2> QED
    BY <1>0, <1>1, <2>1, <2>2, StoringStep DEF Write
<1>2. CASE InsertMembership(r)
  <2>1. /\ ReqType' /\ \A q \in Requests \ {r} : req'[q] = req[q]
        /\ req'[r].pc = "populate" /\ req'[r].p = req[r].p
    BY <1>0, <1>2, GotoFields DEF InsertMembership, Pc
  <2>2. RequestOK(r)' /\ PlaceMoves(r)
    BY <1>0, <1>2, <2>1, PlainOK DEF PlainPc, PlaceMoves, InsertMembership, Known
  <2>3. {"memberships"} \in SUBSET Stores
    BY DEF Stores
  <2> QED
    BY <1>0, <1>2, <2>1, <2>2, <2>3, StoringStep DEF InsertMembership
<1>3. CASE Populate(r)
  <2>1. CallFails \/ UNCHANGED used
    BY <1>3 DEF Populate
  <2>2. /\ ReqType' /\ \A q \in Requests \ {r} : req'[q] = req[q]
        /\ RequestOK(r)' /\ PlaceMoves(r)
    <3>1. CASE Answer(r)
      BY <1>0, <3>1, AnswerFields, IdleOK
    <3>2. CASE Goto(r, "deactivate")
      <4>1. /\ ReqType' /\ \A q \in Requests \ {r} : req'[q] = req[q]
            /\ req'[r].pc = "deactivate" /\ req'[r].p = req[r].p
        BY <1>0, <3>2, GotoFields DEF Pc
      <4> QED
        BY <1>0, <1>3, <4>1, PlainOK DEF PlainPc, PlaceMoves, Populate, Known
    <3> QED
      BY <1>3, <3>1, <3>2 DEF Populate
  <2>3. {"collections"} \in SUBSET Stores
    BY DEF Stores
  <2> QED
    BY <1>0, <1>3, <2>1, <2>2, <2>3, StoringStep DEF Populate
<1> QED
  BY <1>1, <1>2, <1>3

(* A creation or an update that ends or goes on without having written.    *)
LEMMA LookStep ==
  ASSUME IInv, NEW r \in Requests,
         \/ CreateFails(r) \/ ReadProject(r) \/ CheckUpdate(r) \/ Invalidate(r) \/ JoinErrors(r)
  PROVE  IInv'
<1>0. ReqType /\ RequestOK(r) /\ TypeOK
  BY DEF IInv
<1>1. /\ ~At(r, "commit") /\ req[r].pc \notin {"idle", "snapshot"}
      /\ UNCHANGED <<row, stored, grants, owner, held, disturbed>>
      /\ CallFails \/ UNCHANGED used
  BY DEF CreateFails, ReadProject, CheckUpdate, Invalidate, JoinErrors, At
<1>2. req[r].p \in Projects
  BY <1>1, PlacedAt
<1>3. CASE Answer(r)
  BY <1>0, <1>1, <1>3, AnswerFields, QuietMove
<1>4. ASSUME NEW pc \in PlainPc, Goto(r, pc), req[r].pc \notin {"check", "insert"}
      PROVE  IInv'
  <2>1. PlainPc \subseteq Pc
    BY DEF PlainPc, Pc
  <2> QED
    BY <1>0, <1>1, <1>2, <1>4, <2>1, GotoFields, QuietMove
<1>5. CASE CreateFails(r) \/ CheckUpdate(r) \/ Invalidate(r)
  BY <1>3, <1>4, <1>5 DEF CreateFails, CheckUpdate, Invalidate, PlainPc, At
<1>6. CASE ReadProject(r)
  <2>1. CASE Present(req[r].p) /\ ~Answer(r)
    <3> DEFINE next == [req[r] EXCEPT !.pc = IF req[r].op = "delete" THEN "deactivate" ELSE "unique",
                                      !.old = row[req[r].p].slug]
    <3>1. req' = [req EXCEPT ![r] = next]
      BY <1>0, <1>6, <2>1 DEF ReadProject, ReqType
    <3>2. row[req[r].p].slug \in Slugs
      BY <1>0, <1>2, <2>1 DEF TypeOK
    <3>3. {"deactivate", "unique"} \subseteq Pc
      BY DEF Pc
    <3>4. next \in Requested
      BY <1>0, <3>2, <3>3 DEF ReqType, Requested
    <3>5. next.pc \in {"deactivate", "unique"} /\ next.p = req[r].p
      BY <1>0 DEF ReqType, Requested
    <3> HIDE DEF next
    <3>6. /\ ReqType' /\ req'[r] = next /\ \A q \in Requests \ {r} : req'[q] = req[q]
      BY <1>0, <3>1, <3>4 DEF ReqType
    <3> QED
      BY <1>1, <1>2, <1>6, <3>5, <3>6, QuietMove DEF PlainPc, ReadProject, At
  <2> QED
    BY <1>3, <1>6, <2>1 DEF ReadProject
<1>7. CASE JoinErrors(r) /\ ~Answer(r)
  <2>1. At(r, "joined") /\ ~req[r].failed /\ Goto(r, "memberships")
    BY <1>7 DEF JoinErrors
  <2>2. /\ ReqType' /\ req'[r].pc = "memberships" /\ req'[r].p = req[r].p
        /\ req'[r].op = req[r].op /\ req'[r].failed = req[r].failed
        /\ \A q \in Requests \ {r} : req'[q] = req[q]
    BY <1>0, <2>1, GotoFields DEF Pc, Removing
  <2>3. RequestOK(r)'
    BY <1>0, <1>1, <1>2, <2>1, <2>2 DEF RequestOK, Placed, Unborn, Known, Holding, Ungranted,
       Emptied, Removing, At, Active, Present, Reactivated
  <2> QED
    BY <1>0, <1>1, <2>2, <2>3, QuietStep, CallType DEF PlaceMoves
<1> QED
  BY <1>3, <1>5, <1>6, <1>7

(* A credential changes hands, without a project taking part.              *)
LEMMA CredentialStep ==
  ASSUME IInv, NEW r \in Requests, DisconnectCredential(r) \/ RevokeCredential(r)
  PROVE  IInv'
<1>0. ReqType /\ RequestOK(r) /\ TypeOK /\ HeldIsActive
  BY DEF IInv
<1>1. /\ At(r, "idle") /\ ~At(r, "commit") /\ UNCHANGED <<row, stored, held, req, disturbed>>
      /\ used' \in [ops : 0..MaxOps, faults : 0..MaxFaults]
      /\ grants' \subseteq grants
      /\ owner' \in [Credentials -> Owners]
      /\ \A c \in Credentials : owner'[c] \in {owner[c], "revoked"}
  <2>1. CASE DisconnectCredential(r)
    BY <1>0, <2>1, BoundsAssumption DEF DisconnectCredential, TypeOK, Owners, At
  <2>2. CASE RevokeCredential(r)
    <3>1. PICK c \in Credentials : owner' = [owner EXCEPT ![c] = "revoked"]
      BY <2>2 DEF RevokeCredential
    <3>2. /\ owner' \in [Credentials -> Owners]
          /\ \A d \in Credentials : owner'[d] \in {owner[d], "revoked"}
      BY <1>0, <3>1 DEF TypeOK, Owners
    <3>3. used' \in [ops : 0..MaxOps, faults : 0..MaxFaults]
      BY <1>0, <2>2, BoundsAssumption DEF RevokeCredential, TypeOK
    <3> QED
      BY <2>2, <3>2, <3>3 DEF RevokeCredential, At
  <2> QED
    BY <2>1, <2>2
<1>2. DataTypes'
  BY <1>0, <1>1 DEF TypeOK, DataTypes, Owners, Present
<1>3. \A p \in Projects : /\ RowMoves(r, p) /\ StoreMoves(p)
                          /\ held[p] # NoOne => Active(p)'
  BY <1>0, <1>1 DEF RowMoves, StoreMoves, Active, Present, HeldIsActive
<1>4. RequestOK(r)' /\ PlaceMoves(r) /\ ReqType'
  BY <1>0, <1>1 DEF RequestOK, Placed, Unborn, Known, Holding, Ungranted, Emptied, Removing,
     At, PlaceMoves, ReqType
<1> QED
  BY <1>1, <1>2, <1>3, <1>4, WriteStep

LEMMA UpdateRowStep ==
  ASSUME IInv, NEW r \in Requests, UpdateRow(r)
  PROVE  IInv'
<1>0. ReqType /\ RequestOK(r) /\ TypeOK /\ HeldIsActive
  BY DEF IInv
<1> DEFINE p == req[r].p
<1>1. /\ At(r, "update") /\ ~At(r, "commit") /\ RowFree(p)
      /\ UNCHANGED <<stored, grants, owner, held, used>>
  BY DEF UpdateRow, At
<1>2. p \in Projects
  BY <1>1, PlacedAt DEF At
<1>3. CASE Answer(r) /\ UNCHANGED <<row, disturbed>>
  BY <1>0, <1>1, <1>3, AnswerFields, QuietMove
<1>4. CASE Present(p)
  <2>1. /\ row' = [row EXCEPT ![p].slug = IF req[r].slug = NoOne THEN @ ELSE req[r].slug,
                              ![p].active = IF req[r].active = "keep" THEN @ ELSE req[r].active = "on"]
        /\ Goto(r, "invalidate")
        /\ IF req[r].active = "on" THEN Disturb(p, "activated") ELSE UNCHANGED disturbed
    BY <1>4 DEF UpdateRow
  <2>2. /\ ReqType' /\ req'[r].pc = "invalidate" /\ req'[r].p = p
        /\ \A q \in Requests \ {r} : req'[q] = req[q]
    BY <1>0, <2>1, GotoFields DEF Pc
  <2>3. req[r].slug \in Slugs \cup {NoOne} /\ req[r].active \in {"keep", "on", "off"}
    BY <1>0 DEF ReqType, Requested
  <2>4. row[p] \in Rows /\ row[p].slug \in Slugs /\ row[p].there = "present"
    BY <1>0, <1>2, <1>4 DEF TypeOK, Present
  <2>5. /\ row'[p].there = "present" /\ row'[p].slug \in Slugs /\ row'[p] \in Rows
        /\ row'[p].active => row[p].active \/ req[r].active = "on"
        /\ \A s \in Projects \ {p} : row'[s] = row[s]
        /\ row' \in [Projects -> Rows]
    <3> DEFINE slug == IF req[r].slug = NoOne THEN row[p].slug ELSE req[r].slug
               on == IF req[r].active = "keep" THEN row[p].active ELSE req[r].active = "on"
    <3>1. slug \in Slugs /\ on \in BOOLEAN
      BY <2>3, <2>4 DEF Rows
    <3>2. on => row[p].active \/ req[r].active = "on"
      OBVIOUS
    <3> DEFINE next == [row[p] EXCEPT !.slug = slug, !.active = on]
    <3>3. row' = [row EXCEPT ![p] = next]
      BY <1>0, <1>2, <2>1, <2>4 DEF TypeOK, Rows
    <3> HIDE DEF slug, on
    <3>4. /\ next \in Rows /\ next.there = "present"
          /\ next.slug \in Slugs /\ next.active = on
      BY <2>4, <3>1 DEF Rows
    <3> HIDE DEF next
    <3>5. row'[p] = next /\ (\A s \in Projects \ {p} : row'[s] = row[s]) /\ row' \in [Projects -> Rows]
      BY <1>0, <1>2, <3>3, <3>4 DEF TypeOK
    <3> QED
      BY <3>2, <3>4, <3>5
  <2>6. RequestOK(r)' /\ PlaceMoves(r)
    BY <1>2, <2>2, <2>5, PlainOK DEF PlainPc, PlaceMoves
  <2>7. /\ disturbed' \in [Projects -> SUBSET {"activated", "written"}]
        /\ \A s \in Projects : disturbed[s] \subseteq disturbed'[s]
        /\ req[r].active = "on" /\ BeingRemoved(p) => "activated" \in disturbed'[p]
    <3>1. CASE req[r].active = "on"
      BY <1>0, <1>2, <2>1, <3>1 DEF TypeOK, Disturb
    <3>2. CASE req[r].active # "on"
      BY <1>0, <2>1, <3>2 DEF TypeOK
    <3> QED
      BY <3>1, <3>2
  <2>8. DataTypes'
    BY <1>0, <1>1, <2>5, <2>7 DEF TypeOK, DataTypes, Owners, Present
  <2>9. ASSUME NEW s \in Projects
        PROVE  RowMoves(r, s) /\ StoreMoves(s) /\ (held[s] # NoOne => Active(s)')
    <3>1. StoreMoves(s)
      BY <1>1, <2>7 DEF StoreMoves
    <3>2. CASE s = p
      BY <1>1, <2>4, <2>5, <2>7, <3>1, <3>2 DEF RowMoves, Active, Present, RowFree, Reactivated
    <3>3. CASE s # p
      BY <1>0, <2>5, <3>1, <3>3 DEF RowMoves, Active, Present, HeldIsActive
    <3> QED
      BY <3>2, <3>3, <3>1
  <2> QED
    BY <1>1, <2>2, <2>6, <2>8, <2>9, WriteStep
<1> QED
  BY <1>3, <1>4 DEF UpdateRow

-----------------------------------------------------------------------------
(* The steps of a deletion.                                                *)

LEMMA DeactivateStep ==
  ASSUME IInv, NEW r \in Requests, Deactivate(r)
  PROVE  IInv'
<1>0. ReqType /\ RequestOK(r) /\ TypeOK /\ HeldIsActive
  BY DEF IInv
<1> DEFINE p == req[r].p
<1>1. /\ At(r, "deactivate") /\ ~At(r, "commit") /\ RowFree(p)
      /\ UNCHANGED <<stored, grants, owner, held, used, disturbed>>
  BY DEF Deactivate, At
<1>2. p \in Projects
  BY <1>1, PlacedAt DEF At
<1>3. /\ ReqType' /\ req'[r].pc = "list" /\ req'[r].p = p /\ req'[r].op = req[r].op
      /\ \A q \in Requests \ {r} : req'[q] = req[q]
  BY <1>0, GotoFields DEF Deactivate, Pc, Removing
<1>4. /\ row' \in [Projects -> Rows]
      /\ row'[p].there = row[p].there /\ row'[p].slug = row[p].slug
      /\ \A s \in Projects \ {p} : row'[s] = row[s]
      /\ ~(row'[p].there = "present" /\ row'[p].active)
  <2>1. row[p] \in Rows
    BY <1>0, <1>2 DEF TypeOK
  <2>2. CASE Present(p)
    <3> DEFINE next == [row[p] EXCEPT !.active = FALSE]
    <3>1. row' = [row EXCEPT ![p] = next]
      BY <1>0, <1>2, <2>1, <2>2 DEF Deactivate, TypeOK, Rows
    <3>2. next \in Rows /\ next.there = row[p].there /\ next.slug = row[p].slug /\ ~next.active
      BY <2>1 DEF Rows
    <3> HIDE DEF next
    <3> QED
      BY <1>0, <1>2, <3>1, <3>2 DEF TypeOK
  <2>3. CASE ~Present(p)
    BY <1>0, <1>2, <2>1, <2>3 DEF Deactivate, TypeOK, Present
  <2> QED
    BY <2>2, <2>3
<1>5. DataTypes'
  BY <1>0, <1>1, <1>2, <1>4 DEF TypeOK, DataTypes, Owners, Present
<1>6. ASSUME NEW s \in Projects
      PROVE  RowMoves(r, s) /\ StoreMoves(s) /\ (held[s] # NoOne => Active(s)')
  <2>1. CASE s = p
    BY <1>1, <1>4, <2>1 DEF RowMoves, StoreMoves, RowFree, Active, Present
  <2>2. CASE s # p
    BY <1>0, <1>1, <1>4, <2>2 DEF RowMoves, StoreMoves, Active, Present, HeldIsActive
  <2> QED
    BY <2>1, <2>2
<1>7. RequestOK(r)' /\ PlaceMoves(r)
  BY <1>1, <1>2, <1>3, <1>4, KnownAt
  DEF Active, Present, RequestOK, Placed, Unborn, Known, Holding, Ungranted, Emptied, Removing, At, PlaceMoves
<1> QED
  BY <1>1, <1>3, <1>5, <1>6, <1>7, WriteStep

LEMMA ListStep ==
  ASSUME IInv, NEW r \in Requests, ListCollections(r)
  PROVE  IInv'
<1>0. ReqType /\ RequestOK(r) /\ TypeOK
  BY DEF IInv
<1>1. /\ At(r, "list") /\ ~At(r, "commit") /\ UNCHANGED <<row, stored, grants, owner, held, disturbed>>
      /\ CallFails \/ UNCHANGED used
  BY DEF ListCollections, At
<1>2. req[r].p \in Projects
  BY <1>1, PlacedAt DEF At
<1>3. "drop" \in Pc
  BY DEF Pc, Removing
<1>4. /\ ReqType' /\ \A q \in Requests \ {r} : req'[q] = req[q]
      /\ req'[r].pc = "drop" /\ req'[r].p = req[r].p /\ req'[r].op = req[r].op
      /\ req'[r].failed \/ req'[r].listed \/ "collections" \notin stored[req[r].p]
  <2>1. CASE req' = [req EXCEPT ![r].pc = "drop", ![r].listed = "collections" \in stored[req[r].p]]
    <3> DEFINE listed == "collections" \in stored[req[r].p]
               next == [req[r] EXCEPT !.pc = "drop", !.listed = listed]
    <3>1. req' = [req EXCEPT ![r] = next]
      BY <1>0, <2>1 DEF ReqType, Requested
    <3>2. listed \in BOOLEAN /\ (listed \/ "collections" \notin stored[req[r].p])
      OBVIOUS
    <3> HIDE DEF listed
    <3>3. /\ next \in Requested /\ next.listed = listed
          /\ next.pc = "drop" /\ next.p = req[r].p /\ next.op = req[r].op
      BY <1>0, <1>3, <3>2 DEF ReqType, Requested
    <3> HIDE DEF next
    <3> QED
      BY <1>0, <3>1, <3>2, <3>3 DEF ReqType
  <2>2. CASE req' = [req EXCEPT ![r].pc = "drop", ![r].failed = TRUE]
    <3> DEFINE next == [req[r] EXCEPT !.pc = "drop", !.failed = TRUE]
    <3>1. req' = [req EXCEPT ![r] = next]
      BY <1>0, <2>2 DEF ReqType, Requested
    <3>2. next \in Requested
      BY <1>0, <1>3 DEF ReqType, Requested
    <3>3. next.pc = "drop" /\ next.p = req[r].p /\ next.op = req[r].op /\ next.failed
      BY <1>0 DEF ReqType, Requested
    <3> HIDE DEF next
    <3> QED
      BY <1>0, <3>1, <3>2, <3>3 DEF ReqType
  <2> QED
    BY <2>1, <2>2 DEF ListCollections
<1>5. RequestOK(r)' /\ PlaceMoves(r)
  BY <1>0, <1>1, <1>2, <1>4 DEF RequestOK, Placed, Unborn, Known, Holding, Ungranted,
     Emptied, Removing, At, Active, Present, Reactivated, PlaceMoves
<1> QED
  BY <1>0, <1>1, <1>4, <1>5, QuietStep, CallType

(* A call of the cleanup either fails, and is remembered, or does what it  *)
(* is for.                                                                 *)
LEMMA CleanupFields ==
  ASSUME ReqType, NEW r \in Requests, NEW to \in Pc,
         Goto(r, to) \/ req' = [req EXCEPT ![r].pc = to, ![r].failed = TRUE]
  PROVE  /\ ReqType' /\ \A q \in Requests \ {r} : req'[q] = req[q]
         /\ req'[r].pc = to /\ req'[r].p = req[r].p /\ req'[r].op = req[r].op
         /\ req'[r].failed \/ (~req[r].failed /\ req'[r].listed = req[r].listed)
         /\ req' = [req EXCEPT ![r].pc = to, ![r].failed = TRUE] => req'[r].failed
<1> DEFINE next == [req[r] EXCEPT !.pc = to, !.failed = TRUE]
<1>1. next.pc = to /\ next.p = req[r].p /\ next.op = req[r].op /\ next.failed
  BY DEF ReqType, Requested
<1>2. next \in Requested
  <2>1. req[r] \in Requested /\ TRUE \in BOOLEAN
    BY DEF ReqType
  <2> QED
    BY <2>1 DEF Requested
<1>3. req' = [req EXCEPT ![r].pc = to, ![r].failed = TRUE] => req' = [req EXCEPT ![r] = next]
  BY DEF ReqType, Requested
<1> HIDE DEF next
<1>4. CASE req' = [req EXCEPT ![r].pc = to, ![r].failed = TRUE]
  BY <1>1, <1>2, <1>3, <1>4 DEF ReqType
<1>5. CASE req' # [req EXCEPT ![r].pc = to, ![r].failed = TRUE]
  BY <1>5, GotoFields
<1> QED
  BY <1>4, <1>5

(* What a step of the removal has to show: the stores only shrink, as do   *)
(* the grants, and the request keeps its promise.                          *)
LEMMA RemovalStep ==
  ASSUME IInv, NEW r \in Requests, req[r].pc \in Removing, req'[r].pc \in Removing,
         UNCHANGED <<row, held, disturbed>>, CallFails \/ UNCHANGED used,
         ReqType', \A q \in Requests \ {r} : req'[q] = req[q],
         req'[r].p = req[r].p, req'[r].op = req[r].op,
         stored' \in [Projects -> SUBSET Stores],
         \A p \in Projects : stored'[p] \subseteq stored[p],
         grants' \subseteq grants,
         owner' \in [Credentials -> Owners],
         \A c \in Credentials : owner'[c] \in {owner[c], "gone"},
         Ungranted(r)', Emptied(r)'
  PROVE  IInv'
<1>0. ReqType /\ RequestOK(r) /\ TypeOK /\ HeldIsActive
  BY DEF IInv
<1>1. ~At(r, "commit") /\ req[r].p \in Projects
  BY PlacedAt DEF At, Removing
<1>2. used' \in [ops : 0..MaxOps, faults : 0..MaxFaults]
  BY <1>0, CallType
<1>3. DataTypes'
  BY <1>0, <1>2 DEF TypeOK, DataTypes, Owners, Present
<1>4. \A p \in Projects : /\ RowMoves(r, p) /\ StoreMoves(p)
                          /\ held[p] # NoOne => Active(p)'
  BY <1>0 DEF RowMoves, StoreMoves, Active, Present, HeldIsActive
<1>5. RequestOK(r)' /\ PlaceMoves(r)
  BY <1>0, <1>1 DEF RequestOK, Placed, Unborn, Known, Holding, Removing, At, PlaceMoves
<1> QED
  BY <1>1, <1>3, <1>4, <1>5, WriteStep

LEMMA CleanupStep ==
  ASSUME IInv, NEW r \in Requests,
         \/ DropCollections(r) \/ DeleteCredentials(r) \/ DeleteGrants(r) \/ DeleteRows(r)
  PROVE  IInv'
<1>0. ReqType /\ RequestOK(r) /\ TypeOK
  BY DEF IInv
<1> DEFINE p == req[r].p
<1>1. req[r].pc \in {"drop", "creds", "grants", "rows"}
  BY DEF DropCollections, DeleteCredentials, DeleteGrants, DeleteRows, Cleanup, At
<1>2. p \in Projects
  BY <1>1, PlacedAt
<1> DEFINE Done == /\ At(r, "drop") => IF req[r].listed THEN Unstore(p, "collections") ELSE UNCHANGED stored
                   /\ At(r, "grants") => \A g \in grants' : g[1] # p
                   /\ At(r, "rows") => Unstore(p, "rows")
<1>3. PICK to \in {"creds", "grants", "rows", "joined"} :
        /\ \/ Goto(r, to) /\ Done
           \/ req' = [req EXCEPT ![r].pc = to, ![r].failed = TRUE]
        /\ UNCHANGED <<row, held, disturbed>> /\ (CallFails \/ UNCHANGED used)
        /\ At(r, "drop") => to = "creds"
        /\ At(r, "creds") => to = "grants"
        /\ At(r, "grants") => to = "rows"
        /\ At(r, "rows") => to = "joined"
  BY DEF DropCollections, DeleteCredentials, DeleteGrants, DeleteRows, Cleanup, At
<1>4. /\ ReqType' /\ \A q \in Requests \ {r} : req'[q] = req[q]
      /\ req'[r].pc = to /\ req'[r].p = req[r].p /\ req'[r].op = req[r].op
      /\ req'[r].failed \/ (Done /\ ~req[r].failed)
  <2>1. to \in Pc
    BY DEF Pc, Removing
  <2> QED
    BY <1>0, <1>3, <2>1, CleanupFields
<1>5. /\ stored' \in [Projects -> SUBSET Stores]
      /\ \A s \in Projects : stored'[s] \subseteq stored[s]
      /\ grants' \subseteq grants
      /\ owner' \in [Credentials -> Owners]
      /\ \A c \in Credentials : owner'[c] \in {owner[c], "gone"}
  <2>1. CASE DropCollections(r) \/ DeleteRows(r)
    BY <1>0, <1>2, <2>1 DEF DropCollections, DeleteRows, Cleanup, Unstore, TypeOK, Owners
  <2>2. CASE DeleteCredentials(r)
    BY <1>0, <2>2 DEF DeleteCredentials, Cleanup, TypeOK, Owners
  <2>3. CASE DeleteGrants(r)
    BY <1>0, <2>3 DEF DeleteGrants, Cleanup, TypeOK, Owners
  <2> QED
    BY <2>1, <2>2, <2>3
<1>6. Ungranted(r)'
  <2>1. ~Active(p) \/ Reactivated(p)
    BY <1>0, <1>1 DEF RequestOK, Ungranted, Removing
  <2>2. At(r, "grants") /\ ~req'[r].failed => \A g \in grants' : g[1] # p
    BY <1>4
  <2>3. At(r, "rows") /\ ~req'[r].failed => Reactivated(p) \/ \A g \in grants' : g[1] # p
    BY <1>0, <1>4, <1>5 DEF RequestOK, Ungranted, At
  <2> QED
    BY <1>1, <1>3, <1>4, <2>1, <2>2, <2>3 DEF Ungranted, Active, Present, Reactivated, At
<1>7. Emptied(r)'
  <2> SUFFICES ASSUME disturbed[p] = {}, ~req'[r].failed
               PROVE  /\ "collections" \notin stored'[p]
                      /\ to = "joined" => "rows" \notin stored'[p]
    BY <1>3, <1>4 DEF Emptied, At
  <2>1. ~req[r].failed /\ Emptied(r)
    BY <1>0, <1>4 DEF RequestOK
  <2>2. At(r, "drop") => "collections" \notin stored'[p]
    BY <1>0, <1>2, <1>4, <2>1 DEF Unstore, Emptied, At, Removing, TypeOK
  <2>3. ~At(r, "drop") => "collections" \notin stored'[p]
    BY <1>1, <1>2, <1>5, <2>1 DEF Emptied, At, Removing
  <2>4. At(r, "rows") => "rows" \notin stored'[p]
    BY <1>0, <1>2, <1>4 DEF Unstore, TypeOK
  <2> QED
    BY <1>1, <1>3, <2>2, <2>3, <2>4 DEF At
<1>8. req[r].pc \in Removing /\ req'[r].pc \in Removing
  BY <1>1, <1>4 DEF Removing
<1> QED
  BY <1>3, <1>4, <1>5, <1>6, <1>7, <1>8, RemovalStep

LEMMA MembershipsStep ==
  ASSUME IInv, NEW r \in Requests, DeleteMemberships(r)
  PROVE  IInv'
<1>0. ReqType /\ RequestOK(r) /\ TypeOK
  BY DEF IInv
<1>1. /\ At(r, "memberships") /\ Goto(r, "remove")
      /\ stored' = [stored EXCEPT ![req[r].p] = @ \ {"memberships"}]
      /\ UNCHANGED <<row, grants, owner, held, used, disturbed>>
  BY DEF DeleteMemberships, Unstore
<1>2. req[r].p \in Projects
  BY <1>1, PlacedAt DEF At
<1>3. /\ ReqType' /\ \A q \in Requests \ {r} : req'[q] = req[q]
      /\ req'[r].pc = "remove" /\ req'[r].p = req[r].p /\ req'[r].op = req[r].op
      /\ req'[r].failed = req[r].failed
  BY <1>0, <1>1, GotoFields DEF Pc, Removing
<1>4. /\ stored' \in [Projects -> SUBSET Stores]
      /\ \A p \in Projects : stored'[p] \subseteq stored[p]
      /\ stored'[req[r].p] = stored[req[r].p] \ {"memberships"}
      /\ owner' \in [Credentials -> Owners]
  BY <1>0, <1>1, <1>2 DEF TypeOK, Owners
<1>5. Ungranted(r)' /\ Emptied(r)'
  BY <1>0, <1>1, <1>3, <1>4
  DEF RequestOK, Ungranted, Emptied, Active, Present, Reactivated, At, Removing
<1> QED
  BY <1>1, <1>3, <1>4, <1>5, RemovalStep DEF At, Removing

LEMMA RemoveRowStep ==
  ASSUME IInv, NEW r \in Requests, RemoveRow(r)
  PROVE  IInv'
<1>0. ReqType /\ RequestOK(r) /\ TypeOK /\ HeldIsActive
  BY DEF IInv
<1> DEFINE p == req[r].p
<1>1. /\ At(r, "remove") /\ ~At(r, "commit") /\ RowFree(p)
      /\ UNCHANGED <<stored, grants, owner, held, used, disturbed>>
  BY DEF RemoveRow, At
<1>2. p \in Projects /\ Known(p)
  BY <1>1, PlacedAt, KnownAt DEF At
<1>3. /\ row' \in [Projects -> Rows] /\ row'[p].there = "gone"
      /\ \A s \in Projects \ {p} : row'[s] = row[s]
  BY <1>0, <1>2 DEF RemoveRow, TypeOK, Rows
<1>4. /\ ReqType' /\ \A q \in Requests \ {r} : req'[q] = req[q]
      /\ RequestOK(r)' /\ PlaceMoves(r)
  <2>1. CASE Answer(r)
    BY <1>0, <2>1, AnswerFields, IdleOK
  <2>2. CASE Goto(r, "invalidate")
    <3>1. /\ ReqType' /\ req'[r].pc = "invalidate" /\ req'[r].p = p
          /\ \A q \in Requests \ {r} : req'[q] = req[q]
      BY <1>0, <2>2, GotoFields DEF Pc
    <3> QED
      BY <1>2, <1>3, <3>1, PlainOK DEF PlainPc, PlaceMoves
  <2> QED
    BY <2>1, <2>2 DEF RemoveRow
<1>5. DataTypes'
  BY <1>0, <1>1, <1>3 DEF TypeOK, DataTypes, Owners, Present
<1>6. ASSUME NEW s \in Projects
      PROVE  RowMoves(r, s) /\ StoreMoves(s) /\ (held[s] # NoOne => Active(s)')
  <2>1. CASE s = p
    BY <1>1, <1>2, <1>3, <2>1 DEF RowMoves, StoreMoves, RowFree, Active, Present, Known
  <2>2. CASE s # p
    BY <1>0, <1>1, <1>3, <2>2 DEF RowMoves, StoreMoves, Active, Present, HeldIsActive
  <2> QED
    BY <2>1, <2>2
<1> QED
  BY <1>1, <1>4, <1>5, <1>6, WriteStep

-----------------------------------------------------------------------------
(* The invariant holds of every reachable state.                           *)

LEMMA InitIInv == Init => IInv
<1> SUFFICES ASSUME Init
             PROVE  IInv
  OBVIOUS
<1>1. req = [r \in Requests |-> Idle]
  BY DEF Init
<1>2. ReqType
  BY <1>1, IdleRequested DEF ReqType
<1>3. ASSUME NEW r \in Requests
      PROVE  RequestOK(r)
  <2>1. req[r].pc = "idle" /\ req[r].p = NoOne /\ NoOne \notin Projects
    BY <1>1, NamesAssumption DEF Idle
  <2> QED
    BY <2>1 DEF RequestOK, Placed, Unborn, Holding, Ungranted, Emptied, At, Removing
<1>4. PICK s \in [Existing -> Slugs] :
        row = [p \in Projects |->
                 IF p \in Existing THEN [there |-> "present", active |-> TRUE, slug |-> s[p]]
                                   ELSE [there |-> "unborn", active |-> FALSE, slug |-> NoOne]]
  BY DEF Init
<1>5. row \in [Projects -> Rows]
  BY <1>4 DEF Rows
<1>6. \A p \in Projects : Present(p) => row[p].slug \in Slugs
  BY <1>4 DEF Present
<1>7. stored \in [Projects -> SUBSET Stores] /\ grants = {} /\ held = [p \in Projects |-> NoOne]
      /\ disturbed \in [Projects -> SUBSET {"activated", "written"}]
  BY DEF Init
<1>8. used \in [ops : 0..MaxOps, faults : 0..MaxFaults]
  BY BoundsAssumption DEF Init
<1>9. PICK p \in Existing : owner = [c \in Credentials |-> IF c \in Shared THEN "tenant" ELSE p]
  BY DEF Init
<1>10. owner \in [Credentials -> Owners] /\ OwnerIsKnown
  <2>1. p \in Projects /\ Known(p)
    BY <1>4, SubsetsAssumption DEF Known
  <2> QED
    BY <1>9, <2>1, NamesAssumption DEF Owners, OwnerIsKnown
<1>11. TypeOK /\ HeldIsActive
  BY <1>5, <1>6, <1>7, <1>8, <1>10 DEF TypeOK, Owners, HeldIsActive
<1>12. GrantsEndWithProject /\ NothingLeftBehind
  BY <1>4, <1>7 DEF GrantsEndWithProject, NothingLeftBehind
<1> QED
  BY <1>2, <1>3, <1>10, <1>11, <1>12 DEF IInv

LEMMA RequestIInv ==
  ASSUME IInv, NEW r \in Requests, RequestStep(r) \/ Invalidate(r)
  PROVE  IInv'
<1>1. CASE BeginCreate(r) \/ BeginUpdate(r) \/ BeginDelete(r) \/ BeginGrant(r) \/ BeginPromote(r) \/ BeginWrite(r)
  BY <1>1, ArrivalStep
<1>2. CASE CheckCreate(r) \/ Snapshot(r) \/ TouchProject(r) \/ CommitGrant(r) \/ GrantFails(r) \/ Stop(r)
  BY <1>2, CheckCreateStep, SnapshotStep, TouchStep, CommitGrantStep, AbortStep
<1>3. CASE InsertRow(r) \/ UpdateRow(r) \/ Deactivate(r) \/ RemoveRow(r)
  BY <1>3, InsertRowStep, UpdateRowStep, DeactivateStep, RemoveRowStep
<1>4. CASE Write(r) \/ InsertMembership(r) \/ Populate(r)
  BY <1>4, StoreStep
<1>5. CASE CreateFails(r) \/ ReadProject(r) \/ CheckUpdate(r) \/ Invalidate(r) \/ JoinErrors(r)
  BY <1>5, LookStep
<1>6. CASE DisconnectCredential(r) \/ RevokeCredential(r)
  BY <1>6, CredentialStep
<1>7. CASE ListCollections(r) \/ DropCollections(r) \/ DeleteCredentials(r) \/ DeleteGrants(r) \/ DeleteRows(r)
  BY <1>7, ListStep, CleanupStep
<1>8. CASE DeleteMemberships(r)
  BY <1>8, MembershipsStep
<1> QED
  BY <1>1, <1>2, <1>3, <1>4, <1>5, <1>6, <1>7, <1>8 DEF RequestStep

LEMMA NextIInv == IInv /\ [Next]_vars => IInv'
<1>1. CASE Next
  BY <1>1, RequestIInv DEF Next
<1>2. CASE UNCHANGED vars
  BY <1>2 DEF vars, IInv, TypeOK, Present, ReqType, RequestOK, Placed, Unborn, Holding, Ungranted, Emptied,
              At, Known, Active, Reactivated, HeldIsActive, OwnerIsKnown, GrantsEndWithProject, NothingLeftBehind
<1> QED
  BY <1>1, <1>2

LEMMA Inductive == Spec => []IInv
BY InitIInv, NextIInv, PTL DEF Spec

(* Every variable keeps its type, and an open transaction that has written *)
(* a project's row belongs to a request about to commit for that project.  *)
THEOREM ProjectTypes == Spec => []TypeOK
<1>1. IInv => TypeOK
  BY DEF IInv
<1> QED
  BY <1>1, Inductive, PTL

(* No grant of a project outlives its row, unless the project was          *)
(* activated in the middle of its deletion: the touch of the row in the    *)
(* transactions of GrantExternalAPICredential and of the promotion         *)
(* serializes them with the deactivation.                                  *)
THEOREM ProjectGrantsEnd == Spec => []GrantsEndWithProject
<1>1. IInv => GrantsEndWithProject
  BY DEF IInv
<1> QED
  BY <1>1, Inductive, PTL

(* A project whose row is gone has left nothing behind, unless a request   *)
(* wrote to it or activated it during its deletion.                        *)
THEOREM ProjectLeavesNothing == Spec => []NothingLeftBehind
<1>1. IInv => NothingLeftBehind
  BY DEF IInv
<1> QED
  BY <1>1, Inductive, PTL

-----------------------------------------------------------------------------
(* A step that ends a project's use of a credential is a disconnection of  *)
(* the two, or belongs to the removal of the project.                      *)
LEMMA AccessStep ==
  ASSUME IInv, NEW r \in Requests, RequestStep(r) \/ Invalidate(r),
         NEW p \in Projects, NEW c \in Credentials, Usable(p, c), ~Usable(p, c)'
  PROVE  \/ BeingRemoved(p)
         \/ used'.ops = used.ops + 1 /\ <<p, c>> \in grants
<1>0. TypeOK /\ ReqType /\ RequestOK(r)
  BY DEF IInv
<1>1. CASE UNCHANGED <<grants, owner>>
  BY <1>1 DEF Usable
<1>2. CASE CommitGrant(r)
  <2>1. PICK t \in req[r].seen :
          IF req[r].op = "promote" /\ owner[t[1]] # t[2]
            THEN UNCHANGED <<grants, owner>>
            ELSE /\ grants' = grants \cup {<<req[r].p, t[1]>>}
                 /\ owner' = IF req[r].op = "promote" THEN [owner EXCEPT ![t[1]] = "tenant"] ELSE owner
    BY <1>2 DEF CommitGrant
  <2>2. req[r].op = "promote" => t[2] = req[r].p
    BY <1>0, <1>2, <2>1 DEF RequestOK, Holding, CommitGrant, At
  <2> QED
    BY <1>0, <1>1, <2>1, <2>2 DEF Usable, TypeOK
<1>3. CASE DisconnectCredential(r)
  <2>1. PICK q \in Projects, d \in Credentials :
          /\ grants' = grants \ {<<q, d>>} /\ UNCHANGED owner
          /\ used' = [used EXCEPT !.ops = @ + 1]
    BY <1>3 DEF DisconnectCredential
  <2>2. <<p, c>> \in grants /\ used'.ops = used.ops + 1
    BY <1>0, <2>1 DEF Usable, TypeOK
  <2> QED
    BY <2>2
<1>4. CASE RevokeCredential(r)
  <2>1. PICK d \in Credentials : owner[d] = "tenant" /\ owner' = [owner EXCEPT ![d] = "revoked"] /\ UNCHANGED grants
    BY <1>4, Zenon DEF RevokeCredential
  <2> QED
    BY <1>0, <2>1, NamesAssumption DEF Usable, TypeOK
<1>5. CASE DeleteCredentials(r)
  <2>1. req[r].p = p => BeingRemoved(p)
    BY <1>5 DEF DeleteCredentials, Cleanup, At, BeingRemoved, Removing
  <2> QED
    BY <1>0, <1>5, <2>1 DEF DeleteCredentials, Cleanup, Usable, TypeOK
<1>6. CASE DeleteGrants(r)
  <2>1. req[r].p = p => BeingRemoved(p)
    BY <1>6 DEF DeleteGrants, Cleanup, At, BeingRemoved, Removing
  <2> QED
    BY <1>6, <2>1 DEF DeleteGrants, Cleanup, Usable
<1>7. CASE BeginCreate(r) \/ BeginUpdate(r) \/ BeginDelete(r) \/ BeginGrant(r) \/ BeginPromote(r) \/ BeginWrite(r)
  <2>1. \A op, request : Begin(r, op, request) => UNCHANGED <<grants, owner>>
    BY DEF Begin
  <2>2. UNCHANGED <<grants, owner>>
    BY <1>7, <2>1, Zenon DEF BeginCreate, BeginUpdate, BeginDelete, BeginGrant, BeginPromote, BeginWrite
  <2> QED
    BY <1>1, <2>2
<1>8. CASE Write(r) \/ CheckCreate(r) \/ InsertRow(r) \/ Snapshot(r) \/ TouchProject(r)
  BY <1>1, <1>8, Zenon DEF Write, CheckCreate, InsertRow, Snapshot, TouchProject
<1>9. CASE GrantFails(r) \/ InsertMembership(r) \/ Populate(r) \/ CreateFails(r) \/ Stop(r)
  BY <1>1, <1>9, Zenon DEF GrantFails, InsertMembership, Populate, CreateFails, Stop
<1>10. CASE \/ ReadProject(r) \/ CheckUpdate(r) \/ UpdateRow(r) \/ Deactivate(r) \/ ListCollections(r)
           \/ DropCollections(r) \/ DeleteRows(r) \/ JoinErrors(r) \/ DeleteMemberships(r) \/ RemoveRow(r)
           \/ Invalidate(r)
  BY <1>1, <1>10 DEF ReadProject, CheckUpdate, UpdateRow, Deactivate, ListCollections, DropCollections,
                    DeleteRows, JoinErrors, DeleteMemberships, RemoveRow, Invalidate
<1> QED
  BY <1>2, <1>3, <1>4, <1>5, <1>6, <1>7, <1>8, <1>9, <1>10 DEF RequestStep

(* Promoting a credential, whatever it overlaps with, takes it from no     *)
(* project: access ends by disconnection or with the project.              *)
THEOREM ProjectAccessEnds == Spec => AccessEndsOnPurpose
<1>1. IInv /\ [Next]_vars =>
        [\A p \in Projects, c \in Credentials :
       Usable(p, c) /\ ~Usable(p, c)' =>
         \/ BeingRemoved(p)
         \/ used'.ops = used.ops + 1 /\ <<p, c>> \in grants]_vars
  BY AccessStep DEF Next
<1> QED
  BY <1>1, Inductive, PTL DEF Spec, AccessEndsOnPurpose

-----------------------------------------------------------------------------
(* The slug mappings.                                                      *)
Look ==
  [pc : {"idle", "cache", "verify", "find", "store", "answered"}, via : {"rest", "ws"},
   slug : Slugs \cup {NoOne}, p : Projects \cup {NoOne},
   since : SUBSET (Projects \X Slugs), busy : SUBSET Projects]

(* A lookup under way has seen every project that is active, and the one   *)
(* REST is about to answer with was active.                                *)
WasActive(l) ==
  l.via = "rest" /\ l.pc \in {"store", "answered"} /\ l.p # NoOne => \E s \in Slugs : <<l.p, s>> \in l.since
LookOK(l) == (l.pc # "idle" => Live \subseteq l.since /\ l.slug \in Slugs) /\ WasActive(l)

SlugsIInv ==
  IInv /\ mapping \in [Slugs -> Projects \cup {NoOne}] /\ look \in [Resolvers -> Look]
    /\ \A w \in Resolvers : LookOK(look[w])

LEMMA LiveFacts ==
  ASSUME TypeOK
  PROVE  /\ Live \subseteq Projects \X Slugs
         /\ \A p \in Projects : Active(p) => \E s \in Slugs : <<p, s>> \in Live
BY DEF TypeOK, Live, Active, Present

(* A step of a lookup.                                                     *)
LEMMA LookMoves ==
  ASSUME SlugsIInv, NEW w \in Resolvers, NEW l \in Look, look' = [look EXCEPT ![w] = l], IInv', UNCHANGED row,
         mapping' \in [Slugs -> Projects \cup {NoOne}], LookOK(l)
  PROVE  SlugsIInv'
<1>1. Live' = Live
  BY DEF Live, Active, Present
<1>2. look' \in [Resolvers -> Look] /\ \A v \in Resolvers : look'[v] = IF v = w THEN l ELSE look[v]
  BY DEF SlugsIInv
<1>3. \A v \in Resolvers : LookOK(look[v])'
  BY <1>1, <1>2 DEF SlugsIInv, LookOK, WasActive
<1> QED
  BY <1>2, <1>3 DEF SlugsIInv, Look

(* A move to another place, with a project.                                *)
LEMMA LookGoes ==
  ASSUME SlugsIInv, NEW w \in Resolvers, look[w].pc # "idle", NEW p \in Projects \cup {NoOne},
         NEW pc \in {"verify", "find", "store", "answered"}, Step(w, pc, p), UNCHANGED vars,
         mapping' \in [Slugs -> Projects \cup {NoOne}],
         look[w].via = "rest" /\ pc \in {"store", "answered"} /\ p # NoOne => \E s \in Slugs : <<p, s>> \in look[w].since
  PROVE  SlugsIInv'
<1> DEFINE l == [look[w] EXCEPT !.pc = pc, !.p = p]
<1>1. look[w] \in Look /\ look' = [look EXCEPT ![w] = l] /\ Live \subseteq look[w].since /\ look[w].slug \in Slugs
  BY DEF SlugsIInv, Step, LookOK
<1>2. /\ l \in Look /\ l.pc = pc /\ l.p = p /\ l.via = look[w].via /\ l.since = look[w].since
      /\ l.slug = look[w].slug
  BY <1>1 DEF Look
<1> HIDE DEF l
<1>3. LookOK(l)
  BY <1>1, <1>2 DEF LookOK, WasActive
<1>4. IInv' /\ UNCHANGED row
  BY NextIInv DEF SlugsIInv, vars
<1> QED
  BY <1>1, <1>2, <1>3, <1>4, LookMoves

LEMMA WatchStep ==
  ASSUME SlugsIInv, NEW r \in Requests, RequestStep(r), Watch, UNCHANGED mapping
  PROVE  SlugsIInv'
<1>1. IInv'
  BY RequestIInv DEF SlugsIInv
<1>2. Live' \subseteq Projects \X Slugs /\ Busy' \subseteq Projects
  <2>1. TypeOK'
    BY <1>1 DEF IInv
  <2> QED
    BY <2>1, LiveFacts DEF TypeOK, Live, Active, Present, Busy
<1>3. ASSUME NEW w \in Resolvers
      PROVE  look'[w] \in Look /\ LookOK(look[w])'
  <2>1. look[w] \in Look /\ LookOK(look[w])
    BY DEF SlugsIInv
  <2>2. CASE look[w].pc = "idle"
    <3>1. look'[w] = look[w]
      BY <2>2 DEF Watch
    <3> QED
      BY <2>1, <2>2, <3>1 DEF LookOK, WasActive
  <2>3. CASE look[w].pc # "idle"
    <3> DEFINE l == [look[w] EXCEPT !.since = look[w].since \cup Live', !.busy = look[w].busy \cup Busy']
    <3>1. look'[w] = l
      BY <2>3 DEF Watch
    <3>2. /\ l \in Look /\ l.pc = look[w].pc /\ l.via = look[w].via /\ l.p = look[w].p
          /\ l.since = look[w].since \cup Live' /\ l.slug = look[w].slug
      BY <1>2, <2>1 DEF Look
    <3> HIDE DEF l
    <3> QED
      BY <2>1, <3>1, <3>2 DEF LookOK, WasActive
  <2> QED
    BY <2>2, <2>3
<1>4. look' \in [Resolvers -> Look]
  BY <1>3 DEF Watch
<1> QED
  BY <1>1, <1>3, <1>4 DEF SlugsIInv, Look

LEMMA StartLookupStep ==
  ASSUME SlugsIInv, NEW w \in Resolvers, StartLookup(w)
  PROVE  SlugsIInv'
<1>1. PICK s \in Slugs, via \in Ways :
        /\ look' = [look EXCEPT ![w] = [pc |-> "cache", via |-> via, slug |-> s, p |-> NoOne,
                                        since |-> Live, busy |-> Busy]]
        /\ used.ops < MaxOps /\ used' = [used EXCEPT !.ops = @ + 1]
        /\ UNCHANGED <<row, stored, grants, owner, held, req, disturbed, mapping>>
  BY DEF StartLookup
<1> DEFINE l == [pc |-> "cache", via |-> via, slug |-> s, p |-> NoOne, since |-> Live, busy |-> Busy]
<1>2. TypeOK /\ Live \subseteq Projects \X Slugs /\ Busy \subseteq Projects /\ via \in {"rest", "ws"}
  BY LiveFacts, WaysAssumption DEF SlugsIInv, IInv, Busy
<1>3. l \in Look /\ LookOK(l)
  BY <1>2 DEF Look, LookOK, WasActive
<1>4. used' \in [ops : 0..MaxOps, faults : 0..MaxFaults]
  BY <1>1, <1>2, BoundsAssumption DEF TypeOK
<1>5. IInv'
  BY <1>1, <1>4 DEF SlugsIInv, IInv, TypeOK, Present, ReqType, RequestOK, Placed, Unborn, Holding, Ungranted, Emptied,
              At, Known, Active, Reactivated, HeldIsActive, OwnerIsKnown, GrantsEndWithProject, NothingLeftBehind
<1>6. mapping' \in [Slugs -> Projects \cup {NoOne}]
  BY <1>1 DEF SlugsIInv
<1> HIDE DEF l
<1> QED
  BY <1>1, <1>3, <1>5, <1>6, LookMoves DEF l

LEMMA LookupStep ==
  ASSUME SlugsIInv, NEW w \in Resolvers, ReadMapping(w) \/ VerifyActive(w) \/ FindProject(w) \/ StoreMapping(w)
  PROVE  SlugsIInv'
<1> DEFINE l == look[w]
<1>1. /\ TypeOK /\ l \in Look /\ (l.pc # "idle" => Live \subseteq l.since /\ l.slug \in Slugs) /\ WasActive(l)
      /\ mapping \in [Slugs -> Projects \cup {NoOne}]
  BY DEF SlugsIInv, IInv, LookOK
<1>2. \A p \in Projects : l.pc # "idle" /\ Active(p) => \E s \in Slugs : <<p, s>> \in l.since
  BY <1>1, LiveFacts
<1>3. CASE ReadMapping(w)
  <2>1. l.pc = "cache" /\ UNCHANGED vars /\ UNCHANGED mapping
    BY <1>3 DEF ReadMapping
  <2>2. CASE Step(w, "find", NoOne)
    BY <1>1, <2>1, <2>2, LookGoes
  <2>3. CASE /\ mapping[l.slug] # NoOne
             /\ Step(w, IF l.via = "rest" THEN "verify" ELSE "answered", mapping[l.slug])
    <3> DEFINE p == mapping[l.slug]
    <3>1. p \in Projects \cup {NoOne}
      BY <1>1, <2>1
    <3> HIDE DEF p
    <3>2. CASE l.via = "rest"
      <4>1. Step(w, "verify", p)
        BY <2>3, <3>2 DEF p
      <4> QED
        BY <1>1, <2>1, <3>1, <4>1, LookGoes
    <3>3. CASE l.via # "rest"
      <4>1. Step(w, "answered", p)
        BY <2>3, <3>3 DEF p
      <4> QED
        BY <1>1, <2>1, <3>1, <3>3, <4>1, LookGoes
    <3> QED
      BY <3>2, <3>3
  <2> QED
    BY <1>3, <2>2, <2>3 DEF ReadMapping
<1>4. CASE VerifyActive(w)
  <2>1. l.pc = "verify" /\ UNCHANGED vars
    BY <1>4 DEF VerifyActive
  <2>2. CASE Active(l.p) /\ Step(w, "answered", l.p) /\ UNCHANGED mapping
    <3>1. l.p \in Projects \cup {NoOne}
      BY <1>1 DEF Look
    <3>2. l.p # NoOne => \E s \in Slugs : <<l.p, s>> \in l.since
      BY <1>2, <2>1, <2>2, <3>1
    <3> HIDE DEF l
    <3> QED
      BY <1>1, <2>1, <2>2, <3>1, <3>2, LookGoes DEF l
  <2>3. CASE Step(w, "answered", NoOne) /\ mapping' = [mapping EXCEPT ![look[w].slug] = NoOne]
    <3>1. mapping' \in [Slugs -> Projects \cup {NoOne}]
      BY <1>1, <2>3
    <3> QED
      BY <1>1, <2>1, <2>3, <3>1, LookGoes
  <2> QED
    BY <1>4, <2>2, <2>3 DEF VerifyActive
<1>5. CASE FindProject(w)
  <2>1. l.pc = "find" /\ UNCHANGED vars /\ UNCHANGED mapping
    BY <1>5 DEF FindProject
  <2>2. CASE Step(w, "answered", NoOne)
    BY <1>1, <2>1, <2>2, LookGoes
  <2>3. ASSUME NEW p \in Projects, Present(p), l.via = "rest" => row[p].active, Step(w, "store", p)
        PROVE  SlugsIInv'
    <3>1. l.via = "rest" => \E s \in Slugs : <<p, s>> \in l.since
      BY <1>2, <2>1, <2>3 DEF Active
    <3> HIDE DEF l
    <3> QED
      BY <1>1, <2>1, <2>3, <3>1, LookGoes DEF l
  <2> QED
    BY <1>5, <2>2, <2>3 DEF FindProject
<1>6. CASE StoreMapping(w)
  <2>1. l.pc = "store" /\ UNCHANGED vars /\ Step(w, "answered", l.p) /\ l.p \in Projects \cup {NoOne}
    BY <1>1, <1>6 DEF StoreMapping, Look
  <2>2. mapping' \in [Slugs -> Projects \cup {NoOne}]
    BY <1>1, <1>6, <2>1 DEF StoreMapping
  <2>3. l.via = "rest" /\ l.p # NoOne => \E s \in Slugs : <<l.p, s>> \in l.since
    BY <1>1, <2>1 DEF WasActive
  <2> HIDE DEF l
  <2> QED
    BY <1>1, <2>1, <2>2, <2>3, LookGoes DEF l
<1> QED
  BY <1>3, <1>4, <1>5, <1>6

LEMMA SlugsStep == SlugsIInv /\ [SlugsNext]_allVars => SlugsIInv'
<1> SUFFICES ASSUME SlugsIInv, [SlugsNext]_allVars PROVE SlugsIInv'
  OBVIOUS
<1>1. ASSUME IInv', UNCHANGED <<row, look>>, mapping' \in [Slugs -> Projects \cup {NoOne}]
      PROVE  SlugsIInv'
  BY <1>1 DEF SlugsIInv, LookOK, WasActive, Live, Active, Present, Look
<1>2. ASSUME NEW r \in Requests, InvalidateProjectSlugMappings(r)
      PROVE  SlugsIInv'
  <2>1. IInv' /\ UNCHANGED <<row, look>>
    BY <1>2, RequestIInv DEF SlugsIInv, InvalidateProjectSlugMappings, Invalidate
  <2>2. mapping' \in [Slugs -> Projects \cup {NoOne}]
    BY <1>2 DEF SlugsIInv, InvalidateProjectSlugMappings
  <2> QED
    BY <1>1, <2>1, <2>2
<1>3. ASSUME NEW s \in Slugs, MappingExpires(s)
      PROVE  SlugsIInv'
  <2>1. IInv' /\ UNCHANGED <<row, look>>
    BY <1>3, NextIInv DEF SlugsIInv, MappingExpires, vars
  <2>2. mapping' \in [Slugs -> Projects \cup {NoOne}]
    BY <1>3 DEF SlugsIInv, MappingExpires
  <2> QED
    BY <1>1, <2>1, <2>2
<1>4. CASE UNCHANGED allVars
  <2>1. UNCHANGED vars /\ UNCHANGED <<look, mapping>>
    BY <1>4 DEF allVars, slugVars
  <2>2. IInv' /\ UNCHANGED row
    BY <2>1, NextIInv DEF SlugsIInv, vars
  <2> QED
    BY <1>1, <2>1, <2>2 DEF SlugsIInv
<1> QED
  BY <1>2, <1>3, <1>4, WatchStep, StartLookupStep, LookupStep DEF SlugsNext

LEMMA SlugsStart == SlugsInit => SlugsIInv
<1> SUFFICES ASSUME SlugsInit PROVE SlugsIInv
  OBVIOUS
<1>1. NoLookup \in Look /\ NoLookup.pc = "idle"
  BY DEF NoLookup, Look
<1>2. \A w \in Resolvers : look[w] = NoLookup /\ LookOK(look[w])
  BY <1>1 DEF SlugsInit, LookOK, WasActive
<1> QED
  BY <1>1, <1>2, InitIInv DEF SlugsInit, SlugsIInv

LEMMA SlugsInductive == SlugsSpec => []SlugsIInv
BY SlugsStart, SlugsStep, PTL DEF SlugsSpec

(* Lookups and mappings keep their types beside the projects.              *)
THEOREM SlugsTypes == SlugsSpec => []SlugsTypeOK
<1>1. SlugsIInv => SlugsTypeOK
  BY DEF SlugsIInv, IInv, SlugsTypeOK, Look
<1> QED
  BY <1>1, SlugsInductive, PTL

(* A mapping is looked at again by REST: however late one was stored, a    *)
(* request is served only for a project that was active since it came.     *)
THEOREM SlugsServeActive == SlugsSpec => []ServedWhileActive
<1>1. SlugsIInv => ServedWhileActive
  BY DEF SlugsIInv, LookOK, WasActive, ServedWhileActive, Answered
<1> QED
  BY <1>1, SlugsInductive, PTL

-----------------------------------------------------------------------------
(* The clones. Whatever the template's users have not touched since the      *)
(* containers were read is as the clone read it, or as it will read it; what *)
(* is inserted is remapped by all that was read.                             *)

Cloning == {"bind", "grant", "containers", "pages", "insertPages", "items", "insertItems", "roles", "done"}
Paged == {"items", "insertItems", "roles", "done"}
Filled == {"insertItems", "roles", "done"}

CopyShape ==
  /\ DOMAIN template = {"listed", "active", "global", "items", "links", "calls", "refs", "pages"}
  /\ DOMAIN clone = {"pc", "items", "links", "calls", "todo", "granted", "pages", "refs"}
  /\ DOMAIN copy = {"links", "calls", "pages", "refs", "admin"}
  /\ DOMAIN changes = {"records", "pages", "links"} /\ DOMAIN editor = Editors
  /\ clone.pc \in Cloning \cup {"find", "read", "refused", "failed"}
  /\ clone.pc = "grant" => clone.todo \subseteq Connections
  /\ \A d \in DOMAIN template.refs : template.refs[d] \subseteq Records
  /\ \A d \in DOMAIN clone.refs : clone.refs[d] \subseteq Records
  /\ \A p \in DOMAIN template.pages : template.pages[p] \in PageBodies

LinksRead == clone.pc \in Cloning => template.links \ changes.links \subseteq clone.links

CallsBound ==
  /\ clone.pc \in Cloning \ {"bind"} =>
       \A k \in clone.calls :
         /\ k[2] \in clone.granted \/ (clone.pc = "grant" /\ k[2] \in clone.todo)
         /\ k[3] = AnyHost \/ <<k[2], k[3]>> \in Allows
  /\ clone.pc \in Paged \cup {"pages", "insertPages"} => copy.calls = clone.calls

ParentsKnown ==
  \A p \in DOMAIN copy.pages : \A q \in Pages :
    /\ copy.pages[p].parent = <<"copy", q>> => q \in DOMAIN copy.pages
    /\ copy.pages[p].parent = <<"template", q>> => Gone(template.pages, changes.pages, q)

PagesRead ==
  /\ clone.pc = "insertPages" =>
       \A p \in DOMAIN template.pages \ changes.pages :
         /\ p \in DOMAIN clone.pages /\ clone.pages[p].parent = template.pages[p].parent
         /\ clone.pages[p].main = template.pages[p].main /\ clone.pages[p].links = template.pages[p].links
  /\ clone.pc \in Paged => PagesAreCopied /\ ParentsKnown

\* A record that nobody has touched has been read as it is.
AsRead(d) == d \in DOMAIN clone.refs /\ clone.refs[d] = template.refs[d]

RefsRead ==
  /\ clone.pc \notin Paged \/ ~clone.items => DOMAIN clone.refs = {}
  /\ clone.pc = "items" =>
       /\ clone.items
       /\ \A d \in DOMAIN clone.refs : d[1] \notin clone.todo
       /\ \A d \in DOMAIN template.refs \ changes.records :
            d[1] # AuthSchema /\ d[1] \notin clone.todo => AsRead(d)
  /\ clone.pc \in Filled /\ clone.items =>
       \A d \in DOMAIN template.refs \ changes.records : d[1] # AuthSchema => AsRead(d)

RefsInserted ==
  /\ clone.pc \notin Filled => DOMAIN copy.refs = {}
  /\ clone.pc = "insertItems" => DOMAIN copy.refs = {d \in DOMAIN clone.refs : d[1] \notin clone.todo}
  /\ clone.pc \in {"roles", "done"} => DOMAIN copy.refs = DOMAIN clone.refs
  /\ \A d \in DOMAIN copy.refs : copy.refs[d] = Remapped(d, DOMAIN clone.refs)

RoleThere == CloneAt("done") => copy.admin \/ Of("role", DOMAIN copy.refs) # {}

ClonesIInv ==
  /\ CopyTypeOK /\ CopyShape /\ LinksRead /\ CallsBound /\ PagesRead /\ RefsRead /\ RefsInserted /\ RoleThere

LEMMA RemappedKnown ==
  ASSUME NEW d, NEW known, NEW e, <<"copy", e>> \in Remapped(d, known)
  PROVE  e \in known
<1>1. PICK x \in clone.refs[d] :
        <<"copy", e>> = <<IF <<d[1], x[1]>> \in clone.links /\ x \in known THEN "copy" ELSE "template", x>>
  BY DEF Remapped
<1>2. x = e /\ "copy" = (IF <<d[1], x[1]>> \in clone.links /\ x \in known THEN "copy" ELSE "template")
  BY <1>1
<1>3. "copy" # "template"
  OBVIOUS
<1> QED
  BY <1>2, <1>3

LEMMA RemappedUnknown ==
  ASSUME NEW d, NEW known, NEW e, <<"template", e>> \in Remapped(d, known)
  PROVE  e \in clone.refs[d] /\ (<<d[1], e[1]>> \notin clone.links \/ e \notin known)
<1>1. PICK x \in clone.refs[d] :
        <<"template", e>> = <<IF <<d[1], x[1]>> \in clone.links /\ x \in known THEN "copy" ELSE "template", x>>
  BY DEF Remapped
<1>2. x = e /\ "template" = (IF <<d[1], x[1]>> \in clone.links /\ x \in known THEN "copy" ELSE "template")
  BY <1>1
<1>3. "copy" # "template"
  OBVIOUS
<1> QED
  BY <1>2, <1>3

LEMMA ClonesIInvImplies == ClonesIInv => CopyStandsAlone
<1> SUFFICES ASSUME ClonesIInv, CloneAt("done")
             PROVE  /\ CallsAreGranted /\ RecordsAreCopied /\ PagesAreCopied /\ NothingDangles
                    /\ copy.admin \/ Of("role", DOMAIN copy.refs) # {}
  BY DEF CopyStandsAlone
<1>1. clone.pc = "done"
  BY DEF CloneAt
<1>2. CallsAreGranted
  BY <1>1 DEF ClonesIInv, CallsBound, CallsAreGranted, Cloning, Paged
<1>3. PagesAreCopied
  BY <1>1 DEF ClonesIInv, PagesRead, Paged
<1>4. /\ DOMAIN copy.refs = DOMAIN clone.refs
      /\ \A d \in DOMAIN copy.refs : copy.refs[d] = Remapped(d, DOMAIN clone.refs)
  BY <1>1 DEF ClonesIInv, RefsInserted
<1>5. RecordsAreCopied
  <2> SUFFICES ASSUME NEW d \in DOMAIN template.refs \ changes.records, clone.items, d[1] # AuthSchema
               PROVE  /\ d \in DOMAIN copy.refs
                      /\ \A e \in template.refs[d] \ changes.records :
                           e[1] # AuthSchema /\ <<d[1], e[1]>> \in template.links \ changes.links
                             /\ e \in DOMAIN template.refs => <<"copy", e>> \in copy.refs[d]
    BY DEF RecordsAreCopied
  <2>1. AsRead(d)
    BY <1>1 DEF ClonesIInv, RefsRead, Filled
  <2>2. ASSUME NEW e \in template.refs[d] \ changes.records, e[1] # AuthSchema,
               <<d[1], e[1]>> \in template.links \ changes.links, e \in DOMAIN template.refs
        PROVE  <<"copy", e>> \in copy.refs[d]
    <3>1. e \in clone.refs[d] /\ e \in DOMAIN clone.refs
      BY <1>1, <2>1, <2>2 DEF ClonesIInv, RefsRead, Filled, AsRead
    <3>2. <<d[1], e[1]>> \in clone.links
      BY <1>1, <2>2 DEF ClonesIInv, LinksRead, Cloning
    <3>3. <<"copy", e>> \in Remapped(d, DOMAIN clone.refs)
      BY <3>1, <3>2 DEF Remapped
    <3> QED
      BY <1>4, <2>1, <3>3 DEF AsRead
  <2> QED
    BY <1>4, <2>1, <2>2 DEF AsRead
<1>6. NothingDangles
  <2>1. ASSUME NEW d \in DOMAIN copy.refs, NEW e \in Records, <<"copy", e>> \in copy.refs[d]
        PROVE  e \in DOMAIN copy.refs
    BY <1>4, <2>1, RemappedKnown
  <2>2. ASSUME NEW d \in DOMAIN copy.refs, NEW e \in Records, <<"template", e>> \in copy.refs[d]
        PROVE  \/ e[1] = AuthSchema \/ Gone(template.refs, changes.records, e)
               \/ <<d[1], e[1]>> \notin template.links \ changes.links
    <3>1. <<d[1], e[1]>> \notin clone.links \/ e \notin DOMAIN clone.refs
      BY <1>4, <2>2, RemappedUnknown
    <3>2. CASE <<d[1], e[1]>> \notin clone.links
      BY <1>1, <3>2 DEF ClonesIInv, LinksRead, Cloning
    <3>3. CASE e \notin DOMAIN clone.refs
      <4>1. clone.items
        BY <1>4 DEF ClonesIInv, RefsRead
      <4>2. e[1] # AuthSchema => e \notin DOMAIN template.refs \ changes.records
        BY <1>1, <3>3, <4>1 DEF ClonesIInv, RefsRead, AsRead, Filled
      <4> QED
        BY <4>2 DEF Gone
    <3> QED
      BY <3>1, <3>2, <3>3
  <2>3. ParentsKnown
    BY <1>1 DEF ClonesIInv, PagesRead, Paged
  <2> QED
    BY <2>1, <2>2, <2>3 DEF NothingDangles, ParentsKnown
<1>7. copy.admin \/ Of("role", DOMAIN copy.refs) # {}
  BY DEF ClonesIInv, RoleThere
<1> QED
  BY <1>2, <1>3, <1>5, <1>6, <1>7

LEMMA ClonesInitOK == ClonesInit => ClonesIInv
<1> SUFFICES ASSUME ClonesInit PROVE ClonesIInv
  OBVIOUS
<1>1. clone = NoClone /\ copy = NoCopy /\ changes = Unchanged /\ template \in Templates
      /\ editor = [u \in Editors |-> Nil]
  BY DEF ClonesInit
<1>2. /\ clone.pc = "find" /\ DOMAIN clone.refs = {} /\ DOMAIN clone.pages = {} /\ clone.todo = {}
      /\ clone.granted = {} /\ DOMAIN copy.refs = {}
  BY <1>1 DEF NoClone, NoCopy
<1>3. CopyShape
  BY <1>1, <1>2, TemplateAssumption DEF CopyShape, NoClone, NoCopy, Unchanged
<1>4. CopyTypeOK
  BY <1>1, <1>2, TemplateAssumption DEF CopyTypeOK
<1>5. LinksRead /\ CallsBound /\ PagesRead /\ RefsRead /\ RefsInserted /\ RoleThere
  BY <1>2 DEF LinksRead, CallsBound, PagesRead, RefsRead, RefsInserted, RoleThere, Cloning, Paged, Filled, CloneAt
<1> QED
  BY <1>3, <1>4, <1>5 DEF ClonesIInv

\* An edit in the template: what has not changed is as it was.
LEMMA TemplateMoves ==
  ASSUME ClonesIInv, UNCHANGED <<clone, copy>>, CopyTypeOK', CopyShape',
         changes.records \subseteq changes.records', changes.pages \subseteq changes.pages',
         template.links' \ changes.links' \subseteq template.links \ changes.links,
         \A d \in DOMAIN template.refs' \ changes.records' :
           d \in DOMAIN template.refs /\ template.refs'[d] = template.refs[d],
         \A p \in DOMAIN template.pages' \ changes.pages' :
           /\ p \in DOMAIN template.pages /\ template.pages'[p].parent = template.pages[p].parent
           /\ template.pages'[p].main = template.pages[p].main /\ template.pages'[p].links = template.pages[p].links
  PROVE  ClonesIInv'
<1>1. LinksRead'
  BY DEF ClonesIInv, LinksRead
<1>2. CallsBound' /\ RoleThere'
  BY DEF ClonesIInv, CallsBound, RoleThere, CloneAt
<1>3. PagesRead'
  <2>1. clone.pc \in Paged => PagesAreCopied'
    BY DEF ClonesIInv, PagesRead, PagesAreCopied
  <2>2. clone.pc \in Paged => ParentsKnown'
    BY DEF ClonesIInv, PagesRead, ParentsKnown, Gone
  <2> QED
    BY <2>1, <2>2 DEF ClonesIInv, PagesRead
<1>4. RefsRead'
  BY DEF ClonesIInv, RefsRead, AsRead
<1>5. RefsInserted'
  <2>1. \A d, known : Remapped(d, known)' = Remapped(d, known)
    BY DEF Remapped
  <2>2. \A d \in DOMAIN copy.refs : copy.refs[d] = Remapped(d, DOMAIN clone.refs)
    BY DEF ClonesIInv, RefsInserted
  <2>3. \A d \in DOMAIN copy.refs : copy.refs[d] = Remapped(d, DOMAIN clone.refs)'
    BY <2>1, <2>2
  <2> QED
    BY <2>3 DEF ClonesIInv, RefsInserted
<1> QED
  BY <1>1, <1>2, <1>3, <1>4, <1>5 DEF ClonesIInv

\* What an edit marks as changed.
LEMMA EditMarks ==
  ASSUME CopyShape, NEW what \in {"records", "pages", "links"}, NEW which, Edits(what, which)
  PROVE  /\ UNCHANGED <<clone, copy>> /\ DOMAIN changes' = {"records", "pages", "links"}
         /\ changes'[what] = changes[what] \cup which
         /\ \A other \in {"records", "pages", "links"} \ {what} : changes'[other] = changes[other]
BY DEF CopyShape, Edits

LEMMA SaveRecordStep ==
  ASSUME ClonesIInv, NEW d \in Records, SaveRecord(d)
  PROVE  ClonesIInv'
<1>1. CopyShape /\ CopyTypeOK
  BY DEF ClonesIInv
<1>2. PICK es \in SUBSET DOMAIN template.refs : template' = [template EXCEPT !.refs = With(template.refs, d, es)]
  BY DEF SaveRecord
<1>3. /\ UNCHANGED <<clone, copy>> /\ DOMAIN changes' = {"records", "pages", "links"}
      /\ changes.records' = changes.records \cup {d} /\ changes.pages' = changes.pages
      /\ changes.links' = changes.links /\ editor' = editor
  BY <1>1, EditMarks DEF SaveRecord
<1>4. /\ DOMAIN template' = DOMAIN template /\ template.links' = template.links
      /\ template.pages' = template.pages /\ template.refs' = With(template.refs, d, es)
  BY <1>1, <1>2 DEF CopyShape
<1>5. /\ DOMAIN template.refs' = DOMAIN template.refs \cup {d}
      /\ \A x \in DOMAIN template.refs' : template.refs'[x] = IF x = d THEN es ELSE template.refs[x]
  BY <1>4 DEF With, Joined
<1>6. CopyShape'
  BY <1>1, <1>3, <1>4, <1>5 DEF CopyShape, CopyTypeOK
<1>7. CopyTypeOK'
  BY <1>1, <1>3, <1>4, <1>5 DEF CopyTypeOK
<1> QED
  BY <1>3, <1>4, <1>5, <1>6, <1>7, TemplateMoves

LEMMA DeleteRecordStep ==
  ASSUME ClonesIInv, NEW d \in Records, DeleteRecord(d)
  PROVE  ClonesIInv'
<1>1. CopyShape /\ CopyTypeOK
  BY DEF ClonesIInv
<1>2. template' = [template EXCEPT !.refs = Without(template.refs, d)]
  BY DEF DeleteRecord
<1>3. /\ UNCHANGED <<clone, copy>> /\ DOMAIN changes' = {"records", "pages", "links"}
      /\ changes.records' = changes.records \cup {d} /\ changes.pages' = changes.pages
      /\ changes.links' = changes.links /\ editor' = editor
  BY <1>1, EditMarks DEF DeleteRecord
<1>4. /\ DOMAIN template' = DOMAIN template /\ template.links' = template.links
      /\ template.pages' = template.pages /\ template.refs' = Without(template.refs, d)
  BY <1>1, <1>2 DEF CopyShape
<1>5. /\ DOMAIN template.refs' = DOMAIN template.refs \ {d}
      /\ \A x \in DOMAIN template.refs' : template.refs'[x] = template.refs[x]
  BY <1>4 DEF Without
<1>6. CopyShape'
  BY <1>1, <1>3, <1>4, <1>5 DEF CopyShape
<1>7. CopyTypeOK'
  BY <1>1, <1>3, <1>4, <1>5 DEF CopyTypeOK
<1> QED
  BY <1>3, <1>4, <1>5, <1>6, <1>7, TemplateMoves

LEMMA SaveContainerStep ==
  ASSUME ClonesIInv, SaveContainer
  PROVE  ClonesIInv'
<1>1. CopyShape /\ CopyTypeOK
  BY DEF ClonesIInv
<1>2. PICK which :
        /\ Edits("links", which) /\ editor' = editor
        /\ DOMAIN template' = DOMAIN template /\ template.refs' = template.refs /\ template.pages' = template.pages
        /\ template.links' \ which \subseteq template.links
  <2>1. CASE \E l \in Links : /\ template' = [template EXCEPT !.links = (@ \ {l}) \cup ({l} \ @)]
                              /\ Edits("links", {l})
    <3>1. PICK l \in Links : template' = [template EXCEPT !.links = (@ \ {l}) \cup ({l} \ @)] /\ Edits("links", {l})
      BY <2>1
    <3>2. /\ DOMAIN template' = DOMAIN template /\ template.refs' = template.refs /\ template.pages' = template.pages
          /\ template.links' = (template.links \ {l}) \cup ({l} \ template.links)
      BY <1>1, <3>1 DEF CopyShape
    <3> QED
      BY <3>1, <3>2 DEF SaveContainer
  <2>2. CASE \E s \in Schemas, c \in Connections, h \in Hosts \cup {AnyHost} :
               template' = [template EXCEPT !.calls = @ \cup {<<s, c, h>>}] /\ Edits("links", {})
    <3>1. PICK s \in Schemas, c \in Connections, h \in Hosts \cup {AnyHost} :
            template' = [template EXCEPT !.calls = @ \cup {<<s, c, h>>}] /\ Edits("links", {})
      BY <2>2
    <3>2. /\ DOMAIN template' = DOMAIN template /\ template.refs' = template.refs /\ template.pages' = template.pages
          /\ template.links' = template.links
      BY <1>1, <3>1 DEF CopyShape
    <3> QED
      BY <3>1, <3>2 DEF SaveContainer
  <2> QED
    BY <2>1, <2>2 DEF SaveContainer
<1>3. /\ UNCHANGED <<clone, copy>> /\ DOMAIN changes' = {"records", "pages", "links"}
      /\ changes.records' = changes.records /\ changes.pages' = changes.pages
      /\ changes.links' = changes.links \cup which
  BY <1>1, <1>2, EditMarks
<1>4. CopyShape' /\ CopyTypeOK'
  BY <1>1, <1>2, <1>3 DEF CopyShape, CopyTypeOK
<1> QED
  BY <1>2, <1>3, <1>4, TemplateMoves

LEMMA SavePageStep ==
  ASSUME ClonesIInv, NEW p \in Pages, NEW u \in Editors, NEW v \in PageBodies, NEW main, SavePage(u, p, v, main)
  PROVE  ClonesIInv'
<1>1. CopyShape /\ CopyTypeOK
  BY DEF ClonesIInv
<1>2. /\ template' = [template EXCEPT !.pages = With(template.pages, p, v)]
      /\ editor' = [editor EXCEPT ![u] = IF main THEN p ELSE Nil]
  BY DEF SavePage
<1>3. /\ UNCHANGED <<clone, copy>> /\ DOMAIN changes' = {"records", "pages", "links"}
      /\ changes.records' = changes.records /\ changes.pages' = changes.pages \cup {p}
      /\ changes.links' = changes.links
  BY <1>1, EditMarks DEF SavePage
<1>5. /\ DOMAIN template' = DOMAIN template /\ template.links' = template.links
      /\ template.refs' = template.refs /\ template.pages' = With(template.pages, p, v)
  BY <1>1, <1>2 DEF CopyShape
<1>6. /\ DOMAIN template.pages' = DOMAIN template.pages \cup {p}
      /\ \A x \in DOMAIN template.pages' : template.pages'[x] = IF x = p THEN v ELSE template.pages[x]
  BY <1>5 DEF With, Joined
<1>8. DOMAIN editor' = Editors
  BY <1>1, <1>2 DEF CopyShape
<1>9. CopyShape'
  BY <1>1, <1>3, <1>5, <1>6, <1>8 DEF CopyShape
<1>10. CopyTypeOK'
  BY <1>1, <1>3, <1>5, <1>6 DEF CopyTypeOK
<1> QED
  BY <1>3, <1>5, <1>6, <1>9, <1>10, TemplateMoves

LEMMA CreatePageStep ==
  ASSUME ClonesIInv, NEW p \in Pages, NEW u \in Editors, CreatePage(u, p)
  PROVE  ClonesIInv'
<1>1. PICK body \in PageBodies : SavePage(u, p, body, body.main)
  BY DEF CreatePage
<1> QED
  BY <1>1, SavePageStep

LEMMA UpdatePageStep ==
  ASSUME ClonesIInv, NEW p \in Pages, NEW u \in Editors, UpdatePage(u, p)
  PROVE  ClonesIInv'
<1>1. PICK body \in PageBodies :
        SavePage(u, p, [body EXCEPT !.parent = IF @ = Nil THEN template.pages[p].parent ELSE @,
                                    !.main = @ \/ template.pages[p].main], body.main)
  BY DEF UpdatePage
<1>2. PICK v : v = [body EXCEPT !.parent = IF @ = Nil THEN template.pages[p].parent ELSE @,
                               !.main = @ \/ template.pages[p].main]
  OBVIOUS
<1>3. template.pages[p] \in PageBodies
  BY DEF ClonesIInv, CopyShape, UpdatePage
<1>4. v \in PageBodies
  BY <1>2, <1>3 DEF PageBodies
<1> QED
  BY <1>1, <1>2, <1>4, SavePageStep

LEMMA ClearOtherMainPagesStep ==
  ASSUME ClonesIInv, NEW u \in Editors, ClearOtherMainPages(u)
  PROVE  ClonesIInv'
<1>1. CopyShape /\ CopyTypeOK
  BY DEF ClonesIInv
<1>2. PICK others : others = {p \in DOMAIN template.pages \ {editor[u]} : template.pages[p].main}
  OBVIOUS
<1>3. /\ template' = [template EXCEPT !.pages = [p \in DOMAIN template.pages |->
           [template.pages[p] EXCEPT !.main = @ /\ p \notin others]]]
      /\ editor' = [editor EXCEPT ![u] = Nil]
      /\ changes' = [changes EXCEPT !.pages = @ \cup others]
      /\ UNCHANGED <<clone, copy>>
  BY <1>2 DEF ClearOtherMainPages
<1>4. /\ DOMAIN changes' = {"records", "pages", "links"} /\ changes.records' = changes.records
      /\ changes.pages' = changes.pages \cup others /\ changes.links' = changes.links
  BY <1>1, <1>3 DEF CopyShape
<1>5. /\ DOMAIN template' = DOMAIN template /\ template.links' = template.links
      /\ template.refs' = template.refs
      /\ template.pages' = [p \in DOMAIN template.pages |->
           [template.pages[p] EXCEPT !.main = @ /\ p \notin others]]
  BY <1>1, <1>3 DEF CopyShape
<1>6. /\ DOMAIN template.pages' = DOMAIN template.pages
      /\ \A p \in DOMAIN template.pages :
           /\ template.pages'[p].parent = template.pages[p].parent
           /\ template.pages'[p].links = template.pages[p].links
           /\ template.pages'[p].main = (template.pages[p].main /\ p \notin others)
           /\ template.pages'[p] \in PageBodies
  <2>1. ASSUME NEW p \in DOMAIN template.pages, NEW v, v = [template.pages[p] EXCEPT !.main = @ /\ p \notin others]
        PROVE  /\ v.parent = template.pages[p].parent /\ v.links = template.pages[p].links
               /\ v.main = (template.pages[p].main /\ p \notin others) /\ v \in PageBodies
    <3>1. template.pages[p] \in PageBodies
      BY <1>1 DEF CopyShape
    <3> QED
      BY <2>1, <3>1 DEF PageBodies
  <2>2. DOMAIN template.pages' = DOMAIN template.pages
        /\ \A p \in DOMAIN template.pages :
             template.pages'[p] = [template.pages[p] EXCEPT !.main = @ /\ p \notin others]
    BY <1>5
  <2> QED
    BY <2>1, <2>2
<1>7. \A p \in DOMAIN template.pages : p \notin others => template.pages'[p].main = template.pages[p].main
  BY <1>1, <1>6 DEF CopyShape, PageBodies
<1>8. DOMAIN editor' = Editors
  BY <1>1, <1>3 DEF CopyShape
<1>9. CopyShape'
  BY <1>1, <1>3, <1>4, <1>5, <1>6, <1>7, <1>8 DEF CopyShape
<1>10. CopyTypeOK'
  BY <1>1, <1>3, <1>4, <1>5, <1>6 DEF CopyTypeOK
<1> QED
  BY <1>3, <1>4, <1>5, <1>6, <1>7, <1>9, <1>10, TemplateMoves

LEMMA DeletePageStep ==
  ASSUME ClonesIInv, NEW p \in Pages, DeletePage(p)
  PROVE  ClonesIInv'
<1>1. CopyShape /\ CopyTypeOK
  BY DEF ClonesIInv
<1>2. template' = [template EXCEPT !.pages = Without(template.pages, p)]
  BY DEF DeletePage
<1>3. /\ UNCHANGED <<clone, copy>> /\ DOMAIN changes' = {"records", "pages", "links"}
      /\ changes.records' = changes.records /\ changes.pages' = changes.pages \cup {p}
      /\ changes.links' = changes.links /\ editor' = editor
  BY <1>1, EditMarks DEF DeletePage
<1>4. /\ DOMAIN template' = DOMAIN template /\ template.links' = template.links
      /\ template.refs' = template.refs /\ template.pages' = Without(template.pages, p)
  BY <1>1, <1>2 DEF CopyShape
<1>5. /\ DOMAIN template.pages' = DOMAIN template.pages \ {p}
      /\ \A x \in DOMAIN template.pages' : template.pages'[x] = template.pages[x]
  BY <1>4 DEF Without
<1>6. CopyShape' /\ CopyTypeOK'
  BY <1>1, <1>3, <1>4, <1>5 DEF CopyShape, CopyTypeOK
<1> QED
  BY <1>3, <1>4, <1>5, <1>6, TemplateMoves

LEMMA SettingsStep ==
  ASSUME ClonesIInv, UpdateProjectTemplate \/ CloseTemplate \/ Withdraw
  PROVE  ClonesIInv'
<1>1. CopyShape /\ CopyTypeOK
  BY DEF ClonesIInv
<1>2. Edits("links", {}) /\ editor' = editor
  BY DEF UpdateProjectTemplate, CloseTemplate, Withdraw
<1>3. /\ DOMAIN template' = DOMAIN template /\ template.links' = template.links
      /\ template.refs' = template.refs /\ template.pages' = template.pages
  <2>1. CASE UpdateProjectTemplate
    <3>1. PICK listed, items \in BOOLEAN :
            template' = [template EXCEPT !.listed = listed, !.items = items, !.global = FALSE]
      BY <2>1 DEF UpdateProjectTemplate
    <3> QED
      BY <1>1, <3>1 DEF CopyShape
  <2>2. CASE CloseTemplate
    BY <1>1, <2>2 DEF CloseTemplate, CopyShape
  <2>3. CASE Withdraw
    BY <2>3 DEF Withdraw
  <2> QED
    BY <2>1, <2>2, <2>3
<1>4. /\ UNCHANGED <<clone, copy>> /\ DOMAIN changes' = {"records", "pages", "links"}
      /\ changes.records' = changes.records /\ changes.pages' = changes.pages /\ changes.links' = changes.links
  BY <1>1, <1>2, EditMarks
<1>5. CopyShape' /\ CopyTypeOK'
  BY <1>1, <1>2, <1>3, <1>4 DEF CopyShape, CopyTypeOK
<1> QED
  BY <1>3, <1>4, <1>5, TemplateMoves

\* A step of the request that leaves the template and what is marked alone.
LEMMA ClonesFrame ==
  ASSUME NEW new, Clones(new)
  PROVE  clone' = new /\ UNCHANGED <<template, withdrawn, editor, edits, changes>>
BY DEF Clones, Goes

\* A clone that stops has written nothing that stays.
LEMMA StopsStep ==
  ASSUME ClonesIInv, NEW pc \in {"refused", "failed"}, Stops(pc), DOMAIN copy'.refs = {},
         DOMAIN copy' = DOMAIN copy
  PROVE  ClonesIInv'
<1>1. CopyShape /\ CopyTypeOK
  BY DEF ClonesIInv
<1>2. /\ clone' = [NoClone EXCEPT !.pc = pc] /\ UNCHANGED <<template, editor, changes>>
  BY ClonesFrame DEF Stops
<1>3. /\ DOMAIN clone' = DOMAIN clone /\ clone'.pc = pc /\ DOMAIN clone'.refs = {}
      /\ DOMAIN clone'.pages = {} /\ clone'.todo = {} /\ clone'.granted = {}
  BY <1>1, <1>2 DEF NoClone, CopyShape
<1>4. CopyShape' /\ CopyTypeOK'
  BY <1>1, <1>2, <1>3 DEF CopyShape, CopyTypeOK
<1>5. LinksRead' /\ CallsBound' /\ PagesRead' /\ RefsRead' /\ RefsInserted' /\ RoleThere'
  BY <1>3 DEF LinksRead, CallsBound, PagesRead, RefsRead, RefsInserted, RoleThere, Cloning, Paged, Filled, CloneAt
<1> QED
  BY <1>4, <1>5 DEF ClonesIInv

LEMMA FindTemplateStep ==
  ASSUME ClonesIInv, FindTemplate
  PROVE  ClonesIInv'
<1>1. CopyShape /\ CopyTypeOK /\ clone.pc = "find" /\ copy' = copy
  BY DEF ClonesIInv, FindTemplate, CloneAt
<1>2. /\ DOMAIN clone.refs = {} /\ DOMAIN copy.refs = {}
  BY <1>1 DEF ClonesIInv, RefsRead, RefsInserted, Paged, Filled
<1>3. CASE \E items : Clones([clone EXCEPT !.pc = "read", !.items = items])
  <2>1. PICK items : Clones([clone EXCEPT !.pc = "read", !.items = items])
    BY <1>3
  <2>2. clone' = [clone EXCEPT !.pc = "read", !.items = items] /\ UNCHANGED <<template, editor, changes>>
    BY <2>1 DEF Clones, Goes
  <2>3. /\ DOMAIN clone' = DOMAIN clone /\ clone'.pc = "read" /\ clone'.refs = clone.refs
        /\ clone'.pages = clone.pages /\ clone'.todo = clone.todo /\ clone'.granted = clone.granted
    BY <1>1, <2>2 DEF CopyShape
  <2>4. CopyShape' /\ CopyTypeOK'
    BY <1>1, <2>2, <2>3 DEF CopyShape, CopyTypeOK
  <2>5. LinksRead' /\ CallsBound' /\ PagesRead' /\ RefsRead' /\ RefsInserted' /\ RoleThere'
    BY <1>1, <1>2, <2>3 DEF LinksRead, CallsBound, PagesRead, RefsRead, RefsInserted, RoleThere, Cloning, Paged, Filled, CloneAt
  <2> QED
    BY <2>4, <2>5 DEF ClonesIInv
<1>4. CASE Stops("refused")
  BY <1>1, <1>2, <1>4, StopsStep
<1> QED
  BY <1>3, <1>4 DEF FindTemplate

LEMMA ReadContainersStep ==
  ASSUME ClonesIInv, ReadContainers
  PROVE  ClonesIInv'
<1>1. CopyShape /\ CopyTypeOK /\ clone.pc = "read" /\ copy' = copy /\ changes' = Unchanged
  BY DEF ClonesIInv, ReadContainers, CloneAt
<1>2. /\ DOMAIN clone.refs = {} /\ DOMAIN copy.refs = {}
  BY <1>1 DEF ClonesIInv, RefsRead, RefsInserted, Paged, Filled
<1>3. clone' = [clone EXCEPT !.pc = "bind", !.links = template.links, !.calls = template.calls]
      /\ UNCHANGED <<template, editor>>
  BY DEF ReadContainers, Goes
<1>4. /\ DOMAIN clone' = DOMAIN clone /\ clone'.pc = "bind" /\ clone'.refs = clone.refs
      /\ clone'.pages = clone.pages /\ clone'.todo = clone.todo /\ clone'.granted = clone.granted
      /\ clone'.links = template.links
  BY <1>1, <1>3 DEF CopyShape
<1>5. CopyShape' /\ CopyTypeOK'
  BY <1>1, <1>3, <1>4 DEF CopyShape, CopyTypeOK, Unchanged, Cloning
<1>6. LinksRead'
  BY <1>3, <1>4 DEF LinksRead
<1>7. CallsBound' /\ PagesRead' /\ RefsRead' /\ RefsInserted' /\ RoleThere'
  BY <1>1, <1>2, <1>4 DEF CallsBound, PagesRead, RefsRead, RefsInserted, RoleThere, Cloning, Paged, Filled, CloneAt
<1> QED
  BY <1>5, <1>6, <1>7 DEF ClonesIInv

LEMMA BindCredentialsStep ==
  ASSUME ClonesIInv, BindCredentials
  PROVE  ClonesIInv'
<1>1. CopyShape /\ CopyTypeOK /\ clone.pc = "bind" /\ copy' = copy
  BY DEF ClonesIInv, BindCredentials, CloneAt
<1>2. /\ DOMAIN clone.refs = {} /\ DOMAIN copy.refs = {}
  BY <1>1 DEF ClonesIInv, RefsRead, RefsInserted, Paged, Filled
<1>3. CASE Stops("refused")
  BY <1>1, <1>2, <1>3, StopsStep
<1>4. ASSUME NEW asked \in SUBSET Connections, NEW bindings \in [asked -> Connections], NEW ids \in SUBSET Connections,
             DOMAIN bindings = Required(clone.calls), Allowed(clone.calls, bindings),
             Clones([clone EXCEPT !.pc = "grant", !.todo = Selected(ids, bindings),
                                  !.calls = BoundCalls(clone.calls, bindings)])
      PROVE  ClonesIInv'
  <2>1. /\ clone' = [clone EXCEPT !.pc = "grant", !.todo = Selected(ids, bindings),
                                  !.calls = BoundCalls(clone.calls, bindings)]
        /\ UNCHANGED <<template, editor, changes>>
    BY <1>4 DEF Clones, Goes
  <2>2. /\ DOMAIN clone' = DOMAIN clone /\ clone'.pc = "grant" /\ clone'.refs = clone.refs
        /\ clone'.pages = clone.pages /\ clone'.granted = clone.granted /\ clone'.links = clone.links
        /\ clone'.todo = Selected(ids, bindings) /\ clone'.calls = BoundCalls(clone.calls, bindings)
    BY <1>1, <2>1 DEF CopyShape
  <2>3. \A x \in DOMAIN bindings : bindings[x] \in Selected(ids, bindings)
    BY DEF Selected, Range
  <2>4. Selected(ids, bindings) \subseteq Connections
    BY <1>4 DEF Selected, Range
  <2>5. CopyShape' /\ CopyTypeOK'
    BY <1>1, <2>1, <2>2, <2>4 DEF CopyShape, CopyTypeOK, Cloning
  <2>6. LinksRead'
    BY <1>1, <2>1, <2>2 DEF ClonesIInv, LinksRead, Cloning
  <2>7. CallsBound'
    <3>1. ASSUME NEW k \in BoundCalls(clone.calls, bindings)
          PROVE  k[2] \in Selected(ids, bindings) /\ (k[3] = AnyHost \/ <<k[2], k[3]>> \in Allows)
      <4>1. PICK j \in clone.calls : k = <<j[1], bindings[j[2]], j[3]>>
        BY <3>1 DEF BoundCalls
      <4>2. k[2] = bindings[j[2]] /\ k[3] = j[3]
        BY <4>1
      <4>3. j[2] \in DOMAIN bindings
        BY <1>4 DEF Required
      <4>4. j[3] # AnyHost => <<bindings[j[2]], j[3]>> \in Allows
        BY <1>4 DEF Allowed
      <4> QED
        BY <2>3, <4>2, <4>3, <4>4
    <3> QED
      BY <1>1, <2>2, <3>1 DEF CallsBound, Paged
  <2>8. PagesRead' /\ RefsRead' /\ RefsInserted' /\ RoleThere'
    BY <1>1, <1>2, <2>2 DEF PagesRead, RefsRead, RefsInserted, RoleThere, Paged, Filled, CloneAt
  <2> QED
    BY <2>5, <2>6, <2>7, <2>8 DEF ClonesIInv
<1> QED
  BY <1>3, <1>4 DEF BindCredentials

LEMMA GrantSelectedStep ==
  ASSUME ClonesIInv, GrantSelected
  PROVE  ClonesIInv'
<1>1. CopyShape /\ CopyTypeOK /\ clone.pc = "grant" /\ copy' = copy
  BY DEF ClonesIInv, GrantSelected, CloneAt
<1>2. /\ DOMAIN clone.refs = {} /\ DOMAIN copy.refs = {}
  BY <1>1 DEF ClonesIInv, RefsRead, RefsInserted, Paged, Filled
<1>3. CASE Stops("failed")
  BY <1>1, <1>2, <1>3, StopsStep
<1>4. ASSUME clone.todo = {}, Clones([clone EXCEPT !.pc = "containers"])
      PROVE  ClonesIInv'
  <2>1. clone' = [clone EXCEPT !.pc = "containers"] /\ UNCHANGED <<template, editor, changes>>
    BY <1>4 DEF Clones, Goes
  <2>2. /\ DOMAIN clone' = DOMAIN clone /\ clone'.pc = "containers" /\ clone'.refs = clone.refs
        /\ clone'.pages = clone.pages /\ clone'.granted = clone.granted /\ clone'.links = clone.links
        /\ clone'.todo = clone.todo /\ clone'.calls = clone.calls
    BY <1>1, <2>1 DEF CopyShape
  <2>3. CopyShape' /\ CopyTypeOK'
    BY <1>1, <2>1, <2>2 DEF CopyShape, CopyTypeOK, Cloning
  <2>4. LinksRead' /\ CallsBound'
    BY <1>1, <1>4, <2>1, <2>2 DEF ClonesIInv, LinksRead, CallsBound, Cloning, Paged
  <2>5. PagesRead' /\ RefsRead' /\ RefsInserted' /\ RoleThere'
    BY <1>1, <1>2, <2>2 DEF PagesRead, RefsRead, RefsInserted, RoleThere, Paged, Filled, CloneAt
  <2> QED
    BY <2>3, <2>4, <2>5 DEF ClonesIInv
<1>5. ASSUME NEW c \in clone.todo,
             Clones([clone EXCEPT !.granted = clone.granted \cup {c}, !.todo = clone.todo \ {c}])
      PROVE  ClonesIInv'
  <2>1. clone' = [clone EXCEPT !.granted = clone.granted \cup {c}, !.todo = clone.todo \ {c}]
        /\ UNCHANGED <<template, editor, changes>>
    BY <1>5 DEF Clones, Goes
  <2>2. /\ DOMAIN clone' = DOMAIN clone /\ clone'.pc = "grant" /\ clone'.refs = clone.refs
        /\ clone'.pages = clone.pages /\ clone'.granted = clone.granted \cup {c} /\ clone'.links = clone.links
        /\ clone'.todo = clone.todo \ {c} /\ clone'.calls = clone.calls
    BY <1>1, <2>1 DEF CopyShape
  <2>3. CopyShape'
    BY <1>1, <2>1, <2>2 DEF CopyShape, Cloning
  <2>4. LinksRead' /\ CallsBound'
    BY <1>1, <2>1, <2>2 DEF ClonesIInv, LinksRead, CallsBound, Cloning, Paged
  <2>5. PagesRead' /\ RefsRead' /\ RefsInserted' /\ RoleThere'
    BY <1>1, <1>2, <2>2 DEF PagesRead, RefsRead, RefsInserted, RoleThere, Paged, Filled, CloneAt
  <2>6. c \in Connections
    BY <1>1, <1>5 DEF CopyShape
  <2>7. CopyTypeOK'
    BY <1>1, <2>1, <2>2, <2>6 DEF CopyTypeOK
  <2> QED
    BY <2>3, <2>4, <2>5, <2>7 DEF ClonesIInv
<1> QED
  BY <1>3, <1>4, <1>5 DEF GrantSelected

LEMMA CloneContainersStep ==
  ASSUME ClonesIInv, CloneContainers
  PROVE  ClonesIInv'
<1>1. CopyShape /\ CopyTypeOK /\ clone.pc = "containers"
  BY DEF ClonesIInv, CloneContainers, CloneAt
<1>2. /\ DOMAIN clone.refs = {} /\ DOMAIN copy.refs = {}
  BY <1>1 DEF ClonesIInv, RefsRead, RefsInserted, Paged, Filled
<1>3. /\ clone' = [clone EXCEPT !.pc = "pages"] /\ UNCHANGED <<template, editor, changes>>
      /\ copy' = [copy EXCEPT !.links = clone.links, !.calls = clone.calls]
  BY DEF CloneContainers, Clones, Goes
<1>4. /\ DOMAIN clone' = DOMAIN clone /\ clone'.pc = "pages" /\ clone'.refs = clone.refs
      /\ clone'.pages = clone.pages /\ clone'.granted = clone.granted /\ clone'.links = clone.links
      /\ clone'.todo = clone.todo /\ clone'.calls = clone.calls
      /\ DOMAIN copy' = DOMAIN copy /\ copy'.refs = copy.refs /\ copy'.calls = clone.calls
  BY <1>1, <1>3 DEF CopyShape
<1>5. CopyShape' /\ CopyTypeOK'
  BY <1>1, <1>2, <1>3, <1>4 DEF CopyShape, CopyTypeOK, Cloning
<1>6. LinksRead' /\ CallsBound'
  BY <1>1, <1>3, <1>4 DEF ClonesIInv, LinksRead, CallsBound, Cloning, Paged
<1>7. PagesRead' /\ RefsRead' /\ RefsInserted' /\ RoleThere'
  BY <1>1, <1>2, <1>4 DEF PagesRead, RefsRead, RefsInserted, RoleThere, Paged, Filled, CloneAt
<1> QED
  BY <1>5, <1>6, <1>7 DEF ClonesIInv

LEMMA ReadPagesStep ==
  ASSUME ClonesIInv, ReadPages
  PROVE  ClonesIInv'
<1>1. CopyShape /\ CopyTypeOK /\ clone.pc = "pages" /\ copy' = copy
  BY DEF ClonesIInv, ReadPages, CloneAt
<1>2. /\ DOMAIN clone.refs = {} /\ DOMAIN copy.refs = {}
  BY <1>1 DEF ClonesIInv, RefsRead, RefsInserted, Paged, Filled
<1>3. /\ clone' = [clone EXCEPT !.pc = "insertPages", !.pages = template.pages]
      /\ UNCHANGED <<template, editor, changes>>
  BY DEF ReadPages, Clones, Goes
<1>4. /\ DOMAIN clone' = DOMAIN clone /\ clone'.pc = "insertPages" /\ clone'.refs = clone.refs
      /\ clone'.pages = template.pages /\ clone'.granted = clone.granted /\ clone'.links = clone.links
      /\ clone'.todo = clone.todo /\ clone'.calls = clone.calls
  BY <1>1, <1>3 DEF CopyShape
<1>5. CopyShape' /\ CopyTypeOK'
  BY <1>1, <1>3, <1>4 DEF CopyShape, CopyTypeOK, Cloning
<1>6. LinksRead' /\ CallsBound'
  BY <1>1, <1>3, <1>4 DEF ClonesIInv, LinksRead, CallsBound, Cloning, Paged
<1>7. PagesRead'
  BY <1>3, <1>4 DEF PagesRead, Paged
<1>8. RefsRead' /\ RefsInserted' /\ RoleThere'
  BY <1>1, <1>2, <1>4 DEF RefsRead, RefsInserted, RoleThere, Paged, Filled, CloneAt
<1> QED
  BY <1>5, <1>6, <1>7, <1>8 DEF ClonesIInv

LEMMA InsertPagesStep ==
  ASSUME ClonesIInv, InsertPages
  PROVE  ClonesIInv'
<1>1. CopyShape /\ CopyTypeOK /\ clone.pc = "insertPages"
  BY DEF ClonesIInv, InsertPages, CloneAt
<1>2. /\ DOMAIN clone.refs = {} /\ DOMAIN copy.refs = {}
  BY <1>1 DEF ClonesIInv, RefsRead, RefsInserted, Paged, Filled
<1>3. PICK inserted : inserted = [p \in DOMAIN clone.pages |->
        [parent |-> Parent(p), main |-> clone.pages[p].main, links |-> {"template"} \X clone.pages[p].links]]
  OBVIOUS
<1>4. /\ clone' = [clone EXCEPT !.pages = <<>>, !.pc = IF clone.items THEN "items" ELSE "roles",
                                !.todo = IF clone.items THEN Schemas \ {AuthSchema} ELSE {}]
      /\ copy' = [copy EXCEPT !.pages = inserted] /\ UNCHANGED <<template, editor, changes>>
  BY <1>3 DEF InsertPages, Clones, Goes
<1>5. /\ DOMAIN clone' = DOMAIN clone /\ clone'.pc = (IF clone.items THEN "items" ELSE "roles")
      /\ clone'.refs = clone.refs /\ clone'.pages = <<>> /\ clone'.granted = clone.granted
      /\ clone'.links = clone.links /\ clone'.calls = clone.calls /\ clone'.items = clone.items
      /\ clone'.todo = (IF clone.items THEN Schemas \ {AuthSchema} ELSE {})
      /\ DOMAIN copy' = DOMAIN copy /\ copy'.refs = copy.refs /\ copy'.calls = copy.calls
      /\ copy'.pages = inserted
  BY <1>1, <1>4 DEF CopyShape
<1>6. clone'.pc \in {"items", "roles"}
  BY <1>5
<1>7. CopyShape' /\ CopyTypeOK'
  BY <1>1, <1>2, <1>4, <1>5, <1>6 DEF CopyShape, CopyTypeOK, Cloning
<1>8. LinksRead' /\ CallsBound'
  BY <1>1, <1>4, <1>5, <1>6 DEF ClonesIInv, LinksRead, CallsBound, Cloning, Paged
<1>9. DOMAIN inserted = DOMAIN clone.pages
      /\ \A p \in DOMAIN inserted : inserted[p].parent = Parent(p) /\ inserted[p].main = clone.pages[p].main
                                  /\ inserted[p].links = {"template"} \X clone.pages[p].links
  BY <1>3
<1>10. PagesRead'
  <2>1. ASSUME NEW p \in DOMAIN template.pages \ changes.pages
        PROVE  /\ p \in DOMAIN inserted /\ inserted[p].main = template.pages[p].main
               /\ inserted[p].links = {"template"} \X template.pages[p].links
               /\ template.pages[p].parent \in DOMAIN template.pages \ changes.pages
                    => inserted[p].parent = <<"copy", template.pages[p].parent>>
    <3>1. /\ p \in DOMAIN clone.pages /\ clone.pages[p].parent = template.pages[p].parent
          /\ clone.pages[p].main = template.pages[p].main /\ clone.pages[p].links = template.pages[p].links
      BY <1>1, <2>1 DEF ClonesIInv, PagesRead
    <3>2. ASSUME template.pages[p].parent \in DOMAIN template.pages \ changes.pages
          PROVE  Parent(p) = <<"copy", template.pages[p].parent>>
      <4>1. template.pages[p].parent \in DOMAIN clone.pages
        BY <1>1, <3>2 DEF ClonesIInv, PagesRead
      <4>2. template.pages[p].parent # Nil
        BY <1>1, <3>2, TemplateAssumption DEF CopyTypeOK
      <4> QED
        BY <3>1, <4>1, <4>2 DEF Parent
    <3> QED
      BY <1>9, <3>1, <3>2
  <2>2. PagesAreCopied'
    BY <1>4, <1>5, <2>1 DEF PagesAreCopied
  <2>3. ASSUME NEW p \in DOMAIN inserted, NEW q \in Pages, NEW where \in {"copy", "template"},
               inserted[p].parent = <<where, q>>
        PROVE  where = (IF q \in DOMAIN clone.pages THEN "copy" ELSE "template")
    <3>1. Parent(p) = <<where, q>>
      BY <1>9, <2>3
    <3>2. <<where, q>> # Nil
      BY <2>3, TemplateAssumption
    <3>3. <<IF clone.pages[p].parent \in DOMAIN clone.pages THEN "copy" ELSE "template", clone.pages[p].parent>>
            = <<where, q>>
      BY <3>1, <3>2 DEF Parent
    <3> QED
      BY <3>3
  <2>4. "copy" # "template"
    OBVIOUS
  <2>5. ASSUME NEW p \in DOMAIN inserted, NEW q \in Pages
        PROVE  /\ inserted[p].parent = <<"copy", q>> => q \in DOMAIN inserted
               /\ inserted[p].parent = <<"template", q>> => q \notin DOMAIN clone.pages
    BY <1>9, <2>3, <2>4
  <2>6. \A q \in Pages : q \notin DOMAIN clone.pages => Gone(template.pages, changes.pages, q)
    BY <1>1 DEF ClonesIInv, PagesRead, Gone
  <2>7. ParentsKnown'
    BY <1>4, <1>5, <2>5, <2>6 DEF ParentsKnown, Gone
  <2> QED
    BY <1>5, <1>6, <2>2, <2>7 DEF PagesRead
<1>11. RefsRead'
  <2>1. CASE clone.items
    <3>1. clone'.pc = "items" /\ clone'.todo = Schemas \ {AuthSchema}
      BY <1>5, <2>1
    <3>2. \A d \in DOMAIN template.refs : d[1] \in Schemas
      BY <1>1 DEF CopyTypeOK, Schemas
    <3> QED
      BY <1>2, <1>4, <1>5, <3>1, <3>2 DEF RefsRead, Paged, Filled
  <2>2. CASE ~clone.items
    BY <1>2, <1>5, <2>2 DEF RefsRead, Paged, Filled
  <2> QED
    BY <2>1, <2>2
<1>12. RefsInserted' /\ RoleThere'
  BY <1>2, <1>5, <1>6 DEF RefsInserted, RoleThere, Filled, CloneAt
<1> QED
  BY <1>7, <1>8, <1>10, <1>11, <1>12 DEF ClonesIInv

\* Where a step changes neither the copied pages nor the bound calls.
LEMMA PagesStay ==
  ASSUME ClonesIInv, UNCHANGED <<template, changes>>, clone.pc \in Paged, clone'.pc \in Paged,
         clone'.granted = clone.granted, clone'.links = clone.links, clone'.calls = clone.calls,
         copy'.pages = copy.pages, copy'.calls = copy.calls
  PROVE  LinksRead' /\ CallsBound' /\ PagesRead'
<1>1. LinksRead'
  BY DEF ClonesIInv, LinksRead, Cloning, Paged
<1>2. CallsBound'
  BY DEF ClonesIInv, CallsBound, Cloning, Paged
<1>3. PagesRead'
  <2>1. PagesAreCopied'
    BY DEF ClonesIInv, PagesRead, PagesAreCopied
  <2>2. ParentsKnown'
    BY DEF ClonesIInv, PagesRead, ParentsKnown, Gone
  <2> QED
    BY <2>1, <2>2 DEF ClonesIInv, PagesRead, Paged
<1> QED
  BY <1>1, <1>2, <1>3

LEMMA ReadItemsStep ==
  ASSUME ClonesIInv, ReadItems
  PROVE  ClonesIInv'
<1>1. CopyShape /\ CopyTypeOK /\ clone.pc = "items" /\ copy' = copy
  BY DEF ClonesIInv, ReadItems, CloneAt
<1>2. DOMAIN copy.refs = {} /\ clone.items
  BY <1>1 DEF ClonesIInv, RefsInserted, RefsRead, Filled
<1>3. ASSUME clone.todo = {},
             Clones([clone EXCEPT !.pc = "insertItems", !.todo = {d[1] : d \in DOMAIN clone.refs}])
      PROVE  ClonesIInv'
  <2>1. /\ clone' = [clone EXCEPT !.pc = "insertItems", !.todo = {d[1] : d \in DOMAIN clone.refs}]
        /\ UNCHANGED <<template, editor, changes>>
    BY <1>3 DEF Clones, Goes
  <2>2. /\ DOMAIN clone' = DOMAIN clone /\ clone'.pc = "insertItems" /\ clone'.refs = clone.refs
        /\ clone'.pages = clone.pages /\ clone'.granted = clone.granted /\ clone'.links = clone.links
        /\ clone'.calls = clone.calls /\ clone'.items = clone.items
        /\ clone'.todo = {d[1] : d \in DOMAIN clone.refs}
    BY <1>1, <2>1 DEF CopyShape
  <2>3. clone'.todo \subseteq Schemas
    BY <1>1, <2>2 DEF CopyTypeOK, Schemas
  <2>4. CopyShape' /\ CopyTypeOK'
    BY <1>1, <1>2, <2>1, <2>2, <2>3 DEF CopyShape, CopyTypeOK, Cloning
  <2>5. LinksRead' /\ CallsBound' /\ PagesRead'
    BY <1>1, <2>1, <2>2, PagesStay DEF Paged
  <2>6. \A d \in DOMAIN template.refs \ changes.records : d[1] # AuthSchema => AsRead(d)
    BY <1>1, <1>3 DEF ClonesIInv, RefsRead
  <2>7. RefsRead'
    BY <1>2, <2>1, <2>2, <2>6 DEF RefsRead, AsRead, Paged, Filled
  <2>8. RefsInserted' /\ RoleThere'
    BY <1>1, <1>2, <2>2 DEF RefsInserted, RoleThere, Filled, CloneAt
  <2> QED
    BY <2>4, <2>5, <2>7, <2>8 DEF ClonesIInv
<1>4. ASSUME NEW s \in clone.todo,
             Clones([clone EXCEPT !.todo = clone.todo \ {s},
                       !.refs = Joined(clone.refs, [d \in Of(s, DOMAIN template.refs) |-> template.refs[d]])])
      PROVE  ClonesIInv'
  <2>1. PICK found : found = [d \in Of(s, DOMAIN template.refs) |-> template.refs[d]]
    OBVIOUS
  <2>2. /\ clone' = [clone EXCEPT !.todo = clone.todo \ {s}, !.refs = Joined(clone.refs, found)]
        /\ UNCHANGED <<template, editor, changes>>
    BY <1>4, <2>1 DEF Clones, Goes
  <2>3. /\ DOMAIN clone' = DOMAIN clone /\ clone'.pc = "items" /\ clone'.refs = Joined(clone.refs, found)
        /\ clone'.pages = clone.pages /\ clone'.granted = clone.granted /\ clone'.links = clone.links
        /\ clone'.calls = clone.calls /\ clone'.items = clone.items
        /\ clone'.todo = clone.todo \ {s}
    BY <1>1, <2>2 DEF CopyShape
  <2>4. /\ DOMAIN found = {d \in DOMAIN template.refs : d[1] = s}
        /\ \A d \in DOMAIN found : found[d] = template.refs[d]
    BY <2>1 DEF Of
  <2>5. \A d \in DOMAIN clone.refs : d[1] # s
    BY <1>1, <1>4 DEF ClonesIInv, RefsRead
  <2>6. /\ DOMAIN clone'.refs = DOMAIN clone.refs \cup DOMAIN found
        /\ \A d \in DOMAIN clone.refs : clone'.refs[d] = clone.refs[d]
        /\ \A d \in DOMAIN found : clone'.refs[d] = template.refs[d]
    BY <2>3, <2>4, <2>5 DEF Joined
  <2>7. CopyShape'
    BY <1>1, <2>2, <2>3, <2>4, <2>6 DEF CopyShape, Cloning
  <2>8. CopyTypeOK'
    BY <1>1, <1>2, <2>2, <2>3, <2>4, <2>6 DEF CopyTypeOK
  <2>9. LinksRead' /\ CallsBound' /\ PagesRead'
    BY <1>1, <2>2, <2>3, PagesStay DEF Paged
  <2>10. RefsRead'
    <3>1. \A d \in DOMAIN clone'.refs : d[1] \notin clone'.todo
      BY <1>1, <2>3, <2>4, <2>6 DEF ClonesIInv, RefsRead
    <3>2. ASSUME NEW d \in DOMAIN template.refs \ changes.records, d[1] # AuthSchema, d[1] \notin clone.todo \ {s}
          PROVE  d \in DOMAIN clone'.refs /\ clone'.refs[d] = template.refs[d]
      <4>1. CASE d[1] = s
        BY <2>4, <2>6, <4>1
      <4>2. CASE d[1] # s
        BY <1>1, <2>6, <3>2, <4>2 DEF ClonesIInv, RefsRead, AsRead
      <4> QED
        BY <4>1, <4>2
    <3> QED
      BY <1>2, <2>2, <2>3, <3>1, <3>2 DEF RefsRead, AsRead, Paged, Filled
  <2>11. RefsInserted' /\ RoleThere'
    BY <1>1, <1>2, <2>3 DEF RefsInserted, RoleThere, Filled, CloneAt
  <2> QED
    BY <2>7, <2>8, <2>9, <2>10, <2>11 DEF ClonesIInv
<1> QED
  BY <1>3, <1>4 DEF ReadItems

\* What is inserted of one container, once all have been read.
LEMMA InsertsStep ==
  ASSUME ClonesIInv, clone.pc = "insertItems", NEW s \in clone.todo, Inserts(s, DOMAIN clone.refs)
  PROVE  ClonesIInv'
<1>1. CopyShape /\ CopyTypeOK
  BY DEF ClonesIInv
<1>2. PICK known : known = DOMAIN clone.refs
  OBVIOUS
<1>3. PICK new : new = [d \in Of(s, DOMAIN clone.refs) |-> Remapped(d, known)]
  OBVIOUS
<1>4. /\ clone' = [clone EXCEPT !.todo = clone.todo \ {s}] /\ UNCHANGED <<template, editor, changes>>
      /\ copy' = [copy EXCEPT !.refs = Joined(copy.refs, new)]
  BY <1>2, <1>3 DEF Inserts, Clones, Goes
<1>5. /\ DOMAIN clone' = DOMAIN clone /\ clone'.pc = "insertItems" /\ clone'.refs = clone.refs
      /\ clone'.pages = clone.pages /\ clone'.granted = clone.granted /\ clone'.links = clone.links
      /\ clone'.calls = clone.calls /\ clone'.todo = clone.todo \ {s}
      /\ DOMAIN copy' = DOMAIN copy /\ copy'.pages = copy.pages /\ copy'.calls = copy.calls
      /\ copy'.refs = Joined(copy.refs, new)
  BY <1>1, <1>4 DEF CopyShape
<1>6. /\ DOMAIN new = {d \in DOMAIN clone.refs : d[1] = s}
      /\ \A d \in DOMAIN new : new[d] = Remapped(d, known)
  BY <1>3 DEF Of
<1>7. /\ DOMAIN copy.refs = {d \in DOMAIN clone.refs : d[1] \notin clone.todo}
      /\ \A d \in DOMAIN copy.refs : copy.refs[d] = Remapped(d, known)
  BY <1>2 DEF ClonesIInv, RefsInserted
<1>8. /\ DOMAIN copy'.refs = DOMAIN copy.refs \cup DOMAIN new
      /\ \A d \in DOMAIN copy'.refs : copy'.refs[d] = Remapped(d, known)
  BY <1>5, <1>6, <1>7 DEF Joined
<1>9. CopyShape'
  BY <1>1, <1>4, <1>5 DEF CopyShape, Cloning
<1>10. ASSUME NEW d \in DOMAIN copy'.refs
       PROVE  Remapped(d, known) \subseteq {"copy", "template"} \X Records
  <2>1. clone.refs[d] \subseteq Records
    BY <1>1, <1>6, <1>7, <1>8, <1>10 DEF CopyShape
  <2>2. \A e \in clone.refs[d] :
          <<IF <<d[1], e[1]>> \in clone.links /\ e \in known THEN "copy" ELSE "template", e>>
            \in {"copy", "template"} \X Records
    BY <2>1
  <2> QED
    BY <2>2 DEF Remapped
<1>11. CopyTypeOK'
  BY <1>1, <1>4, <1>5, <1>8, <1>10 DEF CopyTypeOK
<1>12. LinksRead' /\ CallsBound' /\ PagesRead'
  BY <1>4, <1>5, PagesStay DEF Paged
<1>13. RefsRead'
  BY <1>4, <1>5 DEF ClonesIInv, RefsRead, AsRead, Paged, Filled
<1>14. RefsInserted'
  <2>2. \A d : Remapped(d, DOMAIN clone.refs)' = Remapped(d, known)
    BY <1>2, <1>5 DEF Remapped
  <2>3. DOMAIN copy'.refs = {d \in DOMAIN clone'.refs : d[1] \notin clone'.todo}
    BY <1>5, <1>6, <1>7, <1>8
  <2> QED
    BY <1>5, <1>8, <2>2, <2>3 DEF RefsInserted, Filled
<1>15. RoleThere'
  BY <1>5 DEF RoleThere, CloneAt
<1> QED
  BY <1>9, <1>11, <1>12, <1>13, <1>14, <1>15 DEF ClonesIInv

\* A step that only moves on.
LEMMA InsertDoneStep ==
  ASSUME ClonesIInv, clone.pc = "insertItems", InsertDone
  PROVE  ClonesIInv'
<1>1. CopyShape /\ CopyTypeOK /\ copy' = copy
  BY DEF ClonesIInv, InsertDone
<1>2. clone' = [clone EXCEPT !.pc = "roles"] /\ UNCHANGED <<template, editor, changes>>
  BY DEF InsertDone, Clones, Goes
<1>3. /\ DOMAIN clone' = DOMAIN clone /\ clone'.pc = "roles" /\ clone'.refs = clone.refs
      /\ clone'.pages = clone.pages /\ clone'.granted = clone.granted /\ clone'.links = clone.links
      /\ clone'.calls = clone.calls /\ clone'.todo = clone.todo /\ clone'.items = clone.items
  BY <1>1, <1>2 DEF CopyShape
<1>4. CopyShape' /\ CopyTypeOK'
  BY <1>1, <1>2, <1>3 DEF CopyShape, CopyTypeOK, Cloning
<1>5. LinksRead' /\ CallsBound' /\ PagesRead'
  BY <1>1, <1>2, <1>3, PagesStay DEF Paged
<1>6. RefsRead'
  BY <1>2, <1>3 DEF ClonesIInv, RefsRead, AsRead, Paged, Filled
<1>7. RefsInserted'
  <2>1. \A d : Remapped(d, DOMAIN clone.refs)' = Remapped(d, DOMAIN clone.refs)
    BY <1>3 DEF Remapped
  <2>2. DOMAIN copy.refs = DOMAIN clone.refs
    BY DEF ClonesIInv, RefsInserted, InsertDone
  <2>3. \A d \in DOMAIN copy.refs : copy.refs[d] = Remapped(d, DOMAIN clone.refs)
    BY DEF ClonesIInv, RefsInserted
  <2> QED
    BY <1>1, <1>3, <2>1, <2>2, <2>3 DEF RefsInserted, Filled
<1>8. RoleThere'
  BY <1>3 DEF RoleThere, CloneAt
<1> QED
  BY <1>4, <1>5, <1>6, <1>7, <1>8 DEF ClonesIInv

LEMMA EnsureRoleStep ==
  ASSUME ClonesIInv, EnsureRole
  PROVE  ClonesIInv'
<1>1. CopyShape /\ CopyTypeOK /\ clone.pc = "roles"
  BY DEF ClonesIInv, EnsureRole, CloneAt
<1>2. PICK admin : admin = (Of("role", DOMAIN copy.refs) = {})
  OBVIOUS
<1>3. /\ clone' = [clone EXCEPT !.pc = "done"] /\ UNCHANGED <<template, editor, changes>>
      /\ copy' = [copy EXCEPT !.admin = admin]
  BY <1>2 DEF EnsureRole, Clones, Goes
<1>4. /\ DOMAIN clone' = DOMAIN clone /\ clone'.pc = "done" /\ clone'.refs = clone.refs
      /\ clone'.pages = clone.pages /\ clone'.granted = clone.granted /\ clone'.links = clone.links
      /\ clone'.calls = clone.calls /\ clone'.todo = clone.todo /\ clone'.items = clone.items
      /\ DOMAIN copy' = DOMAIN copy /\ copy'.pages = copy.pages /\ copy'.calls = copy.calls
      /\ copy'.refs = copy.refs /\ copy'.admin = admin
  BY <1>1, <1>3 DEF CopyShape
<1>5. CopyShape' /\ CopyTypeOK'
  BY <1>1, <1>3, <1>4 DEF CopyShape, CopyTypeOK, Cloning
<1>6. LinksRead' /\ CallsBound' /\ PagesRead'
  BY <1>1, <1>3, <1>4, PagesStay DEF Paged
<1>7. RefsRead'
  BY <1>1, <1>3, <1>4 DEF ClonesIInv, RefsRead, AsRead, Paged, Filled
<1>8. RefsInserted'
  <2>1. \A d : Remapped(d, DOMAIN clone.refs)' = Remapped(d, DOMAIN clone.refs)
    BY <1>4 DEF Remapped
  <2>2. /\ DOMAIN copy.refs = DOMAIN clone.refs
        /\ \A d \in DOMAIN copy.refs : copy.refs[d] = Remapped(d, DOMAIN clone.refs)
    BY <1>1 DEF ClonesIInv, RefsInserted
  <2> QED
    BY <1>4, <2>1, <2>2 DEF RefsInserted, Filled
<1>9. RoleThere'
  BY <1>2, <1>4 DEF RoleThere, Of
<1> QED
  BY <1>5, <1>6, <1>7, <1>8, <1>9 DEF ClonesIInv

LEMMA CloneFailsStep ==
  ASSUME ClonesIInv, CloneFails
  PROVE  ClonesIInv'
<1>1. DOMAIN copy = {"links", "calls", "pages", "refs", "admin"}
  BY DEF ClonesIInv, CopyShape
<1>2. copy' = NoCopy
  BY DEF CloneFails
<1>3. DOMAIN copy'.refs = {} /\ DOMAIN copy' = DOMAIN copy
  BY <1>1, <1>2 DEF NoCopy
<1>4. Stops("failed")
  BY DEF CloneFails
<1> QED
  BY <1>3, <1>4, StopsStep

LEMMA ClonesQuiet == ClonesIInv /\ UNCHANGED templateVars => ClonesIInv'
<1> SUFFICES ASSUME ClonesIInv, UNCHANGED templateVars PROVE ClonesIInv'
  OBVIOUS
<1>1. UNCHANGED <<template, editor, clone, copy, changes>>
  BY DEF templateVars
<1>2. CopyTypeOK' /\ CopyShape'
  BY <1>1 DEF ClonesIInv, CopyTypeOK, CopyShape
<1> QED
  BY <1>1, <1>2, TemplateMoves

LEMMA ClonesStep == ClonesIInv /\ [ClonesNext]_templateVars => ClonesIInv'
<1> SUFFICES ASSUME ClonesIInv, [ClonesNext]_templateVars PROVE ClonesIInv'
  OBVIOUS
<1>1. CASE FindTemplate
  BY <1>1, FindTemplateStep
<1>2. CASE ReadContainers
  BY <1>2, ReadContainersStep
<1>3. CASE BindCredentials
  BY <1>3, BindCredentialsStep
<1>4. CASE GrantSelected
  BY <1>4, GrantSelectedStep
<1>5. CASE CloneContainers
  BY <1>5, CloneContainersStep
<1>6. CASE ReadPages
  BY <1>6, ReadPagesStep
<1>7. CASE InsertPages
  BY <1>7, InsertPagesStep
<1>8. CASE ReadItems
  BY <1>8, ReadItemsStep
<1>9. CASE InsertItems
  BY <1>9, InsertsStep, InsertDoneStep DEF InsertItems, CloneAt
<1>10. CASE EnsureRole
  BY <1>10, EnsureRoleStep
<1>11. CASE CloneFails
  BY <1>11, CloneFailsStep
<1>12. CASE SaveContainer
  BY <1>12, SaveContainerStep
<1>13. CASE UpdateProjectTemplate \/ CloseTemplate \/ Withdraw
  BY <1>13, SettingsStep
<1>14. CASE \E d \in Records : SaveRecord(d) \/ DeleteRecord(d)
  BY <1>14, SaveRecordStep, DeleteRecordStep
<1>15. CASE \E p \in Pages : DeletePage(p) \/ \E u \in Editors : CreatePage(u, p) \/ UpdatePage(u, p)
  BY <1>15, DeletePageStep, CreatePageStep, UpdatePageStep
<1>16. CASE \E u \in Editors : ClearOtherMainPages(u)
  BY <1>16, ClearOtherMainPagesStep
<1>17. CASE UNCHANGED templateVars
  BY <1>17, ClonesQuiet
<1> QED
  BY <1>1, <1>2, <1>3, <1>4, <1>5, <1>6, <1>7, <1>8, <1>9, <1>10, <1>11, <1>12, <1>13, <1>14, <1>15, <1>16,
     <1>17 DEF ClonesNext

\* The template, the clone's own reads and the copy keep their shape whatever
\* the template's users do.
THEOREM CopiesAreTyped == ClonesSpec => []CopyTypeOK
<1>1. ClonesIInv => CopyTypeOK
  BY DEF ClonesIInv
<1> QED
  BY <1>1, ClonesInitOK, ClonesStep, PTL DEF ClonesSpec

\* A project that is reported as created from a template stands alone: its
\* workflows use what was granted to it, it has what was left alone in the
\* template while it was cloned, and what it refers to as its own it has. What
\* it still refers to in the template is an account, something that was edited
\* meanwhile, deleted or not declared, or the page of a link.
THEOREM CopiesStandAlone == ClonesSpec => []CopyStandsAlone
  BY ClonesInitOK, ClonesStep, ClonesIInvImplies, PTL DEF ClonesSpec
=============================================================================
