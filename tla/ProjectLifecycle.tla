-------------------------- MODULE ProjectLifecycle --------------------------
(***************************************************************************)
(* Creation, update and deletion of the projects of one tenant, and the    *)
(* grants that let a project use an external API credential                *)
(* (controllers/projectController.go, controllers/project_cleanup.go,      *)
(* controllers/tenant_external_api_credentials.go,                         *)
(* repositories/external_api_credentials.go).                              *)
(*                                                                         *)
(* The handlers are sequences of single writes to many collections; only a *)
(* grant and a promotion are transactions.  A deletion deactivates the     *)
(* project, drops its collections, deletes its rows from the shared        *)
(* collections, its memberships, and its own row last.  A creation that    *)
(* fails goes the same way.                                                *)
(***************************************************************************)
EXTENDS Naturals, FiniteSets

CONSTANTS
  Projects,    \* the identities of projects; one is never used twice
  Existing,    \* the projects that are there at the start
  Slugs,       \* the slugs a project may have
  Credentials, \* the external API credentials of the tenant
  Shared,      \* those that belong to the tenant at the start
  Requests,    \* management and record requests served at the same time
  Ops,         \* the operations of this instance
  MaxOps,      \* bound on the requests of a behaviour, lookups of slugs included
  MaxFaults,   \* bound on failed database calls and stopped processes
  NoOne        \* no project, no request, no slug

ASSUME SubsetsAssumption ==
  Existing \subseteq Projects /\ Shared \subseteq Credentials /\ Existing # {}
ASSUME OpsAssumption ==
  Ops \subseteq {"create", "update", "delete", "grant", "promote", "disconnect", "revoke", "write"}
ASSUME BoundsAssumption == MaxOps \in Nat /\ MaxFaults \in Nat
ASSUME NamesAssumption ==
  /\ NoOne \notin Projects \cup Requests \cup Slugs \cup {"tenant", "revoked", "gone"}
  /\ Projects \cap {"tenant", "revoked", "gone"} = {}

VARIABLES
  row,       \* the rows of the projects collection
  stored,    \* what is stored for a project outside its row
  grants,    \* the pairs <<project, credential>> of the grants collection
  owner,     \* the project a credential belongs to, or "tenant", "revoked", "gone"
  held,      \* the request whose open transaction has written a project's row
  req,       \* the requests being served
  used,      \* requests and faults so far
  disturbed  \* history: what happened to a project while it was being deleted

vars == <<row, stored, grants, owner, held, req, used, disturbed>>

Stores == {"collections", "rows", "memberships"}
Rows == [there : {"unborn", "present", "gone"}, active : BOOLEAN, slug : Slugs \cup {NoOne}]
Present(p) == row[p].there = "present"
Active(p) == Present(p) /\ row[p].active

Idle ==
  [op |-> "none", pc |-> "idle", p |-> NoOne, slug |-> NoOne, old |-> NoOne, active |-> "keep",
   todo |-> {}, seen |-> {}, template |-> FALSE, listed |-> FALSE, failed |-> FALSE]

Init ==
  /\ \E s \in [Existing -> Slugs] :
       /\ \A p, q \in Existing : s[p] = s[q] => p = q
       /\ row = [p \in Projects |->
                   IF p \in Existing THEN [there |-> "present", active |-> TRUE, slug |-> s[p]]
                                     ELSE [there |-> "unborn", active |-> FALSE, slug |-> NoOne]]
  /\ stored = [p \in Projects |-> IF p \in Existing THEN Stores ELSE {}]
  /\ \E p \in Existing : owner = [c \in Credentials |-> IF c \in Shared THEN "tenant" ELSE p]
  /\ grants = {}
  /\ held = [p \in Projects |-> NoOne]
  /\ req = [r \in Requests |-> Idle]
  /\ used = [ops |-> 0, faults |-> 0]
  /\ disturbed = [p \in Projects |-> {}]

At(r, pc) == req[r].pc = pc
Goto(r, pc) == req' = [req EXCEPT ![r].pc = pc]
Answer(r) == req' = [req EXCEPT ![r] = Idle]
CallFails == used.faults < MaxFaults /\ used' = [used EXCEPT !.faults = @ + 1]

(* A single write to a project's row waits for the open transaction that   *)
(* has written it.                                                         *)
RowFree(p) == held[p] = NoOne

(* The steps of a deletion, or of a rollback, after the deactivation. *)
Removing == {"list", "drop", "creds", "grants", "rows", "joined", "memberships", "remove"}
BeingRemoved(p) == row[p].there = "gone" \/ \E r \in Requests : req[r].p = p /\ req[r].pc \in Removing
Disturb(p, how) == disturbed' = [disturbed EXCEPT ![p] = IF BeingRemoved(p) THEN @ \cup {how} ELSE @]

-----------------------------------------------------------------------------
(* Requests arrive. *)

Begin(r, op, request) ==
  /\ At(r, "idle") /\ op \in Ops /\ used.ops < MaxOps
  /\ req' = [req EXCEPT ![r] = [request EXCEPT !.op = op]]
  /\ used' = [used EXCEPT !.ops = @ + 1]
  /\ UNCHANGED <<row, stored, grants, owner, held, disturbed>>

BeginCreate(r) ==
  \E p \in Projects, s \in Slugs, cs \in SUBSET Credentials, template \in BOOLEAN :
    /\ row[p].there = "unborn" /\ \A q \in Requests : req[q].p # p
    /\ Begin(r, "create", [Idle EXCEPT !.pc = "check", !.p = p, !.slug = s, !.todo = cs, !.template = template])

(* A request is about a project it names: one that is or was there. *)
Known(p) == row[p].there # "unborn"

BeginUpdate(r) ==
  \E p \in Projects, s \in Slugs \cup {NoOne}, a \in {"keep", "on", "off"} :
    /\ Known(p) /\ (s # NoOne \/ a # "keep")
    /\ Begin(r, "update", [Idle EXCEPT !.pc = "read", !.p = p, !.slug = s, !.active = a])

BeginDelete(r) ==
  \E p \in Projects : Known(p) /\ Begin(r, "delete", [Idle EXCEPT !.pc = "read", !.p = p])

BeginGrant(r) ==
  \E p \in Projects, c \in Credentials :
    Known(p) /\ Begin(r, "grant", [Idle EXCEPT !.pc = "snapshot", !.p = p, !.todo = {c}])

(* The project of a promotion is the one the credential belongs to. *)
BeginPromote(r) ==
  \E c \in Credentials :
    Begin(r, "promote", [Idle EXCEPT !.pc = "snapshot", !.todo = {c}])

(* A record request that found the project active, and writes later. *)
BeginWrite(r) ==
  \E p \in Projects : Active(p) /\ Begin(r, "write", [Idle EXCEPT !.pc = "write", !.p = p])

Write(r) ==
  /\ At(r, "write")
  /\ stored' = [stored EXCEPT ![req[r].p] = @ \cup {"collections", "rows"}]
  /\ Disturb(req[r].p, "written")
  /\ Answer(r)
  /\ UNCHANGED <<row, grants, owner, held, used>>

-----------------------------------------------------------------------------
(* CreateProject, up to the grants. *)

Taken(s, p) == \E q \in Projects \ {p} : Present(q) /\ row[q].slug = s
TenantWide(c) == owner[c] \in {"tenant", "revoked"}

(* The slug is free and the selected credentials are valid, when looked at. *)
CheckCreate(r) ==
  /\ At(r, "check")
  /\ \/ Taken(req[r].slug, req[r].p) /\ Answer(r)
     \/ (\E c \in req[r].todo : owner[c] # "tenant") /\ Answer(r)
     \/ /\ ~Taken(req[r].slug, req[r].p)
        /\ \A c \in req[r].todo : owner[c] = "tenant"
        /\ Goto(r, "insert")
  /\ UNCHANGED <<row, stored, grants, owner, held, used, disturbed>>

InsertRow(r) ==
  /\ At(r, "insert")
  /\ row' = [row EXCEPT ![req[r].p] = [there |-> "present", active |-> TRUE, slug |-> req[r].slug]]
  /\ Goto(r, IF req[r].todo = {} THEN "member" ELSE "snapshot")
  /\ UNCHANGED <<stored, grants, owner, held, used, disturbed>>

-----------------------------------------------------------------------------
(* The transactions of GrantExternalAPICredential and of                   *)
(* PromoteExternalAPICredential: read the credential, touch the project's  *)
(* row on condition that it is active, write the grant.                    *)

(* How a transaction's request goes on: a creation has more to do. *)
Granted(r, c) ==
  req' = [req EXCEPT ![r] =
            IF @.op # "create" THEN Idle
            ELSE [@ EXCEPT !.todo = req[r].todo \ {c}, !.seen = {},
                           !.pc = IF req[r].todo = {c} THEN "member" ELSE "snapshot"]]
Refused(r) ==
  req' = [req EXCEPT ![r] = IF @.op = "create" THEN [@ EXCEPT !.pc = "deactivate", !.seen = {}] ELSE Idle]

(* The project whose row a transaction touches. *)
Touched(r, c) == IF req[r].op = "promote" THEN owner[c] ELSE req[r].p

Snapshot(r) ==
  /\ At(r, "snapshot")
  /\ \E c \in req[r].todo :
       IF req[r].op = "promote"
         THEN IF owner[c] \in Projects
                THEN req' = [req EXCEPT ![r] = [@ EXCEPT !.pc = "touch", !.p = owner[c],
                                                        !.seen = {<<c, owner[c], row[owner[c]]>>}]]
                ELSE Answer(r)
         ELSE IF owner[c] = "tenant"
                THEN req' = [req EXCEPT ![r] = [@ EXCEPT !.pc = "touch",
                                                        !.seen = {<<c, owner[c], row[req[r].p]>>}]]
                ELSE Refused(r)
  /\ UNCHANGED <<row, stored, grants, owner, held, used, disturbed>>

(* Fault: the project is read, not written, so nothing waits for the grant. *)
FaultReadProject(r) ==
  /\ At(r, "touch")
  /\ IF \E t \in req[r].seen : t[3].active THEN Goto(r, "commit") ELSE Refused(r)
  /\ UNCHANGED <<row, stored, grants, owner, held, used, disturbed>>
TouchProject(r) ==
  LET p == req[r].p IN
  /\ At(r, "touch") /\ RowFree(p)
  /\ \E t \in req[r].seen :
       \/ t[3] # row[p] /\ Goto(r, "snapshot") /\ UNCHANGED held
       \/ t[3] = row[p] /\ ~Active(p) /\ Refused(r) /\ UNCHANGED held
       \/ t[3] = row[p] /\ Active(p) /\ Goto(r, "commit") /\ held' = [held EXCEPT ![p] = r]
  /\ UNCHANGED <<row, stored, grants, owner, used, disturbed>>

Release(r) == held' = [p \in Projects |-> IF held[p] = r THEN NoOne ELSE held[p]]

(* Fault: a promotion leaves it to the project to ask for a grant. *)
FaultPromoteOnly(r) ==
  /\ At(r, "commit")
  /\ \E t \in req[r].seen :
       IF req[r].op = "promote"
         THEN Answer(r) /\ owner' = [owner EXCEPT ![t[1]] = "tenant"] /\ UNCHANGED grants
         ELSE Granted(r, t[1]) /\ grants' = grants \cup {<<req[r].p, t[1]>>} /\ UNCHANGED owner
  /\ Release(r)
  /\ UNCHANGED <<row, stored, used, disturbed>>
(* A promotion also writes the credential, and conflicts with a write to   *)
(* it since the snapshot.                                                  *)
CommitGrant(r) ==
  /\ At(r, "commit")
  /\ \E t \in req[r].seen :
       IF req[r].op = "promote" /\ owner[t[1]] # t[2]
         THEN Goto(r, "snapshot") /\ UNCHANGED <<grants, owner>>
         ELSE /\ grants' = grants \cup {<<req[r].p, t[1]>>}
              /\ Granted(r, t[1])
              /\ owner' = IF req[r].op = "promote" THEN [owner EXCEPT ![t[1]] = "tenant"] ELSE owner
  /\ Release(r)
  /\ UNCHANGED <<row, stored, used, disturbed>>

(* The transaction fails: the driver runs it again, or gives up. *)
GrantFails(r) ==
  /\ req[r].pc \in {"snapshot", "touch", "commit"} /\ CallFails
  /\ Refused(r) \/ Goto(r, "snapshot")
  /\ Release(r)
  /\ UNCHANGED <<row, stored, grants, owner, disturbed>>

DisconnectCredential(r) ==
  \E p \in Projects, c \in Credentials :
    /\ At(r, "idle") /\ "disconnect" \in Ops /\ used.ops < MaxOps
    /\ TenantWide(c) /\ <<p, c>> \in grants
    /\ grants' = grants \ {<<p, c>>}
    /\ used' = [used EXCEPT !.ops = @ + 1]
    /\ UNCHANGED <<row, stored, owner, held, req, disturbed>>

RevokeCredential(r) ==
  \E c \in Credentials :
    /\ At(r, "idle") /\ "revoke" \in Ops /\ used.ops < MaxOps
    /\ owner[c] = "tenant"
    /\ owner' = [owner EXCEPT ![c] = "revoked"]
    /\ used' = [used EXCEPT !.ops = @ + 1]
    /\ UNCHANGED <<row, stored, grants, held, req, disturbed>>

-----------------------------------------------------------------------------
(* The rest of CreateProject: the creator's membership, then the template  *)
(* or the default schemas, whose failure is only logged.                   *)

InsertMembership(r) ==
  /\ At(r, "member")
  /\ stored' = [stored EXCEPT ![req[r].p] = @ \cup {"memberships"}]
  /\ Disturb(req[r].p, "written")
  /\ Goto(r, "populate")
  /\ UNCHANGED <<row, grants, owner, held, used>>

Populate(r) ==
  /\ At(r, "populate")
  /\ stored' = [stored EXCEPT ![req[r].p] = @ \cup {"collections"}]
  /\ Disturb(req[r].p, "written")
  /\ \/ Answer(r) /\ UNCHANGED used
     \/ CallFails /\ IF req[r].template THEN Goto(r, "deactivate") ELSE Answer(r)
  /\ UNCHANGED <<row, grants, owner, held>>

CreateFails(r) ==
  /\ req[r].pc \in {"insert", "member"} /\ CallFails
  /\ IF At(r, "insert") THEN Answer(r) ELSE Goto(r, "deactivate")
  /\ UNCHANGED <<row, stored, grants, owner, held, disturbed>>

-----------------------------------------------------------------------------
(* UpdateProject *)

ReadProject(r) ==
  LET p == req[r].p IN
  /\ At(r, "read")
  /\ \/ ~Present(p) /\ Answer(r)
     \/ Present(p) /\ req' = [req EXCEPT ![r].pc = IF req[r].op = "delete" THEN "deactivate" ELSE "unique",
                                         ![r].old = row[p].slug]
  /\ UNCHANGED <<row, stored, grants, owner, held, used, disturbed>>

CheckUpdate(r) ==
  /\ At(r, "unique")
  /\ IF req[r].slug # NoOne /\ Taken(req[r].slug, req[r].p) THEN Answer(r) ELSE Goto(r, "update")
  /\ UNCHANGED <<row, stored, grants, owner, held, used, disturbed>>

UpdateRow(r) ==
  LET p == req[r].p IN
  /\ At(r, "update") /\ RowFree(p)
  /\ IF Present(p)
       THEN /\ row' = [row EXCEPT ![p].slug = IF req[r].slug = NoOne THEN @ ELSE req[r].slug,
                                  ![p].active = IF req[r].active = "keep" THEN @ ELSE req[r].active = "on"]
            /\ Goto(r, "invalidate")
            /\ IF req[r].active = "on" THEN Disturb(p, "activated") ELSE UNCHANGED disturbed
       ELSE Answer(r) /\ UNCHANGED <<row, disturbed>>
  /\ UNCHANGED <<stored, grants, owner, held, used>>

(* invalidateProjectLifecycle; its failures are only logged. *)
Invalidate(r) ==
  /\ At(r, "invalidate")
  /\ Answer(r)
  /\ UNCHANGED <<row, stored, grants, owner, held, used, disturbed>>

-----------------------------------------------------------------------------
(* DeleteProject and rollbackProjectCreate *)

Deactivate(r) ==
  /\ At(r, "deactivate") /\ RowFree(req[r].p)
  /\ row' = IF Present(req[r].p) THEN [row EXCEPT ![req[r].p].active = FALSE] ELSE row
  /\ Goto(r, "list")
  /\ UNCHANGED <<stored, grants, owner, held, used, disturbed>>

ListCollections(r) ==
  /\ At(r, "list")
  /\ \/ req' = [req EXCEPT ![r].pc = "drop", ![r].listed = "collections" \in stored[req[r].p]] /\ UNCHANGED used
     \/ CallFails /\ req' = [req EXCEPT ![r].pc = "drop", ![r].failed = TRUE]
  /\ UNCHANGED <<row, stored, grants, owner, held, disturbed>>

(* One call of the cleanup: done, or failed and the cleanup goes on.       *)
(* Errors are joined, and keep the row.                                    *)
Cleanup(r, at, to, done, unchanged) ==
  /\ At(r, at)
  /\ \/ done /\ Goto(r, to) /\ UNCHANGED used
     \/ CallFails /\ unchanged /\ req' = [req EXCEPT ![r].pc = to, ![r].failed = TRUE]
  /\ UNCHANGED <<row, held, disturbed>>

Unstore(p, what) == stored' = [stored EXCEPT ![p] = @ \ {what}]

DropCollections(r) ==
  /\ Cleanup(r, "drop", "creds",
             IF req[r].listed THEN Unstore(req[r].p, "collections") ELSE UNCHANGED stored, UNCHANGED stored)
  /\ UNCHANGED <<grants, owner>>
DeleteCredentials(r) ==
  /\ Cleanup(r, "creds", "grants",
             owner' = [c \in Credentials |-> IF owner[c] = req[r].p THEN "gone" ELSE owner[c]], UNCHANGED owner)
  /\ UNCHANGED <<stored, grants>>
DeleteGrants(r) ==
  /\ Cleanup(r, "grants", "rows", grants' = {g \in grants : g[1] # req[r].p}, UNCHANGED grants)
  /\ UNCHANGED <<stored, owner>>
(* Fault: the errors of the cleanup are logged, and the row is removed. *)
FaultIgnoreErrors(r) ==
  /\ Cleanup(r, "rows", "memberships", Unstore(req[r].p, "rows"), UNCHANGED stored)
  /\ UNCHANGED <<grants, owner>>
(* The last of the shared collections. *)
DeleteRows(r) ==
  /\ Cleanup(r, "rows", "joined", Unstore(req[r].p, "rows"), UNCHANGED stored)
  /\ UNCHANGED <<grants, owner>>
JoinErrors(r) ==
  /\ At(r, "joined")
  /\ IF req[r].failed THEN Answer(r) ELSE Goto(r, "memberships")
  /\ UNCHANGED <<row, stored, grants, owner, held, used, disturbed>>

DeleteMemberships(r) ==
  /\ At(r, "memberships")
  /\ Unstore(req[r].p, "memberships")
  /\ Goto(r, "remove")
  /\ UNCHANGED <<row, grants, owner, held, used, disturbed>>

RemoveRow(r) ==
  /\ At(r, "remove") /\ RowFree(req[r].p)
  /\ row' = [row EXCEPT ![req[r].p] = [there |-> "gone", active |-> FALSE, slug |-> NoOne]]
  /\ IF req[r].op = "delete" THEN Goto(r, "invalidate") ELSE Answer(r)
  /\ UNCHANGED <<stored, grants, owner, held, used, disturbed>>

(* A write outside the cleanup fails, or the process stops: an open        *)
(* transaction is aborted.                                                 *)
Stop(r) ==
  /\ ~At(r, "idle") /\ CallFails
  /\ Answer(r) /\ Release(r)
  /\ UNCHANGED <<row, stored, grants, owner, disturbed>>

-----------------------------------------------------------------------------
RequestStep(r) ==
  \/ BeginCreate(r) \/ BeginUpdate(r) \/ BeginDelete(r) \/ BeginGrant(r) \/ BeginPromote(r) \/ BeginWrite(r)
  \/ Write(r) \/ CheckCreate(r) \/ InsertRow(r) \/ Snapshot(r) \/ TouchProject(r) \/ CommitGrant(r)
  \/ GrantFails(r) \/ DisconnectCredential(r) \/ RevokeCredential(r)
  \/ InsertMembership(r) \/ Populate(r) \/ CreateFails(r)
  \/ ReadProject(r) \/ CheckUpdate(r) \/ UpdateRow(r)
  \/ Deactivate(r) \/ ListCollections(r) \/ DropCollections(r) \/ DeleteCredentials(r) \/ DeleteGrants(r)
  \/ DeleteRows(r) \/ JoinErrors(r) \/ DeleteMemberships(r) \/ RemoveRow(r) \/ Stop(r)

Next == \E r \in Requests : RequestStep(r) \/ Invalidate(r)

Spec == Init /\ [][Next]_vars

-----------------------------------------------------------------------------
TypeOK ==
  /\ row \in [Projects -> Rows] /\ \A p \in Projects : Present(p) => row[p].slug \in Slugs
  /\ stored \in [Projects -> SUBSET Stores]
  /\ grants \subseteq Projects \X Credentials
  /\ owner \in [Credentials -> Projects \cup {"tenant", "revoked", "gone"}]
  /\ held \in [Projects -> Requests \cup {NoOne}]
  /\ used \in [ops : 0..MaxOps, faults : 0..MaxFaults]
  /\ disturbed \in [Projects -> SUBSET {"activated", "written"}]
  /\ \A p \in Projects : held[p] # NoOne => req[held[p]].pc = "commit" /\ req[held[p]].p = p

(* The touch of the project's row serializes grants with deactivation and  *)
(* deletion: once the row of a project is removed, no grant of it is left, *)
(* however transactions, retries, failed and repeated deletions overlap,   *)
(* unless the project was activated again in the middle of its deletion.   *)
GrantsEndWithProject ==
  \A g \in grants : row[g[1]].there # "gone" \/ "activated" \in disturbed[g[1]]

(* The row goes last, and only after a cleanup without an error: a project *)
(* whose row is gone has left nothing behind, unless a request that began  *)
(* before wrote to it during its deletion or it was activated again.       *)
NothingLeftBehind ==
  \A p \in Projects : row[p].there = "gone" /\ disturbed[p] = {} => stored[p] = {}

Usable(p, c) == <<p, c>> \in grants \/ owner[c] = p

(* A promotion keeps the access of the project the credential came from:   *)
(* a project stops being able to use a credential only by a disconnection  *)
(* of the two or by its own deletion.                                      *)
AccessEndsOnPurpose ==
  [][\A p \in Projects, c \in Credentials :
       Usable(p, c) /\ ~Usable(p, c)' =>
         \/ BeingRemoved(p)
         \/ used'.ops = used.ops + 1 /\ <<p, c>> \in grants]_vars
=============================================================================
