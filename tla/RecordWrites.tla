---------------------------- MODULE RecordWrites ----------------------------
(***************************************************************************)
(* Updates and deletes of the records of one schema                        *)
(* (services/dynamic_service.go, utils/acquireRelaseLock.go).              *)
(*                                                                         *)
(* A single update takes a Redis lock on the record, reads it outside any  *)
(* transaction, merges its patch into what it read, and writes the WHOLE   *)
(* merged document inside a snapshot transaction, through the selector of  *)
(* its record access policy.  A bulk update does the same for each of its  *)
(* items inside one transaction, and gives each lock back before that      *)
(* transaction commits.  Deletes read inside the transaction, under a lock *)
(* of another name.  The driver runs the callback again after a transient  *)
(* error, with the Go values the first run left behind.                    *)
(***************************************************************************)
EXTENDS Naturals

CONSTANTS
  Records,     \* the records of the schema, all present at the start
  Users,       \* callers, and the values of a record's owner field
  Admins,      \* callers a context rule of the policy lets through
  Requests,    \* the requests of a behaviour, each served once
  Op,          \* Op[q]: "update", "bulkUpdate", "delete" or "bulkDelete"
  Actor,       \* Actor[q]: the caller of q
  Patch,       \* Patch[q]: Edit, or the user the patch makes the owner
  Edit,        \* a patch of the body field
  MaxRetries,  \* bound: how often a callback is run again
  RedisFails,  \* BOOLEAN: a lock call may fail, which lets its caller through
  NoOne,       \* no request
  Gone         \* what a deleted record is

ASSUME RequestsAssumption ==
  /\ Op \in [Requests -> {"update", "bulkUpdate", "delete", "bulkDelete"}]
  /\ Actor \in [Requests -> Users]
  /\ Admins \subseteq Users
  /\ Edit \notin Users
  /\ Patch \in [Requests -> Users \cup {Edit}]
ASSUME RetriesAssumption == MaxRetries \in Nat /\ RedisFails \in BOOLEAN
ASSUME NamesAssumption == NoOne \notin Requests \cup Records

VARIABLES
  docs,       \* the committed records
  lock,       \* Redis: the holder of lock:update and lock:delete of each record
  pc,         \* where each request is
  target,     \* the record a single request is about
  before,     \* what a request read of each record before merging its patch
  snap,       \* the snapshot of a request's transaction
  written,    \* the writes of a request's transaction, kept once committed
  todo,       \* the items a bulk request has not come to in this run
  nameless,   \* the items whose id an earlier step deleted from the parsed body
  doomed,     \* a bulk callback swallowed the error that aborted its transaction
  successful, \* the Go variable a bulk request answers with
  retries,    \* how often each callback was run again
  unlocked    \* history: requests that committed a record without its lock

requestVars == <<target, before, snap, written, todo, nameless, doomed, successful, retries>>
vars == <<docs, lock, pc, requestVars, unlocked>>

Kinds == {"update", "delete"}
Doc == [owner : Users, body : Requests \cup {NoOne}, by : Requests \cup {NoOne}]
Pc == {"idle", "locked", "merged", "open", "written", "done", "refused"}

Bulk(q) == Op[q] \in {"bulkUpdate", "bulkDelete"}
Kind(q) == IF Op[q] \in {"update", "bulkUpdate"} THEN "update" ELSE "delete"
Items(q) == IF Bulk(q) THEN Records ELSE {target[q]}

Init ==
  /\ docs \in [Records -> [owner : Users \ Admins, body : {NoOne}, by : {NoOne}]]
  /\ lock = [k \in Kinds |-> [r \in Records |-> NoOne]]
  /\ pc = [q \in Requests |-> "idle"]
  /\ target = [q \in Requests |-> NoOne]
  /\ before = [q \in Requests |-> <<>>]
  /\ snap = [q \in Requests |-> <<>>]
  /\ written = [q \in Requests |-> <<>>]
  /\ todo = [q \in Requests |-> {}]
  /\ nameless = [q \in Requests |-> {}]
  /\ doomed = [q \in Requests |-> FALSE]
  /\ successful = [q \in Requests |-> {}]
  /\ retries = [q \in Requests |-> 0]
  /\ unlocked = {}

Goto(q, to) == pc' = [pc EXCEPT ![q] = to]

-----------------------------------------------------------------------------
(* The record access policy of the routes: the owner, or an admin.  It is  *)
(* part of every selector, and evaluated again on the document to write.   *)

Allows(q, d) == Actor[q] \in Admins \/ d.owner = Actor[q]

(* Fault: the selector is the record's id alone. *)
FaultSelectById(q, r, image) == image[r] # Gone
Selects(q, r, image) == image[r] # Gone /\ Allows(q, image[r])

Merged(q, d) == IF Patch[q] = Edit THEN [d EXCEPT !.body = q] ELSE [d EXCEPT !.owner = Patch[q]]

(* What a request writes over the record it read. *)
Replacement(q, d) == IF Kind(q) = "update" THEN [Merged(q, d) EXCEPT !.by = q] ELSE Gone

-----------------------------------------------------------------------------
(* The Redis locks. *)

Free(k, r) == lock[k][r] = NoOne
Holds(q, r) == lock[Kind(q)][r] = q

(* ReleaseLock deletes the key only if it still carries the caller's value. *)
ReleaseLock(q) ==
  \/ lock' = [lock EXCEPT ![Kind(q)] = [r \in Records |-> IF @[r] = q THEN NoOne ELSE @[r]]]
  \/ RedisFails /\ UNCHANGED lock

(* The ten seconds of a lock pass while its holder is still at work. *)
LockLapse(k, r) ==
  /\ ~Free(k, r)
  /\ lock' = [lock EXCEPT ![k][r] = NoOne]
  /\ UNCHANGED <<docs, pc, requestVars, unlocked>>

(* A single request takes its record's lock; without Redis it goes on as if it had. *)
AcquireLock(q, r) ==
  /\ pc[q] = "idle" /\ ~Bulk(q)
  /\ target' = [target EXCEPT ![q] = r]
  /\ \/ Free(Kind(q), r) /\ lock' = [lock EXCEPT ![Kind(q)][r] = q] /\ Goto(q, "locked")
     \/ ~Free(Kind(q), r) /\ UNCHANGED lock /\ Goto(q, "refused")
     \/ RedisFails /\ UNCHANGED lock /\ Goto(q, "locked")
  /\ UNCHANGED <<docs, before, snap, written, todo, nameless, doomed, successful, retries, unlocked>>

(* What a request keeps in memory ends with it. *)
Forget(q) ==
  /\ target' = [target EXCEPT ![q] = NoOne]
  /\ before' = [before EXCEPT ![q] = <<>>]
  /\ snap' = [snap EXCEPT ![q] = <<>>]
  /\ todo' = [todo EXCEPT ![q] = {}]
  /\ nameless' = [nameless EXCEPT ![q] = {}]
  /\ doomed' = [doomed EXCEPT ![q] = FALSE]
  /\ retries' = [retries EXCEPT ![q] = 0]

(* The request ends with an error, or its process does: nothing is committed. *)
GiveUp(q) ==
  /\ Goto(q, "refused")
  /\ Forget(q)
  /\ written' = [written EXCEPT ![q] = <<>>]
  /\ successful' = [successful EXCEPT ![q] = {}]
  /\ UNCHANGED <<docs, unlocked>>

Refuse(q) == GiveUp(q) /\ ReleaseLock(q)

(* The process stops: nobody releases the lock. *)
Stop(q) == pc[q] \in {"locked", "merged", "open", "written"} /\ GiveUp(q) /\ UNCHANGED lock

-----------------------------------------------------------------------------
(* The transaction. *)

InTransaction(q) == pc[q] \in {"open", "written"}

(* Fault: a write does not look at what was committed since the snapshot. *)
FaultNoSnapshot(q, r) == \E p \in Requests \ {q} : InTransaction(p) /\ r \in DOMAIN written[p]
(* Writing r in q's transaction is a write conflict. *)
Conflicts(q, r) ==
  \/ docs[r] # snap[q][r]
  \/ \E p \in Requests \ {q} : InTransaction(p) /\ r \in DOMAIN written[p]

(* The callback starts, or starts again, on a fresh snapshot. *)
Enter(q) ==
  /\ Goto(q, "open")
  /\ snap' = [snap EXCEPT ![q] = docs]
  /\ written' = [written EXCEPT ![q] = <<>>]
  /\ todo' = [todo EXCEPT ![q] = Items(q)]
  /\ doomed' = [doomed EXCEPT ![q] = FALSE]

BeginTransaction(q) ==
  /\ IF Bulk(q) THEN pc[q] = "idle"
     ELSE IF Kind(q) = "update" THEN pc[q] = "merged" ELSE pc[q] = "locked"
  /\ Enter(q)
  /\ UNCHANGED <<docs, lock, target, before, nameless, successful, retries, unlocked>>

(* A transient error: WithTransaction aborts and calls the callback again, *)
(* for two minutes.                                                        *)
Retry(q) ==
  /\ retries[q] < MaxRetries
  /\ retries' = [retries EXCEPT ![q] = @ + 1]
  /\ Enter(q)
  /\ UNCHANGED <<docs, lock, target, before, nameless, successful, unlocked>>

TransientError(q) == Retry(q) \/ Refuse(q)

(* What was read or written of the records so far, with d for record r. *)
With(f, r, d) == [x \in DOMAIN f \cup {r} |-> IF x = r THEN d ELSE f[x]]

Write(q, r, d) == written' = [written EXCEPT ![q] = With(@, r, Replacement(q, d))]

Commit(q) ==
  /\ pc[q] = "written"
  /\ Goto(q, "done")
  /\ docs' = [r \in Records |-> IF r \in DOMAIN written[q] THEN written[q][r] ELSE docs[r]]
  /\ ReleaseLock(q)
  /\ unlocked' = IF \A r \in DOMAIN written[q] : Holds(q, r) THEN unlocked ELSE unlocked \cup {q}
  /\ Forget(q)
  /\ UNCHANGED <<written, successful>>

CommitFails(q) == pc[q] = "written" /\ TransientError(q)

-----------------------------------------------------------------------------
(* UpdateDynamicItem and DeleteDynamicItem. *)

(* The update reads the record through its selector, outside the transaction. *)
FindForUpdate(q) ==
  /\ pc[q] = "locked" /\ Op[q] = "update"
  /\ IF Selects(q, target[q], docs)
     THEN /\ before' = [before EXCEPT ![q] = With(@, target[q], docs[target[q]])]
          /\ Goto(q, "merged")
          /\ UNCHANGED <<docs, lock, target, snap, written, todo, nameless, doomed, successful, retries, unlocked>>
     ELSE Refuse(q)

(* The final document must be allowed, then the selector must still match. *)
UpdateByFilter(q) ==
  LET r == target[q] IN
  /\ pc[q] = "open" /\ Op[q] = "update"
  /\ CASE ~Allows(q, Merged(q, before[q][r])) \/ ~Selects(q, r, snap[q]) -> Refuse(q)
       [] OTHER ->
          IF Conflicts(q, r) THEN TransientError(q)
          ELSE /\ Write(q, r, before[q][r])
               /\ Goto(q, "written")
               /\ UNCHANGED <<docs, lock, target, before, snap, todo, nameless, doomed, successful, retries, unlocked>>

(* The delete reads and deletes in the transaction, with one selector. *)
DeleteByFilter(q) ==
  LET r == target[q] IN
  /\ pc[q] = "open" /\ Op[q] = "delete"
  /\ CASE ~Selects(q, r, snap[q]) -> Refuse(q)
       [] OTHER ->
          IF Conflicts(q, r) THEN TransientError(q)
          ELSE /\ before' = [before EXCEPT ![q] = With(@, r, snap[q][r])]
               /\ Write(q, r, snap[q][r])
               /\ Goto(q, "written")
               /\ UNCHANGED <<docs, lock, target, snap, todo, nameless, doomed, successful, retries, unlocked>>

-----------------------------------------------------------------------------
(* UpdateMultipleDynamicItems and DeleteMultipleDynamicItems: one step of  *)
(* the loop is updateOneFromBulk or deleteOneFromBulk.  What one item      *)
(* cannot do is reported as its failure and never stops the loop, not even *)
(* the error that aborts the transaction.                                  *)

(* updateOneFromBulk deletes the id from the parsed item; deleteOneFromBulk does not. *)
StripId(q, r) == nameless' = IF Op[q] = "bulkUpdate" THEN [nameless EXCEPT ![q] = @ \cup {r}] ELSE nameless

Permitted(q, r) ==
  Selects(q, r, snap[q]) /\ (Op[q] = "bulkUpdate" => Allows(q, Merged(q, snap[q][r])))

BulkItem(q, r) ==
  /\ pc[q] = "open" /\ Bulk(q) /\ r \in todo[q]
  /\ todo' = [todo EXCEPT ![q] = @ \ {r}]
  /\ \/ /\ r \in nameless[q] \/ ~Free(Kind(q), r)
        /\ UNCHANGED <<before, written, nameless, doomed>>
     \/ /\ r \notin nameless[q]
        /\ Free(Kind(q), r) \/ RedisFails
        /\ StripId(q, r)
        /\ IF doomed[q] \/ ~Permitted(q, r) THEN UNCHANGED <<before, written, doomed>>
           ELSE IF Conflicts(q, r) THEN doomed' = [doomed EXCEPT ![q] = TRUE] /\ UNCHANGED <<before, written>>
           ELSE /\ before' = [before EXCEPT ![q] = With(@, r, snap[q][r])]
                /\ Write(q, r, snap[q][r])
                /\ UNCHANGED doomed
  /\ UNCHANGED <<docs, lock, pc, target, snap, successful, retries, unlocked>>

(* Fault: the answer of the first run is kept. *)
FaultFirstAnswer(q) ==
  /\ pc[q] = "open" /\ Bulk(q) /\ todo[q] = {}
  /\ IF doomed[q] THEN TransientError(q)
     ELSE /\ successful' = IF retries[q] > 0 THEN successful
                           ELSE [successful EXCEPT ![q] = DOMAIN written[q]]
          /\ Goto(q, "written")
          /\ UNCHANGED <<docs, lock, target, before, snap, written, todo, nameless, doomed, retries, unlocked>>
(* The end of the callback: the answer is set only if an item succeeded. *)
FinishBulk(q) ==
  /\ pc[q] = "open" /\ Bulk(q) /\ todo[q] = {}
  /\ IF doomed[q] THEN TransientError(q)
     ELSE /\ successful' = IF DOMAIN written[q] = {} THEN successful
                           ELSE [successful EXCEPT ![q] = DOMAIN written[q]]
          /\ Goto(q, "written")
          /\ UNCHANGED <<docs, lock, target, before, snap, written, todo, nameless, doomed, retries, unlocked>>

(* A workflow of the route fails, which aborts the whole request. *)
WorkflowFails(q) == pc[q] = "open" /\ Refuse(q)

RequestStep(q) ==
  \/ \E r \in Records : AcquireLock(q, r)
  \/ FindForUpdate(q)
  \/ BeginTransaction(q)
  \/ UpdateByFilter(q)
  \/ DeleteByFilter(q)
  \/ \E r \in Records : BulkItem(q, r)
  \/ FinishBulk(q)
  \/ WorkflowFails(q)
  \/ Commit(q)
  \/ CommitFails(q)
  \/ Stop(q)

Next ==
  \/ \E q \in Requests : RequestStep(q)
  \/ \E k \in Kinds, r \in Records : LockLapse(k, r)

Spec == Init /\ [][Next]_vars
-----------------------------------------------------------------------------
(* Properties. *)

TypeOK ==
  /\ docs \in [Records -> Doc \cup {Gone}]
  /\ lock \in [Kinds -> [Records -> Requests \cup {NoOne}]]
  /\ pc \in [Requests -> Pc]
  /\ target \in [Requests -> Records \cup {NoOne}]
  /\ \A q \in Requests :
       /\ DOMAIN before[q] \subseteq Records /\ DOMAIN written[q] \subseteq Records
       /\ \A r \in DOMAIN before[q] : before[q][r] \in Doc
       /\ \A r \in DOMAIN written[q] : written[q][r] \in Doc \cup {Gone}
       /\ InTransaction(q) => snap[q] \in [Records -> Doc \cup {Gone}]
  /\ {todo, nameless, successful} \subseteq [Requests -> SUBSET Records]
  /\ doomed \in [Requests -> BOOLEAN]
  /\ retries \in [Requests -> 0 .. MaxRetries]
  /\ unlocked \subseteq Requests

Commits(q) == pc[q] = "written" /\ pc'[q] = "done"

(* The audit entry a request commits tells the document it replaced: no    *)
(* other request came between its read and its write, unless that request  *)
(* or this one committed without the record's lock (the lock ran out, Redis *)
(* failed, or a bulk update gave the lock back before its commit).  This is *)
(* what lock:update buys UpdateDynamicItem, whose read is outside the       *)
(* transaction.  And an update that read a record before it was deleted     *)
(* does not bring it back.                                                  *)
AuditTellsWhatWasReplaced ==
  [][\A q \in Requests : Commits(q) =>
       \A r \in DOMAIN written[q] :
         \/ docs[r] = before[q][r]
         \/ Op[q] = "update" /\ docs[r] # Gone /\ (q \in unlocked' \/ docs[r].by \in unlocked)]_vars

(* Record policies hold before and after a mutation: whoever changes a     *)
(* record was allowed the document it replaces at that moment, however     *)
(* long ago it read the record, and is allowed the document it leaves.     *)
PolicyBeforeAndAfter ==
  [][\A q \in Requests : Commits(q) =>
       \A r \in DOMAIN written[q] :
         /\ docs[r] # Gone /\ Allows(q, docs[r])
         /\ docs'[r] # Gone => Allows(q, docs'[r])]_vars

(* A bulk request that answers never leaves out an item it changed, however *)
(* often its callback was run again and whatever the runs before left.      *)
CommittedIsReported ==
  \A q \in Requests : pc[q] = "done" /\ Bulk(q) => DOMAIN written[q] \subseteq successful[q]

(* What the API documentation says of the answer: the items it calls       *)
(* successful were changed.                                                *)
ReportedIsCommitted ==
  \A q \in Requests : pc[q] = "done" /\ Bulk(q) => successful[q] \subseteq DOMAIN written[q]
=============================================================================
