---------------------------- MODULE RecordReads -----------------------------
(* The reads of one schema and of a public workflow over it, their shared    *)
(* caches in Redis, and the writes that make the cached answers stale.       *)
(*                                                                           *)
(* A reader loads the container, asks Redis for the version its key carries, *)
(* looks the key up, and on a miss waits a while for the one that fills the  *)
(* entry or queries MongoDB itself and stores the answer. An entry may lapse *)
(* at any time, so a lookup may always miss; the fill lock may lapse too, and*)
(* a wait times out, so the lock decides nothing but who works and has no    *)
(* variable. A writer raises the version of the schema inside its            *)
(* transaction, and the revision of the project's workflows after a commit   *)
(* it has seen succeed. A call to Redis may fail.                            *)
(* A workflow result is the records, those of the caller if he is known.     *)
EXTENDS RecordAccess

CONSTANTS
  Readers, Writers,
  Containers,        \* the candidate settings of the container, one of them saved
  Asks,              \* what may be asked: [route, ids, names, void, who]
  Edits,             \* the values a write may give a record
  Records, Written,  \* the records, and the content at the start
  Creator,           \* the caller of creates
  MaxSaves,          \* how often the container is saved
  ReadsFail          \* whether calls to Redis may fail

VARIABLES
  container,         \* as saved now
  former,            \* every container saved so far, the present one too
  content, past,     \* the committed records, and every content so far
  version, revision, \* of the schema's and of the workflows' cache; 0: no key
  entries,           \* in Redis: key :> answer
  read,              \* reader :> his request
  job,               \* writer :> its transaction
  saves

readVars == <<container, former, content, past, version, revision, entries, read, job, saves>>

CachedRoutes == {"getAll", "getOne", "paginated"}
Raw == {"workflow", "pipeline"}

\* f with value v at key k.
Keeping(f, k, v) == [x \in DOMAIN f \cup {k} |-> IF x = k THEN v ELSE f[x]]

Idle == [pc |-> "idle"]
NoKey == [kind |-> "none"]

-----------------------------------------------------------------------------
(* Answers.                                                                  *)

Wanted(ask) == IF ask.void /\ ask.route \in {"search", "paginated"} THEN {} ELSE ask.ids

HasPolicy(c, ask) == ask.route \in DOMAIN c.access

Types(c) == [f \in DOMAIN c.fields |-> c.fields[f].type]

\* The filter of a read: what was asked for, the row rules, the policy.
ReadFilter(c, ask, record) ==
  /\ InRows(c.rows, ask.who, HasPolicy(c, ask), record)
  /\ HasPolicy(c, ask) => Filter(Types(c), c.access[ask.route], ask.who, record)

Show(c, ask, docs, ids) == {<<id, Projected(c.fields, ask.who.role, docs[id])>> : id \in ids}

OwnedBy(who, docs) ==
  {id \in DOMAIN docs : who.userId = "" \/ docs[id]["owner"] = ObjectId(who.userId)}

\* A pipeline shows of every record the fields its stages keep, to whoever may
\* call it.
Piped(c, record) == [f \in DOMAIN record \cap c.pipeline |-> record[f]]

Answer(c, ask, docs) ==
  IF ask.route = "pipeline" THEN {<<id, Piped(c, docs[id])>> : id \in DOMAIN docs}
  ELSE IF ask.route = "workflow" THEN {<<id, docs[id]>> : id \in OwnedBy(ask.who, docs)}
  ELSE Show(c, ask, docs, {id \in Wanted(ask) \cap DOMAIN docs : ReadFilter(c, ask, docs[id])})

\* An answer from the cache is cut to the fields of the role again.
Refiltered(c, ask, answer) ==
  IF ask.route \in Raw THEN answer
  ELSE {<<row[1], Projected(c.fields, ask.who.role, row[2])>> : row \in answer}

\* A request that fails: a placeholder of a row rule that nothing resolves, or
\* a list of choices over a field the role may not see.
Refused(c, ask) ==
  /\ ask.route \notin Raw
  /\ \/ ~ RowsResolve(c.rows, ask.who, HasPolicy(c, ask))
     \/ ask.route = "selection" /\ ~ MaySelect(c.fields, ask.who.role, ask.names)

-----------------------------------------------------------------------------
(* Keys. Answers that depend on who asks are not shared.                     *)

IsolatedRead(c, ask) == HasPolicy(c, ask) \/ c.rows # {}

Anonymous(who) == who.userId = "" /\ who.role = "" /\ who.roles = {} /\ who.kind = "caller"

WorkflowCacheable(c, ask) == c.workflow.cached /\ c.workflow.readOnly /\ Anonymous(ask.who)

Cacheable(c, ask) ==
  IF ask.route = "workflow" THEN WorkflowCacheable(c, ask)
  ELSE c.cached /\ (ask.route = "pipeline"
                    \/ (ask.route \in CachedRoutes /\ ~ IsolatedRead(c, ask)))

\* A version that is not there yet is set to 1 by its first reader.
Seen(v) == IF v = 0 THEN 1 ELSE v

(* Fault: the key does not tell the roles apart. *)
ReadKeyOfAllRoles(c, ask, v) ==
  [kind |-> "schema", version |-> v, route |-> ask.route,
   query |-> <<ask.ids, ask.void>>, shape |-> c.fields]

\* The key of a pipeline carries its name, not its stages.
ReadKey(c, ask, v) ==
  [kind |-> "schema", version |-> v, route |-> ask.route,
   query |-> <<ask.ids, ask.void>>,
   shape |-> IF ask.route = "pipeline" THEN <<>> ELSE <<ask.who.role, c.fields>>]

WorkflowKey(c, ask, v) ==
  [kind |-> "workflow", version |-> v, definition |-> c, query |-> ask.ids]

-----------------------------------------------------------------------------
ValidContainer(c) ==
  /\ \A route \in DOMAIN c.access : ValidPolicy(c.fields, c.access[route], FALSE)
  /\ c.creates.any # {} \/ DOMAIN c.creates.assign # {} => ValidPolicy(c.fields, c.creates, TRUE)

Saveable == {c \in Containers : ValidContainer(c)}

\* A write has converted the value of an object id field.
InTypes(types, record) ==
  \A f \in DOMAIN types \cap DOMAIN record : types[f] = "objectId" => record[f][1] = "oid"

\* The records are of the types of their fields, which no save of the container
\* turns into object ids or from them.
ASSUME FieldsAssumption ==
  /\ \A c \in Saveable :
       /\ \A id \in DOMAIN Written : InTypes(Types(c), Written[id])
       /\ \A d \in Edits : InTypes(Types(c), d)
  /\ \A c, d \in Saveable : \A f \in DOMAIN c.fields \cap DOMAIN d.fields :
       c.fields[f].type = "objectId" <=> d.fields[f].type = "objectId"

ReadsInit ==
  /\ container \in Saveable /\ former = {container}
  /\ content = Written /\ past = {content}
  /\ version = 0 /\ revision = 0
  /\ entries = <<>>
  /\ read = [r \in Readers |-> Idle]
  /\ job = [w \in Writers |-> Idle]
  /\ saves = 0

Proceeds(r, pc) == read' = [read EXCEPT ![r].pc = pc]
Looks(r, key) == read' = [read EXCEPT ![r].pc = "lookup", ![r].key = key]
\* The request is over, and its key is forgotten.
Ends(r, answer, partial) ==
  read' = [read EXCEPT ![r].pc = "done", ![r].answer = answer, ![r].key = NoKey,
                       ![r].partial = partial]

\* The container is the saved one; a reader without a shared key queries at once.
Load(r, ask) ==
  /\ read[r].pc = "idle"
  /\ read' = [read EXCEPT ![r] =
       [pc |-> IF Cacheable(container, ask) THEN "key" ELSE "query", ask |-> ask,
        container |-> container, key |-> NoKey, answer |-> {}, partial |-> FALSE]]
  /\ UNCHANGED <<container, former, content, past, version, revision, entries, job, saves>>

\* Without the version the read goes on uncached.
TakeKey(r) ==
  /\ read[r].pc = "key"
  /\ LET ask == read[r].ask
         c == read[r].container
     IN \/ /\ ask.route = "workflow"
           /\ Looks(r, WorkflowKey(c, ask, Seen(revision)))
           /\ revision' = Seen(revision) /\ UNCHANGED version
        \/ /\ ask.route # "workflow"
           /\ Looks(r, ReadKey(c, ask, Seen(version)))
           /\ version' = Seen(version) /\ UNCHANGED revision
        \/ ReadsFail /\ Proceeds(r, "query") /\ UNCHANGED <<version, revision>>
  /\ UNCHANGED <<container, former, content, past, entries, job, saves>>

Hit(r) ==
  /\ read[r].key \in DOMAIN entries
  /\ Ends(r, Refiltered(read[r].container, read[r].ask, entries[read[r].key]), FALSE)

\* On a miss one takes the fill lock and queries; the others keep looking until
\* the entry comes, and query after all when it does not come in time.
Lookup(r) ==
  /\ read[r].pc = "lookup"
  /\ Hit(r) \/ Proceeds(r, "query")
  /\ UNCHANGED <<container, former, content, past, version, revision, entries, job, saves>>

\* What is not stored: a search that can match nothing, a record not found and
\* the answer of a workflow that went on after a failed step.
Storable(ask, answer) ==
  ~ (ask.void /\ ask.route = "paginated") /\ ~ (ask.route = "getOne" /\ answer = {})

AfterQuery(r, answer, partial) ==
  IF read[r].key = NoKey \/ partial \/ ~ Storable(read[r].ask, answer)
  THEN Ends(r, answer, partial)
  ELSE read' = [read EXCEPT ![r].pc = "store", ![r].answer = answer]

Query(r) ==
  /\ read[r].pc = "query"
  /\ LET ask == read[r].ask
         c == read[r].container
     IN IF Refused(c, ask) THEN read' = [read EXCEPT ![r] = [pc |-> "refused"]]
        ELSE \/ AfterQuery(r, Answer(c, ask, content), FALSE)
             \/ ask.route = "workflow" /\ AfterQuery(r, {}, TRUE)
  /\ UNCHANGED <<container, former, content, past, version, revision, entries, job, saves>>

Store(r) ==
  /\ read[r].pc = "store"
  /\ \/ entries' = Keeping(entries, read[r].key, read[r].answer)
     \/ ReadsFail /\ UNCHANGED entries
  /\ Ends(r, read[r].answer, FALSE)
  /\ UNCHANGED <<container, former, content, past, version, revision, job, saves>>

-----------------------------------------------------------------------------
(* Writes.                                                                   *)

Turned(w, new) == job' = [job EXCEPT ![w] = new]
Ended == [pc |-> "ended"]

Free(id) == \A w \in Writers : job[w].pc = "written" => job[w].id # id

\* A write and its invalidation in one transaction: an error of Redis aborts it,
\* with the circuit open the version stays.
Writes(w, id, doc) ==
  \/ version' = version + 1 /\ Turned(w, [pc |-> "written", id |-> id, doc |-> doc])
  \/ ReadsFail /\ UNCHANGED version /\ Turned(w, [pc |-> "written", id |-> id, doc |-> doc])
  \/ ReadsFail /\ UNCHANGED version /\ Turned(w, Ended)

Edit(w) ==
  /\ job[w].pc = "idle"
  /\ \E id \in DOMAIN content, d \in Edits :
       Free(id) /\ d # content[id] /\ Writes(w, id, d)
  /\ UNCHANGED <<container, former, content, past, revision, entries, read, saves>>

\* The trusted values go in before the policy judges the record.
Create(w) ==
  /\ job[w].pc = "idle"
  /\ \E id \in Records \ DOMAIN content, d \in Edits :
       /\ Free(id)
       /\ \E made \in {Assigned(Types(container), container.creates, Creator, d)} :
            IF \E m \in made : Allows(Types(container), container.creates, Creator, m)
            THEN \E m \in made : Writes(w, id, m)
            ELSE Turned(w, Ended) /\ UNCHANGED version
  /\ UNCHANGED <<container, former, content, past, revision, entries, read, saves>>

(* Fault: the revision is not raised after the commit. *)
CommitOnly(w) ==
  /\ job[w].pc = "written"
  /\ content' = Keeping(content, job[w].id, job[w].doc)
  /\ past' = past \cup {content'}
  /\ Turned(w, Ended)
  /\ UNCHANGED <<container, former, version, revision, entries, read, saves>>

\* A commit may fail, and may succeed without the server hearing of it: then,
\* as after a crash, nobody raises the revision.
Commit(w) ==
  /\ job[w].pc = "written"
  /\ \/ /\ content' = Keeping(content, job[w].id, job[w].doc)
        /\ past' = past \cup {content'}
        /\ \E told \in {"owes", "lost"} : Turned(w, [pc |-> told])
     \/ Turned(w, Ended) /\ UNCHANGED <<content, past>>
  /\ UNCHANGED <<container, former, version, revision, entries, read, saves>>

RaiseRevision(w) ==
  /\ job[w].pc = "owes"
  /\ \/ revision' = revision + 1 /\ Turned(w, Ended)
     \/ ReadsFail /\ UNCHANGED revision /\ Turned(w, [pc |-> "lost"])
  /\ UNCHANGED <<container, former, content, past, version, entries, read, saves>>

\* Saving the container, or its pipelines, raises the revision, if Redis can be
\* reached, and leaves the version of the schema.
SaveContainer ==
  /\ saves < MaxSaves /\ saves' = saves + 1
  /\ \E c \in Saveable \ {container} : container' = c /\ former' = former \cup {c}
  /\ revision' = revision + 1 \/ (ReadsFail /\ UNCHANGED revision)
  /\ UNCHANGED <<content, past, version, entries, read, job>>

ReadsNext ==
  \/ \E r \in Readers :
       \/ \E ask \in Asks : Load(r, ask)
       \/ TakeKey(r) \/ Lookup(r) \/ Query(r) \/ Store(r)
  \/ \E w \in Writers :
       Edit(w) \/ Create(w) \/ Commit(w) \/ RaiseRevision(w)
  \/ SaveContainer

ReadsSpec == ReadsInit /\ [][ReadsNext]_readVars

-----------------------------------------------------------------------------
(* Properties.                                                               *)

\* A record the reader may see, judged as a create or an update judges it, by
\* the rules one by one; a rule that excludes values holds of a record without
\* the field, where MongoDB's reading of the filter counts.
MaySee(c, ask, record) ==
  /\ InRows(c.rows, ask.who, HasPolicy(c, ask), record)
  /\ HasPolicy(c, ask) =>
       \/ Allows(Types(c), c.access[ask.route], ask.who, record)
       \/ \E rule \in c.access[ask.route].any :
            /\ OnField(rule) /\ FieldOf(rule) \notin DOMAIN record
            /\ rule.op \in {"ne", "nin"} /\ Available(ask.who, rule.value)
            /\ NormalizeRule(Types(c)[FieldOf(rule)], rule.op, Resolve(ask.who, rule.value)) # {}

Due(c, ask, docs) ==
  IF ask.route \in Raw THEN Answer(c, ask, docs)
  ELSE Show(c, ask, docs, {id \in Wanted(ask) \cap DOMAIN docs : MaySee(c, ask, docs[id])})

\* The containers an answer may be due under: the one the request loaded; for a
\* pipeline that is cached also one saved before or meanwhile that cached it, as
\* neither the key nor the version tells its stages apart.
Governing(q) ==
  {q.container} \cup
  (IF q.ask.route = "pipeline" /\ q.container.cached THEN {c \in former : c.cached} ELSE {})

\* Whatever was cached before and by whom, an answer is the one due to this
\* caller for a content that was once committed, under the container his request
\* loaded: no reader is shown another's records or fields. The answer of a cached
\* pipeline is only known to be that of some stages the pipeline once had: after
\* its stages are edited the answers of the old ones are still served.
OwnView ==
  \A r \in Readers :
    read[r].pc = "done" /\ ~ read[r].partial =>
      \E docs \in past, c \in Governing(read[r]) :
        read[r].answer = Due(c, read[r].ask, docs)

\* Once every commit has raised the revision, a workflow result under the
\* current revision is what the workflow would answer now.
WorkflowResultsFresh ==
  (\A w \in Writers : job[w].pc \notin {"owes", "lost"}) =>
    \A k \in DOMAIN entries :
      k.kind = "workflow" /\ k.version = revision =>
        entries[k] = {<<id, content[id]>> : id \in DOMAIN content}
=============================================================================
