# Verification of autotable-Go

TLA+ models of the concurrent core of the autotable backend (Go, Fiber, MongoDB,
Redis), model-checked with TLC, and proofs for every value of the constants with
TLAPS. Paths below are relative to the repository's root.

The backend serves many tenants, each with projects whose schemas ("containers"),
records, pages and workflows are data. Any number of replicas may run the same
process. `main.go` starts, next to the HTTP server, one goroutine each for the
outbox processor, the cron scheduler, the localization worker, the WebSocket
broadcaster and the Redis subscriber. What can go wrong is in the orders in which
requests and these goroutines, on several replicas, read and write MongoDB and
Redis, and in what a stop, a lapsed lease or a retried transaction leaves behind.
That is what the models are about.

## 1. The system

State: MongoDB collections of the project (containers, records, pages,
translations), of the tenant (projects, memberships, credentials, grants, sessions)
and global ones (`dynamic_outbox`, `dynamic_workflow_step_executions`,
`workflow_cron_schedules`, `localization_jobs`); Redis keys (locks, caches and their
versions, slug mappings, idempotency, rate limits); in-memory registries of a process.

| Component | State | Operations | Hard because of | Correct when | Modelled in |
|---|---|---|---|---|---|
| Dynamic outbox (`services/dynamic_outbox.go`, `repositories/dynamic_outbox_lifecycle.go`) | events with status, attempts, lease; step markers | insert, claim, renew, dispatch, acknowledge, expire | several processors, lapsed leases, crashes, retries | an effect happens once, "done" is true, nothing stays leased | `Outbox`, `DurableJobs` |
| Cron scheduler (`services/dynamic_cron.go`, `workflow_cron_durable.go`, `repositories/workflow_cron.go`) | cursor per workflow, loaded registry per replica | reload, register, skip, queue | stale registries, transactions in conflict with edits and each other | no instant lost or queued twice, no obsolete code queued | `CronSchedule` |
| Cron roots (`services/workflow_cron_outbox.go`) | root events, markers, the workflow's data | claim, fenced transaction, acknowledge | a lease that ends inside the transaction, commits reported as errors | each root commits once, serially, under its claim | `CronRoots` |
| Localization (`services/localization_*.go`, `repositories/localization_*.go`) | translation rows, jobs, `localizationVersion` | reconcile, translate, save by hand, publish | late results, takeover of jobs, client caches | shown text matches its source, manual text is kept, caches are renewed | `Localization` |
| Record updates and deletes (`services/dynamic_service.go`) | records, Redis locks, audit | single and bulk update and delete | read outside the transaction, locks that lapse or fail open, callbacks run again | policies hold before and after, audits and answers tell the truth | `RecordWrites` |
| Project lifecycle (`controllers/projectController.go`, `project_cleanup.go`, `repositories/external_api_credentials.go`) | project row, its collections, shared rows, memberships, grants | create with rollback, update, delete, grant, promote, disconnect, revoke | a dozen separate writes, failures half-way, transactions in between | a deleted project leaves nothing and no grant | `ProjectLifecycle` |
| Templates and pages (`controllers/projectController.go`, `template_external_api_credentials.go`, `pageController.go`) | the template's containers, records and pages, and their copies | bind and grant credentials, copy with new ids; create, update, delete pages | collections are read one after another while the template is edited | a copy stands alone | `TemplateClones` |
| Slug mappings (`utils/tenantContext.go`, `ws/hub.go`) | Redis key slug -> project | lookup over REST and WebSocket, invalidation | background store against invalidation | nothing served for an inactive project | `ProjectSlugs` |
| Record creates, counters, references (`services/dynamic_service.go`, `utils/getNextSequence.go`) | records, one counter per schema name | create, bulk create, count, delete, forced delete | write skew between transactions, callbacks run again | numbers are used once, what is deleted was free when its transaction looked | `RecordReferences` |
| Embedded arrays (`services/dynamic_array_service.go`) | rows inside a record | add, update, delete, reorder | rows read before the transaction, a lock that lapses | mutations are serial | `RecordArrays` |
| Record access filters (`services/record_access.go`, `utils/rowAccess.go`, `fieldFilter.go`) | none | compile to a MongoDB filter, evaluate in memory | two implementations of one meaning | an answer is the caller's own view | `RecordAccess` (operators) |
| Reads and caches (`utils/generateRedisKey.go`, `cacheStampede.go`, `workflow_cache.go`) | versions, entries, revision | read, wait, fill, invalidate | answers shared between callers, invalidation before or after the commit | nobody is given another's answer, workflow results end up fresh | `RecordReads` |
| Containers and indexes (`controllers/containerController.go`, `utils/indexSync.go`) | containers, invalidation lists, indexes, cached listings | create, update, delete, list, save workflows | no call is a transaction, each maintains the other containers | calls one after another never disagree | `ContainerEdits` |
| Workflow engine (`services/dynamic_workflow.go`) | budgets, outputs, queued steps, markers | steps, branches, loops, nested workflows, queue, replay | nesting of budgets, callbacks run again, events delivered twice | effects once, all or nothing, no call inside a transaction, hops bounded | `WorkflowEngine` |
| Sessions (`controllers/sessionController.go`, `authCookieHelpers.go`, `repositories/auth_session_repository.go`) | session families, the browser's cookie | rotate, classify, revoke, log in and out | tabs that refresh at the same time, lost answers | a token is exchanged once, a closed project keeps no session, the browser keeps the live cookie | `AuthSessions` |
| Registration and login (`controllers/tenantAuthController.go`, `authController.go`) | users, tenants, memberships, accounts, OAuth states | register, log in, sign in with Google | three writes with a rollback, checks before writes | what a person was told stays true | `Signups` |
| Request authentication, management authorization (`middlewares/authenticate.go`, `tenantAuth.go`, `managementAuthorization.go`) | memberships | choose a credential, resolve permissions | several credentials at once, five documents read one by one | a handler is reached only by whom the documents allow | `RequestAuth` |
| Limits, idempotency, circuit (`middlewares/rateLimit.go`, `utils/idempotency.go`, `configs/redis_circuit_breaker.go`) | Redis keys; phase and probe | count, lock, look again, wait, store; allow, record | lapsed locks, failing Redis, callers that never report | one execution per key, the circuit lets its probe through | `Requests` |
| WebSocket hub (`ws/hub.go`, `events`) | clients, bounded queues | emit, relay, broadcast, write, disconnect | full queues, slow clients, broken subscriptions | no gap is silent | `WsHub` |

All of these have theorems (section 4). Not modelled,
with the reasons in section 6: branding, project-owned credentials, Excel, notifications, audit queries, form and cart verification, parsing
and validation of untyped data, generated descriptions, startup and observability, the
upgrade tool, samples and scripts.

How the components meet: a record write commits its record, its audit entry and an
outbox event in one transaction; the outbox dispatches audit, invalidation and queued
workflow steps; the cron scheduler inserts root events into the same collection and
the outbox dispatches them through a path of its own; workflow steps queue further
events. A request passes limits, authentication and the idempotency of its key before it
reads through the caches or writes, and what it writes is told to clients by the hub.
`DurableJobs` is the promise between these components: `Outbox` and
`CronRoots` are both shown to keep it.

## 2. The modules

### DurableJobs — what a queue of durable jobs promises
A submitted job is finished once, as done or failed; done only after its effect; the
effect of a transactional key once for all submissions of the key. No claims, leases,
workers or retries.

### Outbox — the collection, the processors, the dispatches
`status`, `due` (nextAttemptAt has passed), `attempts` and `job` are the document;
`run[d][n]` is the dispatch goroutine of attempt n, which goes on after its lease
lapsed; `serving` and `left` are a processor in `processDynamicOutboxBatch`; `marker`
is `dynamic_workflow_step_executions`; `effect`, `audited` and `emitted` are what the
dispatches do to the world. Inserting is subject to the unique key of the collection,
claiming to `attempts < maxAttempts`, acknowledging to status, lease and attempt
(`outboxClaimFilter`). A lease is made to lapse by an action that may happen at any
moment, which covers every clock, pause and network delay. Crashes drop the processor
and leave the document leased; the claim query then fails it when its attempts are
used up. Three kinds of dispatch are told apart: steps replayed in a transaction
(marker and effect are one commit), external steps (call first, marker after) and
post-write events (audit, then broadcast). Steps queued without a key are left out.

### CronSchedule — one workflow's schedule
Replicas load the containers (`snapshot`) and poll from what they loaded.
`materializeCronSchedule` is Poll followed by up to three kinds of transaction, each a
Begin, which reads under the snapshot, and a Commit, which is possible while no
document it writes has been written by another since (`stale`): MongoDB's write
conflict. `fenceCronSource` compares the live workflows with the loaded ones and
writes the container; that the fence writes is what makes it a fence, as the fault
`FaultFenceReadOnly` shows. `cursor`, `queue` are the two collections; `since` is the
first instant of the cursor's definition, kept for the properties. Time is a clock of
a few ticks, a definition is the set of instants it fires at. The shared budget of 500
events per poll and the rotation between workflows are left out.

### CronRoots — the execution of the roots of one workflow
The same transactions with snapshots and conflicts: `seen` is how much of `journal`
the snapshot of a root's transaction holds. The scope fence, the marker and the claim
fence are separate steps in the order of `processCronWorkflowOutbox`. A commit may
succeed and be reported as an error. What the workflow does is one entry of the journal.

### Localization — rows, jobs, workers, users, clients
A source text stands for its hash, a translation for the hash it was made from.
`cached` is what clients hold under the present `localizationVersion`, and an
increment empties it. Workers lease jobs, reconcile rows with the sources they
discovered (plan, then apply against the live row), translate what they selected, and
store each text in a transaction that writes the job's claim; users save by hand or
ask for a reconciliation. The discovery of texts inside pages and records and the
translation service are inputs.

### RecordWrites — updates and deletes of records
`docs` is committed state, `lock` the two families of Redis locks, `snap` and
`written` a request's transaction, `before` what it read and audits. A single update
reads before its transaction and writes the whole merged document; a bulk request runs
its items inside one transaction and lets go of each lock before the commit. `nameless`,
`successful` and `doomed` are Go variables that survive a callback run again by the
driver: the id deleted from the parsed body, the answer, and an aborted transaction
whose error was reported as an item's failure.

### ProjectLifecycle — creation, update, deletion, grants
Every write of the handlers is a step, because they are separate writes: `row`
(projects), `stored` (collections, rows of shared collections, memberships), `grants`,
`owner` (where a credential belongs). A grant or promotion is a transaction: Snapshot,
TouchProject (`touchCredentialGrantProject`, which writes the row and so excludes other
writers: `held`), CommitGrant. A deletion and a failed creation share the steps from
Deactivate to RemoveRow. `disturbed` records that a project was activated, or written
to, while it was being removed: the code does not prevent this, and the properties
say what holds without it.

### ProjectSlugs — the lookup of a project by its slug
Extends ProjectLifecycle with the key that REST and WebSocket share. A miss reads the
row and stores the mapping, REST in a goroutine; a hit verifies over REST that the
project is active, over WebSocket nothing. An update or deletion invalidates the old
and the new slug after its last write, and the invalidation may fail. `since` collects
what was true of the projects since a lookup began. Note what the model leaves
unclaimed: `ws/hub.go` looks up and stores without asking whether the project is
active, for 24 hours, under the same key; that is why ServedWhileActive speaks of REST.

### TemplateClones — a project made from a template that is being edited
`template` is what is cloned, `clone` the request, which reads the containers once, binds
and grants their credentials, and then copies containers, pages and records in the order of
`cloneProjectFromTemplate`: the records of all containers are read before any is written,
one container at a time, in any order. The inputs of the request are chosen where it uses
them. `copy` says of every reference whether it points into the copy or still into the
template. A page has its parent, the mark of the main page and `links`, the pages named in
the overrides and items of its navigator or in a nested page: the clone gives only the page
and its parent new ids, so the links stay with the template. An update of a page sets what
its body has: it clears neither a parent nor the mark. Meanwhile users save and delete records, fields, workflows and pages (a main page
is written first and clears the others in a second call, `editor`), withdraw credentials
and change the template's settings. `changes` is what they edited since the containers were
read: CopyStandsAlone speaks of the rest. Containers themselves are not added or removed.

### AuthSessions — refresh tokens in one browser
`session` is the collection `auth_sessions`, one document per login ("family") with the
current token, the one before and whether its five seconds last (`grace`); a token is its
family and its number. `jar` is the cookie the tabs share, `tab` a request per tab with
the token it presented, and its answer, which sets or clears the cookie when the browser
takes it, in any order, or is lost. A refresh is the conditional update of the repository
(Rotate), the second look at the document when nothing was updated (ClassifyRotation) and
the revocation of the family (RevokeReused), three separate calls. Project users log out
without a revocation, management users with one; only the refresh of management users
looks at the project again. `late` are the logins that were between the check of the
project and the insertion of the session when the project's sessions were revoked: the
code lets them live, and ClosedEndsSessions is stated without them. The sessions of the
tenant panel rotate in the same way and are left out.

### Signups — how accounts come into being and are entered
A call (`visits`, numbered as they begin) goes through the handlers one database call at
a time; every write may fail with or without its effect, every rollback may fail, a stop
is possible anywhere, and a lookup that fails is taken for one that found nothing, as
`TenantRegister` and `GoogleCallback` take it (`blind`). `owners`, `tenants`, `owning`
are users, tenants and memberships, `accounts` the collection of the project's account
container with the unique index its address has, `consents` the OAuth states in Redis,
`kept` the stored sessions. Roles and fields are refusals that may happen.

### RecordReferences — creates, numbers, references, forced deletes
A request is a transaction under a snapshot: begin, work, commit, with the conflict of
MongoDB (`Unwritable`) and the driver's rerun of the callback (`RunAgain`), whose Go
variables (`kept`: the numbers written into the items) survive. The counter is inside the
transaction of the create. `gone` keeps what a deletion saw.

### RecordArrays — rows embedded in a record
The lock, the read outside the transaction, the rows computed from it, and the write
whose selector asks for the rows that were read. An update of the whole record shares the
lock and has no such selector: `exposed` are the requests that were at work without it.

### RecordAccess, RecordReads — who sees what, through shared caches
`RecordAccess` has no state: values are tagged tuples, `Filter` is the MongoDB filter of
a policy, `Allows` the judgement of one record, `Show` the projection. `RecordReads`
adds the content, the container, the entries of Redis with the version in their key, and
readers and writers whose steps are the calls of the handlers. A pipeline is the set of
fields its stages keep (`Piped`), a part of the container that a save may change, while its
key stays; `former` are the containers saved so far, and `Governing` those an answer may be
due under. The two readings of a
policy differ in one place: a rule that excludes values holds of a record without the
field in MongoDB and not in memory; `MaySee` says so.

### ContainerEdits — the containers of a project
Each call (`edits`, numbered) is the sequence of separate writes of the handler: checks,
the index synchronisation, the whole document, the invalidation lists of the containers it
refers to, the role container, the cached listings. `touched` records who wrote a
container and what overlapped. The unique index on names is a constant (`NamesIndexed`),
since a failed creation of it is only logged.

OnlyOverlapsDisagree names the calls that may be to blame. Two of its exceptions were
found by trying to prove it without them:
- Without the index, two creates of one name that overlap both pass the check. If the
  second fails right after its write, and a third call, beside neither, then renames "the"
  container of that name, the lists and indexes it maintains are those of either one. So a
  name that two overlapping calls both gave (`Shared`) is excepted, which needs four calls
  and `NamesIndexed = FALSE` and is beyond the instance of `data`.
- "role" is not a reserved name (`models.RestrictedSchemaNames` has "containers" only). A
  single call that asks for an account container of that name finds no container "role",
  adds the default one (`ensureRoleSchemaExists`) and writes its own beside it: two
  containers of one name with nothing overlapping. `Raced` says so; the account container
  itself stays the only one.

### WorkflowEngine — one run of a definition
A run is one evaluation of a tree of steps (`Run[n]`, a recursive function of the call
of `runWorkflowStepList`, or of the loop of `workflowForEach`, that is being made), with a
cut at any of its operations (`MaxOps`), which stands for an error or a stop there. The
argument `n` is fuel: `MaxTurns` of it is more than any run of the instance uses, and a run
that had none left would end in an error. The actions decide what of the run is kept: of a
request with or without a transaction, of a rerun callback with the payload of the run
before, of a queued step delivered by two processors, of a captured group with its marker.
A replay is one step: its commit, or its last operation where it has no transaction. There
`workflowCreateRecord` looks for its key and inserts in two calls, and no index forbids two
documents of one key: `Replay` may have `missed` whatever was written since its processor's
claim (`seen` is what was there then), and `Keep` writes that again. `met` remembers of an
event that a second delivery began while one was under way.
Conditions hold always, never or for the first item. What the code decides by walking a
definition (`workflowStepsRequireTransaction`, `workflowStepTreeHasExternalEffects`, the
validation) is a set of steps that grows with the height of the trees, up to the number of
`Steps`. A captured step is replayed in the mode `Captured`, where everything below it
belongs to the event. `finished` remembers, of each request and event that is done, whether
its last run passed over an error or started from a payload that had already returned.

### RequestAuth — who a request is taken for
A token is a record of its claims; a request may show four at once, in a header and three
cookies. The choice is the code's, per kind of route. Management users' roles come from
documents that `Withdraw` may remove between two reads; `gone` are those removed before
the request came, `seen` what was read, in the order of `Documents`. Project users' roles
come from their token. A record request has a name in its query, in its path, or both
(`ConditionalSchemaName` is the one the middleware goes by, `WorkedOn` the one the handler
does); `JudgedBy` tells the properties which of them let it in.

### Requests — limits, idempotency, circuit breaker
A request's route through rate limits and the idempotency middleware, asking the circuit
before each use of Redis. Asking, calling and reporting are one step where nothing stands
between. One process: a crash ends its requests and forgets the circuit. A lock lapses
only after the request that took it has ended, because handlers end in 10 seconds and
locks last 30; what that rests on is in the module's header.

### WsHub — events on their way to clients
`queue` per server, `client[c].send` per client, both bounded; `told[c]` is the history of
what the server broadcast to the client's project. A full server queue drops the event, a
full client queue disconnects, publications fail, subscriptions break.

### The MC modules that put parts side by side
`MCJobs`, `MCProgress`, `MCData`, `MCTraffic` and `MCAccounts` extend several models. The
variable `part` says which of them a behaviour is about; the others stay in one initial
state, so the state space is the sum of the parts and not their product. The parts share
one set of model values where they have actors, so that one small group of permutations
serves as symmetry. `MCAuth`, `MCReads`, `MCRequests`, `MCSignups`, `MCWorkflows`,
`MCReferences`, `MCArrays`, `MCContainers`, `MCRecordWrites` and `MCOutbox` give the parts
their inputs; those of the hub are in `MCTraffic`.

## 3. The runs

| Run | Instance | What it shows |
|---|---|---|
| `jobs` | two documents of one transactional key, two roots, two processors, two attempts | types; ExactlyOnce; each root commits once, serially, under its claim; outbox and roots implement DurableJobs |
| `progress` | one document with an external or transactional step or a post-write event, three attempts, fairness; one row, two source texts, one job, two workers, an edit, a save and a stop, fairness | DoneIsPerformed and EventuallyFinished; CurrentMatchesSource, TextsHaveTheirWriter, PublishedIsFresh and EventuallyHandled |
| `cron_schedule` | two replicas (one steady), definitions A and B and "off", two edits, three ticks, horizon 1, batch 1, fairness | no instant lost or queued twice; nothing obsolete queued and the cursor only moves forward; it catches up |
| `data` | fifteen workflows, five operations before a cut, one rerun, two deliveries; one record under two updates, a bulk update and a delete; six linked records; three mutations of an array; three calls on two containers | what a workflow promises (below); answers and audits tell the truth; policies hold before and after; numbers, references, arrays and containers |
| `traffic` | two readers and a writer; any credentials on any kind of route, two documents withdrawn; two keyed requests, two faults, a crash; two servers, a client, queues of one; three calls on one address | OwnView, WorkflowResultsFresh, OnlyPermitted, RunsOnce, NoSilentGap, AccountsKeepTheirWord |
| `accounts` | two projects, any three requests two at a time, one failure, lookups by slug; two logins, two tabs, two exchanges, a project closed and opened; a clone of a template of three records and two pages under two edits | a deletion leaves no grant and nothing stored; a promotion keeps access; nothing is served over REST for an inactive project; a token is exchanged once, the browser is not left with a spent one, no current token counts as reuse, a closed project keeps no session; a copy stands alone |
| `localization_stop` | two jobs, one worker, one stop | **violated**: SettledIsFresh |
| `record_report` | two records, bulk requests, one retry | **violated**: ReportedIsCommitted |
| `project_slugs` | one rename, two lookups | **violated**: StopsResolving |
| `session_conflict` | one login, two tabs, two exchanges | **violated**: ConflictLeavesCookie |
| `workflow_rerun` | a workflow of two creates and a return, one rerun | **violated**: CompletedIsWhole |
| `circuit_probe` | one failure, two requests | **violated**: ProbeFree |

The six violations are disagreements between the code and what the repository says
of it; `PROJECT.json` quotes the lines.

- `localization_stop`: a worker that stops between the last stored translation and the
  increment leaves it to the next attempt, which finds nothing to translate and
  increments nothing; clients keep the old texts under the present version.
- `record_report`: the answer of a bulk request is a variable set inside a callback the
  driver may run again; after a rerun in which no item succeeds, the first run's
  successes are reported although they were rolled back.
- `project_slugs`: a mapping stored in the background after the invalidation of a rename
  keeps the old slug leading to the renamed project for an hour.
- `session_conflict`: a tab that lost a refresh is told to retry with the current cookie,
  and the same answer clears it; when it arrives after the answer of the tab that won, the
  browser has lost a live session.
- `workflow_rerun`: the payload of a transactional workflow is captured by the callback;
  run again by the driver, it still says that the workflow has returned, so the second run
  stops after its first step, commits, and is reported as complete.
- `circuit_probe`: a rate limit asks the circuit before it knows that a policy applies;
  where none does, the half-open probe is taken and nothing is reported, and the circuit
  stays closed to everyone.

### The properties of `data`, `traffic` and `accounts`
- NoCallInTransaction, EffectsOnce, AllOrNothing, HopsBounded: an external call is never
  rolled back; however often it is delivered, a create leaves one record (but for a group
  replayed without a transaction whose deliveries were under way at the same time) and a
  queued step one event; a run reported as done has all effects of its tree, one that failed in a
  transaction has none; workflows that queue themselves come to an end. AllOrNothing
  excepts the reruns that `workflow_rerun` shows.
- NumbersOnce, DeletedWasFree, RowsAreSerial: under snapshots and reruns, numbers are
  dense and unique, a deletion saw no reference, mutations of an array are serial unless
  an update of the whole record was at work without its lock.
- CommittedIsReported, AuditTellsWhatWasReplaced, PolicyBeforeAndAfter: a bulk answer
  leaves out nothing it changed; an audit's "before" is what the commit replaced; the
  writer was allowed both the old and the new record.
- OnlyOverlapsDisagree: what the containers promise each other (distinct names, one
  account container, invalidation lists, saved workflows, indexes, current listings) is
  broken only where calls overlapped or did not end well.
- OwnView: an answer, from any cache, is the one due to this caller under the container
  his request loaded, for a content that was once committed. It does not promise the
  newest content, nor, of a cached pipeline, its present stages: see the observations.
- OnlyPermitted: a handler is reached as a project user, a manager or an integration only
  with a credential that is his, for this project, while what speaks for him stood, by the
  rules of the container the request works on; a route of embedded arrays that is asked
  with two names is judged by that of its query.
- RunsOnce: where Redis answers, a stored request never runs again under its key, and an
  answer is replayed only for the same request.
- NoSilentGap: what a connected client has and will get is everything that was broadcast
  to his project since he connected, in order.
- AccountsKeepTheirWord: an address has one account (owners: but for calls that met or a
  lookup that failed), a registration is whole, who was told he is registered gets in, one
  consent lets one browser in, and the answers that set cookies, but for Google's, have a
  stored session behind them.

- TokensAreOneChain: a token is exchanged once; the browser, once its tabs rest, holds the
  current token or none; a current token never counts as reuse.
- CopyStandsAlone: the copied workflows use only credentials granted to the new project, as
  the design of shared credentials asks ("rewrite only the discovered workflow credential
  references before containers are persisted"); what nobody edited meanwhile is copied and
  refers to copies; what the copy refers to as its own it has, and what it still refers to
  in the template is an account, was edited meanwhile, is not there, or goes by a field that
  is not declared; the links of its pages all stay with the template; there is a role.

### What the models showed that no run claims
The properties are stated around these; they are listed because a reader of the code
would want to know.
- Reads: a schema's cache version is raised inside the writing transaction, so an answer
  filled between the increment and the commit is stale until it lapses; the pagination of
  a cached answer has another shape than that of a computed one. The key of a cached
  pipeline has its name and not its stages (`dynamic_service.go:1679`), and
  `UpdatePipelines` raises no version: an edited pipeline is answered as before until the
  entry lapses or a record is written.
- Routes of embedded arrays take their container from the path
  (`dynamicArrayController.go:44`), their authentication takes it from `?schemaName=` where
  that is given (`authenticate.go:326`), and nothing compares the two, as the export does
  (`dynamic_service.go:2315`).
- A captured group that writes and calls out is at least once also for its writes: two
  deliveries that are under way together may both create a record of one key
  (`dynamic_workflow.go:605` and `:619`; `docs/workflow-audit-2026-10-18.md:44`).
- Hybrid workflows: a transactional `if` that holds an outbox step has that step skipped
  in both passes (`dynamic_workflow.go:398`) though validation accepts it, and
  `emit_outbox_event` is accepted by validation and always fails when run.
- Counters are shared by all projects that use one schema name. After a rerun of a create
  the number already in the item fails validation, so numbers stay unique but the client is
  answered 400 instead of being retried.
- A forced deletion may remove records that others still refer to
  (`StillReferencedIsKept` in `RecordReferences` is false of it).
- Containers: overlapping calls may create two account containers; an overlapping update
  writes back old workflows and lists; a container deleted and created again, or renamed,
  is not invalidated for until its referrers are saved; retired indexes are dropped before
  the container is written, so a failed write leaves a declared index missing.
- Templates: accounts are not copied, so references to accounts, to what was added or
  removed during the clone, and inside embedded arrays (only top-level fields are mapped)
  still hold ids of the template, as do the page ids in navigators and nested pages
  (`projectController.go:385`). Two users who each make a page the main one may leave
  none: both write, then each clears the other's mark. A deleted page leaves its id in the
  pages below it.
- Idempotency: the contents of uploaded files are not part of a request's hash.
- Hub: events dropped by a full server queue, a failed publication or a broken
  subscription are missed without notice.
- Sign-in with Google sets a refresh cookie and stores no session, so the first refresh
  clears it. TenantRegister and GoogleCallback take any error of a lookup for "not there".
  A stop between the writes of TenantRegister leaves an owner who can neither register
  again nor log in. Users, tenants and projects have no unique index on address or slug.

### Bounds, and why they are enough
Two actors of each kind and two items are what every hazard in the list needs: a stale
one and a current one. Two attempts give a late attempt and its successor; the third
attempt of `progress` separates "first", "middle" and "last", since the last is
recovered differently. Two edits allow a definition to change and change back; three
ticks with horizon 1 allow an instant to fall out of the horizon, one to be caught up
and one to be due. One stop, one retry or one failed call is enough for each fault to
hit every step once. Two edits of a template are one before and one after a read, or two that a clone falls
between. Two tabs and two exchanges are a token, its successor and a second
successor. Three calls of `ContainerEdits` and `Signups`, two at a time, are a state to
start from, a call that overlaps and one that meets the result. The workflows of `data`
are one per construct of the language and per nesting that the code treats apart; a cut
after at most five operations reaches every position in them. Sixty turns (`MaxTurns`) are
more than any of their runs takes: with forty the states are the same. Queues of one make the hub's
queues full after one event. Symmetry is used over processors, requests, roots, tabs and
readers, only in runs without liveness.
In `accounts` the project that is there starts with one of the two slugs, which are alike;
the pages of the template keep one set of links, and whether they follow the copy is
what the edits tell apart. In `traffic` the container starts open and is edited into the
others.
Every property has a fault: a changed definition, written before the one it replaces
(`Fault...` or a name of its own), as a plausible bug would have it, under which TLC finds
it violated in the same instance. So no bound is too small for its property to fail.

Runs that say `CHECK_DEADLOCK FALSE` are of systems whose requests are bounded, so
that they end.

### Fairness
- Outbox: dispatch goroutines end (each has a timeout), tickers fire, acknowledgements
  are made or given up, leases end, and a claim that stays possible is made (strong,
  since another processor's claim disables it for a while). Crashes stay possible at
  any time and are not fair.
- CronSchedule: only of replicas in `Steady`. Their two tickers are served by a `select`
  that chooses among ready cases at random (strong fairness of Reload and Poll), and a
  transaction that is retried is not interrupted for ever (strong fairness of Begin and
  Commit). The others may stop between any two steps.
- Localization: workers go on, and a lease nobody renews ends. Users and clients need
  not do anything.
Liveness is claimed for a bounded number of edits, stops and saves; the runs name them.
The other models have safety properties only: a request ends by its timeout, and what a
browser or a client does next is up to him.

## 4. The proofs

Eight modules hold the proofs, each for one or more models that they extend. All theorems
are of the specification as it is checked, for every value of the constants that the
named assumptions of the models allow (every run of a model evaluates them).

| Module | Theorem | Statement |
|---|---|---|
| JobsProofs | OutboxTypes | `Spec => []TypeOK` |
| | OutboxExactlyOnce | `Spec => []ExactlyOnce` |
| | OutboxDoneIsPerformed | `Spec => []DoneIsPerformed` |
| | OutboxRetryHasNoOwner | `Spec => []RetryHasNoOwner` |
| | OutboxFinishedIsFinal | `Spec => FinishedIsFinal` |
| | OutboxImplementsJobs | `Spec => ImplementsJobs` |
| | CronRootsTypes | `RootsSpec => []RootsTypeOK` |
| | CronRootsCommitOnce | `RootsSpec => []RootsCommitOnce` |
| | CronRootsAreSerial | `RootsSpec => []RootsAreSerial` |
| | CronRootsCommitUnderClaim | `RootsSpec => CommitsUnderClaim` |
| | CronRootsAreJobs | `RootsSpec => RootsAreJobs` |
| | CronScheduleTypes | `ScheduleSpec => []ScheduleTypeOK` |
| | CronScheduleLosesNothing | `ScheduleSpec => []NoOccurrenceLost` |
| | CronScheduleOnce | `ScheduleSpec => []OncePerInstant` |
| | CronScheduleFresh | `ScheduleSpec => NothingStaleIsWritten` |
| LocalizationProofs | LocalizationTypes | `TextsSpec => []TextsTypeOK` |
| | LocalizationCurrent | `TextsSpec => []CurrentMatchesSource` |
| | LocalizationPublished | `TextsSpec => []PublishedIsFresh` |
| | LocalizationWriters | `TextsSpec => TextsHaveTheirWriter` |
| RecordsProofs | RecordWritesTypes | `Spec => []TypeOK` (RecordWrites) |
| | RecordWritesReport | `Spec => []CommittedIsReported` |
| | RecordWritesPolicy | `Spec => PolicyBeforeAndAfter` |
| | RecordWritesAudit | `Spec => AuditTellsWhatWasReplaced` |
| | RecordArraysSerial | `ArraySpec => RowsAreSerial` |
| | RecordReferencesNumbers | `RefSpec => []NumbersOnce` |
| | RecordReferencesFree | `RefSpec => []DeletedWasFree` |
| ProjectLifecycleProofs | ProjectTypes | `Spec => []TypeOK` (ProjectLifecycle) |
| | ProjectGrantsEnd | `Spec => []GrantsEndWithProject` |
| | ProjectLeavesNothing | `Spec => []NothingLeftBehind` |
| | ProjectAccessEnds | `Spec => AccessEndsOnPurpose` |
| | SlugsTypes | `SlugsSpec => []SlugsTypeOK` |
| | SlugsServeActive | `SlugsSpec => []ServedWhileActive` |
| | CopiesAreTyped | `ClonesSpec => []CopyTypeOK` |
| | CopiesStandAlone | `ClonesSpec => []CopyStandsAlone` |
| AccountsProofs | SessionsTypes | `SessionSpec => []SessionTypeOK` |
| | SessionsAreChains | `SessionSpec => []TokensAreOneChain` |
| | SessionsEndWithProject | `SessionSpec => []ClosedEndsSessions` |
| | SignupsTypes | `SignupsSpec => []SignupsTypeOK` |
| | SignupsKeepTheirWord | `SignupsSpec => []AccountsKeepTheirWord` |
| TrafficProofs | HubTypes | `HubSpec => []HubTypeOK` |
| | HubLeavesNoGap | `HubSpec => []NoSilentGap` |
| | RequestsTypes | `RequestsSpec => []RequestsTypeOK` |
| | RequestsRunOnce | `RequestsSpec => []RunsOnce` |
| | ReadsAreOwn | `ReadsSpec => []OwnView` |
| | ReadsStayFresh | `ReadsSpec => []WorkflowResultsFresh` |
| | RequestsArePermitted | `AuthSpec => []OnlyPermitted` |
| ContainerProofs | ContainersBase | `ContainersSpec => []Base` |
| | ContainersAgree | `ContainersSpec => []OnlyOverlapsDisagree` |
| WorkflowProofs | CallsOutsideTransactions | `EngineSpec => []NoCallInTransaction` |
| | HopsEnd | `EngineSpec => []HopsBounded` |
| | EffectsAreOnce | `EngineSpec => []EffectsOnce` |
| | DoneIsWhole | `EngineSpec => []AllOrNothing` |

### The shape of an argument
None of the safety properties is inductive: each speaks of what has come about and not of
what a request half way through still knows. So every module defines an inductive
invariant as a conjunction of named parts, shows that it holds at first, that it implies
the properties, and, with one lemma per action, that every step keeps it. A lemma that says
what a step must keep in general ("one request moves and the rest stays", "the template
changes and the clone does not") comes before the lemmas of the actions, which then only
show how they meet it. Action properties follow from the invariant and one step; the
refinements from the initial state and one step, where a step of the implementation is one
of DurableJobs under the mapping or leaves what the mapping sees alone.

### The inductive invariants
- **Outbox**, `OutboxInv`: for every dispatch of every attempt, what its position says
  (`RunInv`): an attempt beyond the document's count has not begun; one that may still hand
  the event back is the current one; a dispatch past its effect has had it. `MarkerInv`: a
  recorded external step was called. `AbsentInv`: a document never inserted has no
  attempts. ExactlyOnce then rests on one fact: marker and effect change in one step, which
  looks at the marker again.
- **CronRoots**, `RootsIInv`: `OneHoldsScope` (of the transactions that have written the
  scope, one), `SnapshotOK` (a transaction that may still commit has seen the journal up to
  its snapshot, and all of it once it holds the scope), `ClaimOK`, `MarkerIsRecord` (the
  marker is there exactly when the journal has the root), `DoneHasCommitted`. That the
  fence writes the scope is what makes the journal serial.
- **CronSchedule**, `ScheduleInv`: `CursorFires` (the cursor stands at an instant of its own
  definition), and `ReplicaOK` of every replica, with a part per step; `Fresh` says that a
  transaction that can still commit has seen the live workflows and the cursor as they
  are.
- **Localization**, `IInv`: `StoringOwns` (a worker about to store under its claim has the
  job) and `ClaimsLast` (while nobody stops, a worker that has a job holds its claim), with
  CurrentMatchesSource and PublishedIsFresh themselves.
- **RecordWrites**, `WritesIInv`: for every request and every record of it, how its lock,
  the snapshot and its transaction's writes stand to each other at its step, and what the
  callback's variables know of what was committed, also after a rerun; `OneWriter`: no
  record is in the writes of two open transactions.
  **RecordArrays**: `MutationOK` (the rows a request will write were computed from the rows
  its selector asks for), `OneMutationWrites`, `LockedAlone`.
  **RecordReferences**, `NumbersIInv`: `CreateOK` (the numbers a create holds are those
  after the counter it read), `OneCounts` (of two creates of a container that could
  both commit, none has counted), `NumberedByCreate`. `FreeIInv`, for the deletions: a
  delete about to commit was let through by the check before each of its items. That the
  checks together leave no reference behind is an induction over the items: a set of
  numbers has a least one (`LeastNumber`, from `WFMin`), and what holds at 0 and is handed
  on from each number to the next (`HandedOn`) holds at all.
- **ProjectLifecycle**, `IInv`: `RequestOK(r)` per request and `HeldIsActive` (a row held by
  a grant's transaction is of an active project), which is why a grant and a removal exclude
  each other; `OwnerIsKnown`. **ProjectSlugs**, `SlugsIInv`, adds `LookOK`: what a lookup
  has found was true at some moment since it began.
- **TemplateClones**, `ClonesIInv`: what is not marked as changed is, in the template, as
  the clone has read it or as it will read it (`LinksRead`, `PagesRead`, `RefsRead`); what
  is inserted is remapped by all that was read (`RefsInserted`), so every reference to a
  copy is to one that will be there; each call is bound to a credential already granted or
  on the list of those to be granted, and nothing leaves that list but by a grant
  (`CallsBound`).
- **AuthSessions**, `SessionIInv`: `SpentIsPast` (an exchanged token is before the current
  one), `LastIsCurrent`, `JarOK`, `ClosedOK`, `TabOK` (what a tab presents or is about to store). Tokens are
  a family and a number, so "older" is an order, and the proof is about that order.
- **Signups**, `SignupsIInv`: per call `CallOK(n)`, the documents it has written by its
  phase, whether its address and slug were free when it looked, and what a login found;
  `OneUser` (an address has one account in the project's container).
- **WsHub**, `HubIInv`: `ServerOK` (no event is twice on a server's way, and one still to be
  received was not broadcast there), `ToldOK`, `ClientOK` (what a client has and its queue
  are, together, what he was told).
- **Requests**, `RequestsIInv`: `RequestOK` with `Fits` (a handler that runs holds the lock
  of its key, or ran without Redis), `ResultOK` (a stored result is of the request that
  ran), `OneLasts` (of the requests under one key, one is past its lock).
- **RecordReads**, `ReadsIInv`: `RecordsConform` (every content so far has object ids where
  the container declares them), `ReaderOK` (a reader's answer is due for a content that was
  committed, under a container that governs it), `EntryOK` (a cached entry is the answer of somebody who may share it under
  its key). The heart is two lemmas about operators: `SameFilter`, that the MongoDB filter
  and the judgement in memory agree on such records but for the rules `MaySee` excepts, and
  `SharedAnswer`, that all who share a key are due the same answer.
- **ContainerEdits**, `ContainersIInv`, of five parts. `Base`: where a request can be, what
  it has read, found and still has to do there (`CallOK`); every container is as the call
  that last wrote it would have it (`LeftBy`); between its check and its write a call may
  meet its name, or another account container, only from a call that overlaps it
  (`NameFree`, `AuthFree`, `RoleFree`, `OldFree`), which gives `Distinct`. `Onward` says what
  a step never undoes: overlaps, requests, the ends of calls. On these rest four invariants
  of one form: the promise, and for every call on its way what it has read that will make
  the promise true or false (`FlowsRead`; `FoundOK`, `Relisting`, `TriggersRead`;
  `IndexesOf`; `FillOK`, `RenamedTo`). What a call read can become untrue only by a call
  that runs beside it, and calls that run beside each other overlap for ever (`Together`,
  `BeganDuring`).
- **RequestAuth**, `AuthIInv`: `OutcomeOK` of what the checks decide (a lemma per branch of
  the middleware, each down to a credential that the request shows), and, of a lookup, that
  a document found there was not gone when the request came.

- **WorkflowEngine**, `FinishedInv`. Its part `EngineInv` says of what is kept: an event
  has gone down at least two levels for each hop (`Counted`), everything is of a request
  that is done (`AllSettled`), the keys are those of the paths and the event a record came
  by is that of the captured group its path is in (`AllKeyed`, `OwnerAt`). `Meetings` carries
  EffectsOnce: deliveries of one event that are under way together have met, and so has one
  with a record of its event that was not there at its claim (`Unseen`): whoever wrote the
  record delivered the same event, and was under way with it. The other, `AllFinished`, says that what a finished job needs is there.

### What a run computes, for every definition
A step of `WorkflowEngine` keeps the effects of a whole run, so its proofs need facts about
`Run[n]` for trees of any shape. There is no induction over data here; three arguments take
its place, each resting on `LeastNumber` and `HandedOn` alone:
- *Bounds that are closed.* A bound gives every call a set of effects. If it contains what
  the call's own step makes and, for every call below or after it, that call's bound
  (`Closed`), then whatever is evaluated stays within it (`EvaluateFits`). Quiet (nothing
  below can call), Light (nothing below writes), Within (hops and depth), Own (paths under
  the request's) and Right (keys, and the captured group of a path) are such bounds. They turn the code's walks over a
  definition into statements about its runs: the sets of steps reach a fixed point within
  the number of `Steps`.
- *Keys tell paths.* `FrameAt(path)` is what runs at a path (a list of steps or a step, its
  mode, the key of its effects), as a function of the path alone. `KeyTells`: two paths do
  not share a key. It is shown for keys of n parts at a time, together with the fact that
  no path has the key that a captured step adds its own last part to; `EventKey` would
  otherwise give an event the key of a step below another one.
- *Runs that are alike.* `Like` compares two evaluations of one call from states that may
  differ in the counter of events: one that ends well, and passed over nothing, has met no
  fault and has the effects of the other (`EvaluateAlike`). Hence `FinishedRequest` and
  `FinishedReplay`: what a job leaves when it is done is what it needs, whichever run of it
  came to the end. `KeptWhole` then says that a commit leaves all of it: what it does not
  write, because the key is there or comes earlier in the run, is there under its path.

### What is assumed of the constants
Most assumptions give kinds and bounds, or say that a value for "nothing" is none of the
others. Those that say something of the code:
- `VisitsAssumption` (Signups): registrations and logins bring a secret. A registration
  without the credential field is answered 400 (`authController.go:266`), so is a login
  (`:447`), and `TenantRegisterInput` requires a password (`tenantAuthController.go:45`).
- `FreshAssumption` (RecordReferences): what a create inserts has a fresh id, as
  `primitive.NewObjectID` gives it.
- `FieldsAssumption` (RecordReads): values of object-id fields are stored as object ids
  (`convertObjectIDFields`, `dynamic_validator.go:223`), and no save of the container
  turns a field into an object id or back. The second part is not enforced by the code: it
  is the scope of the two theorems about reads. After such a save old records hold values of
  the old type, of which the filter in MongoDB and the check in memory may differ.
- `TemplateAssumption` (TemplateClones): the shape of a template.
- `DemandsAssumption` (RequestAuth): what `approvedManagementRouteContracts` and the routes
  say: routes of pages are read-only (`pageRoutes.go:25`, `runtimeSchemaRoutes.go`); a
  contract of one project, and no other, asks for a `project.` permission; only the paths of
  the tenant have contracts of another scope. The instance has a route of each kind.
- `GrantedAssumption` (RequestAuth): the five documents of `LoadManagementMembership`.

### What is only model-checked
- *Liveness* (EventuallyFinished, EventuallyCaughtUp, EventuallyHandled): the prover has no
  rule for fairness and ENABLED.
- *CallsBoundedByClaims*, an invariant of `Outbox` that no run lists: counts a set and
  needs an induction over it.

## 5. What is left to prove

Every safety property of the passing runs has a theorem. Left are the three liveness
properties and `CallsBoundedByClaims`, for the reasons above, and that some `MaxTurns` is enough for
every run of given definitions: the theorems hold for any, and call a run that has none left
a run that failed. In the instance of `data` no run has (section 3, bounds).

## 6. Not modelled

- *Branding, project-owned credentials*: documents written and read one at a time; the
  grants of shared credentials are in `ProjectLifecycle`.
- *Parsing and validation of untyped data, form and cart verification, equations, audit
  differences, Swagger, Excel*: pure functions of values the models abstract to a few
  members; there is no state to interleave.
- *Notifications and audit queries*: their delivery is a post-write event of `Outbox`.
- *The budget of 500 events a cron poll shares among workflows*, and its rotation: the
  schedule of one workflow is modelled.
- *The tenant panel's sessions*: rotate as those of `AuthSessions` without a project.
- *Startup, configuration, observability, the upgrade tool, samples and scripts*: start the
  goroutines the models begin with, or are not part of the running system.
