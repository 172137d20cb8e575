--------------------------- MODULE WorkflowEngine ---------------------------
(* The interpreter of workflows: one run of a definition inside one request, *)
(* cron root or record write, the steps it queues in the outbox, and their   *)
(* replay by the outbox processors (services/dynamic_workflow.go).           *)
(*                                                                           *)
(* A run is one evaluation (Run) of a tree of steps, which may be cut short  *)
(* at any of its operations; the actions below decide what of it is kept.    *)
(* Values are left out: a condition holds always, never, or for the first    *)
(* item of a loop. Events are delivered again until they are done or out of  *)
(* attempts, also while an earlier delivery is still at work (a lease that   *)
(* lapsed); the claims themselves are in Outbox and CronRoots. A replay is   *)
(* one step, its commit or its last operation: one that has no transaction   *)
(* may have looked anything up before others wrote it since its claim.       *)
EXTENDS Integers, Sequences, FiniteSets, Functions

CONSTANTS
  Definition,     \* name -> workflow
  Listed,         \* the names in the order of the container's workflows
  Steps,          \* the steps of the definitions, at any depth
  Executions,     \* executions asked for
  Processors,     \* outbox processors
  MaxDepth,       \* maxWorkflowDepth
  MaxEvents,      \* maxWorkflowOutboxEvents
  MaxDeliveries,  \* deliveries of an event
  MaxReruns,      \* times the driver runs a callback again
  MaxOps,         \* bound: a fault strikes one of the first MaxOps operations
  MaxTurns,       \* bound: steps and items of a run, one after or inside the other
  NoEvent         \* no event: an idle processor, a run outside the outbox

Names == DOMAIN Definition
Transactional == "transactional"
OutboxMode == "outbox"
Hybrid == "hybrid"
Captured == "captured"    \* not a mode of definitions: of what an event has captured
Modes == {"", Transactional, OutboxMode, Hybrid, Captured}

Conditions == {"always", "never", "first"}
Branch == [when : Conditions, steps : Seq(Steps)]
StepShape ==
  [id : STRING, type : STRING, mode : STRING, active : BOOLEAN, when : Conditions, continueOnError : BOOLEAN,
   steps : Seq(Steps), elseSteps : Seq(Steps), branches : Seq(Branch), items : Nat, target : STRING]
Workflow ==
  [trigger : STRING, mode : Modes \ {Captured}, active : BOOLEAN, when : Conditions, stopOnError : BOOLEAN,
   runInTransaction : BOOLEAN, steps : Seq(Steps)]

ASSUME WorkflowEngineAssumption ==
  /\ {MaxDepth, MaxEvents, MaxDeliveries, MaxOps, MaxTurns} \subseteq Nat \ {0}
  /\ MaxReruns \in Nat
  /\ IsFiniteSet(Steps) /\ Steps \subseteq StepShape
  /\ Names \subseteq STRING /\ Definition \in [Names -> Workflow]
  /\ Listed \in Seq(Names)

VARIABLES
  request,        \* request -> [phase, wf, left]
  processor,      \* processor -> what it delivers, its tries, what it found at its claim
  queue,          \* key -> event of the outbox
  marks,          \* keys with a completion marker
  records,        \* records created: [path, key, nth, by], nth counting those of the same step
  updates,        \* steps whose update or audit entry (one per derived id) is written, by path
  calls,          \* external calls made: [path, txn]
  finished        \* <<"request", r>> or <<"event", key>> -> [stale, passed] of the run that completed it

engineVars == <<request, processor, queue, marks, records, updates, calls, finished>>

-----------------------------------------------------------------------------
(* Definitions: modes, what they require, what they are checked for. A walk  *)
(* over a tree is a set of steps that grows with the height of the trees.    *)

ModeOf(step, mode) ==
  IF mode = Captured THEN Transactional
  ELSE IF step.mode # "" THEN step.mode
  ELSE IF mode = OutboxMode THEN OutboxMode ELSE Transactional

Supports(mode, exec) == mode \in {exec, Hybrid} \/ (mode = "" /\ exec = Transactional)

Lists(step) == {step.steps, step.elseSteps} \cup {b.steps : b \in Range(step.branches)}
Children(step) == UNION {Range(list) : list \in Lists(step)}

External(step) == step.type = "call"

WritesTransactionally(step) == step.type \in {"create", "update", "audit", "emit", "execute_workflow"}

(* Fault: the steps of an else are forgotten. *)
FaultNoElse(step, mode, below) ==
  step.active => /\ ModeOf(step, mode) # OutboxMode
                 /\ ~WritesTransactionally(step)
                 /\ \A s \in Range(step.steps) : <<s, mode>> \in below
(* Whether a step needs no transaction, as the steps below do not need one.  *)
NeedsNone(step, mode, below) ==
  step.active => /\ ModeOf(step, mode) # OutboxMode
                 /\ ~WritesTransactionally(step)
                 /\ \A s \in Children(step) : <<s, mode>> \in below

withoutTransaction[n \in Nat] ==
  IF n = 0 THEN {}
  ELSE LET below == withoutTransaction[n - 1]
       IN {x \in Steps \X Modes : NeedsNone(x[1], x[2], below)}
WithoutTransaction == withoutTransaction[Cardinality(Steps)]

StepsRequireTransaction(steps, mode) == \E s \in steps : <<s, mode>> \notin WithoutTransaction

RequiresTransaction(wf) ==
  Definition[wf].runInTransaction \/ StepsRequireTransaction(Range(Definition[wf].steps), Definition[wf].mode)

(* Fault: only the children of the group are looked at. *)
FaultShallowTree(step, below) ==
  \A s \in {step} \cup Children(step) : s.active => ~External(s) /\ s.type # "execute_workflow"
(* Whether a step has effects in the database only, as the steps below have. *)
StaysInside(step, below) ==
  step.active => /\ ~External(step) /\ step.type # "execute_workflow"
                 /\ Children(step) \subseteq below

staysInside[n \in Nat] ==
  IF n = 0 THEN {} ELSE LET below == staysInside[n - 1] IN {s \in Steps : StaysInside(s, below)}
TreeHasExternalEffects(step) == step \notin staysInside[Cardinality(Steps)]

ReplayRequiresTransaction(step) ==
  \/ WritesTransactionally(step)
  \/ /\ step.type \in {"if", "for_each"}
     /\ StepsRequireTransaction({step}, Captured)
     /\ ~TreeHasExternalEffects(step)

ValidStep(steps, i, mode) ==
  LET s == steps[i]
      exec == ModeOf(s, mode)
  IN /\ s.type # "dynamic_function"
     /\ mode = Hybrid => s.mode # ""
     /\ mode \in {Transactional, OutboxMode} => s.mode \in {"", mode}
     /\ s.type = "return" => /\ exec = Transactional
                             /\ s.active /\ s.when = "always" =>
                                  \A j \in i+1..Len(steps) : ~(steps[j].active /\ ModeOf(steps[j], mode) = exec)
     /\ External(s) => exec = OutboxMode

(* The steps of a list are valid, as the lists of each of them are.          *)
ValidList(steps, mode, below) ==
  \A i \in DOMAIN steps : ValidStep(steps, i, mode) /\ <<steps[i], mode>> \in below

validSteps[n \in Nat] ==
  IF n = 0 THEN {}
  ELSE LET below == validSteps[n - 1]
       IN {x \in Steps \X Modes : \A list \in Lists(x[1]) : ValidList(list, x[2], below)}
ValidSteps == validSteps[Cardinality(Steps)]

ValidateWorkflow(wf) == ValidList(Definition[wf].steps, Definition[wf].mode, ValidSteps)

-----------------------------------------------------------------------------
(* Keys: the identity of an operation across replays, none outside of them.  *)

Scopes == Names \cup {""}
Places == ({"request"} \X Executions) \cup ({"step"} \X Scopes \X Nat) \cup ({"loop", "branch"} \X Nat)
Paths == Seq(Places)
KeyParts == ({"root"} \X Executions) \cup ({"event"} \X Paths) \cup ({"step"} \X Nat \X Scopes \X STRING)
              \cup ({"loop"} \X Nat) \cup ({"branch"} \X Nat \X {"name"})
Keys == Seq(KeyParts)

ScopedKey(parent, wf, step, position) ==
  IF parent = <<>> THEN <<>> ELSE Append(parent, <<"step", position, wf, step.id>>)
LoopKey(parent, index) == IF parent = <<>> THEN <<>> ELSE Append(parent, <<"loop", index>>)
BranchKey(parent, index) == IF parent = <<>> THEN <<>> ELSE Append(parent, <<"branch", index, "name">>)

(* An event of a run without keys is named after its own random id.          *)
EventKey(p, step) ==
  IF p.key = <<>> THEN << <<"event", p.path>> >> ELSE ScopedKey(p.key, p.wf, step, 0)

-----------------------------------------------------------------------------
(* Evaluation. The context p says where a step runs: path (its place, for    *)
(* the properties only), key, wf, mode, exec, stop, first (the first item of *)
(* a loop), depth, hops, named (it may name an event of the outbox), fault.  *)
(* The state st of a run holds the effects so far, ret and count of the      *)
(* payload, how it stands (end), its operations and whether an error was     *)
(* passed over.                                                              *)

Faults == [at: 0..0, kind: {"none"}] \cup [at: 1..MaxOps, kind: {"error", "stop", "transient"}]
NoFault == [at |-> 0, kind |-> "none"]

Contexts ==
  [path : Paths, key : Keys, wf : Scopes, mode : Modes, exec : {Transactional, OutboxMode}, stop : BOOLEAN,
   first : BOOLEAN, depth : Nat, hops : Nat, named : BOOLEAN, fault : Faults]
Events ==
  [key : Keys, path : Paths, wf : Scopes, step : {s \in Steps : s.active}, stop : BOOLEAN, first : BOOLEAN,
   depth : Nat, hops : Nat, tries : 0..MaxDeliveries, holder : Processors \cup {NoEvent}, met : BOOLEAN,
   status : {"pending", "done", "failed"}]
Effects == [op : {"create", "update", "call", "queue"}, path : Paths, key : Keys, event : Events \cup {NoEvent}]
Runs ==
  [fx : Seq(Effects), ret : BOOLEAN, count : -1..MaxEvents, end : {"ok", "error", "stop"}, ops : Nat, passed : BOOLEAN]

(* A call of runWorkflowStepList, with i steps behind it, or of the loop of  *)
(* workflowForEach, with i items behind it.                                  *)
Calls == [loop : BOOLEAN, steps : Seq(Steps), items : Nat, i : Nat, p : Contexts, st : Runs]

(* What the payload of a callback keeps for the next run of the callback:    *)
(* whether it has returned and its counter of events (-1: no counter).       *)
Left == [ret: BOOLEAN, count: -1..MaxEvents]
Fresh == [ret |-> FALSE, count |-> -1]

Start(left) == [fx |-> <<>>, ret |-> left.ret, count |-> left.count, end |-> "ok", ops |-> 0, passed |-> FALSE]

RunContext(path, key, named, fault) ==
  [path |-> path, key |-> key, wf |-> "", mode |-> "", exec |-> Transactional, stop |-> FALSE,
   first |-> FALSE, depth |-> 0, hops |-> 0, named |-> named, fault |-> fault]

Deeper(p, key, item) == [p EXCEPT !.key = key, !.path = Append(@, item)]

Matches(when, p) == when = "always" \/ (when = "first" /\ p.first)

Error(st) == [st EXCEPT !.end = "error"]

(* One operation on the database or the network, with the effects there are  *)
(* after it.                                                                 *)
Operation(p, st, effects) ==
  LET hit == p.fault.at = st.ops + 1
  IN [st EXCEPT !.ops = @ + 1,
                !.fx = IF hit THEN @ ELSE effects,
                !.end = IF ~hit THEN @ ELSE IF p.fault.kind = "error" THEN "error" ELSE "stop"]

Effect(op, p) == [op |-> op, path |-> p.path, key |-> p.key, event |-> NoEvent]

(* Writes and reads of the records a filter selects; calls, made only where  *)
(* an event of the outbox can be named to the provider.                      *)
CreateRecord(p, st) == Operation(p, st, Append(st.fx, Effect("create", p)))
UpdateRecord(p, st) == Operation(p, st, Append(st.fx, Effect("update", p)))
ReadRecords(p, st) == Operation(p, st, st.fx)
CallAPI(p, st) == IF p.named THEN Operation(p, st, Append(st.fx, Effect("call", p))) ELSE Error(st)

(* Fault: an event does not count the hop that queues it. *)
FaultKeepDepth(step, p) ==
  [key |-> EventKey(p, step), path |-> p.path, wf |-> p.wf, step |-> step, stop |-> p.stop, first |-> p.first,
   depth |-> p.depth, hops |-> p.hops + 1, tries |-> 0, holder |-> NoEvent, met |-> FALSE, status |-> "pending"]
StepEvent(step, p) ==
  [key |-> EventKey(p, step), path |-> p.path, wf |-> p.wf, step |-> step, stop |-> p.stop, first |-> p.first,
   depth |-> p.depth + 1, hops |-> p.hops + 1, tries |-> 0, holder |-> NoEvent, met |-> FALSE, status |-> "pending"]

EnqueueWorkflowStep(step, p, st) ==
  LET event == StepEvent(step, p)
      effect == [op |-> "queue", path |-> p.path, key |-> event.key, event |-> event]
  IN IF step.type = "emit" \/ st.count = MaxEvents THEN Error(st)
     ELSE Operation(p, [st EXCEPT !.count = IF @ = -1 THEN -1 ELSE @ + 1], Append(st.fx, effect))

Branches(step) ==
  LET then == [when |-> step.when, steps |-> step.steps]
  IN CASE step.branches # <<>> -> step.branches
       [] step.branches = <<>> /\ step.elseSteps = <<>> -> <<then>>
       [] OTHER -> <<then, [when |-> "always", steps |-> step.elseSteps]>>

(* Below, run evaluates the calls a step makes.                              *)
List(steps, p, st) == [loop |-> FALSE, steps |-> steps, items |-> 0, i |-> 0, p |-> p, st |-> st]
Loop(step, p, st) == [loop |-> TRUE, steps |-> step.steps, items |-> step.items, i |-> 0, p |-> p, st |-> st]

If(step, p, st, run) ==
  LET taken == {b \in DOMAIN Branches(step) : Matches(Branches(step)[b].when, p)}
      b == CHOOSE x \in taken : \A y \in taken : x <= y
  IN IF taken = {} THEN st
     ELSE run[List(Branches(step)[b].steps, Deeper(p, BranchKey(p.key, b - 1), <<"branch", b - 1>>), st)]

Entered(wf, exec, p) ==
  [p EXCEPT !.wf = wf, !.mode = Definition[wf].mode, !.exec = exec, !.stop = Definition[wf].stopOnError]

Pass(wf, exec, p, st, run) ==
  IF Supports(Definition[wf].mode, exec) THEN run[List(Definition[wf].steps, Entered(wf, exec, p), st)] ELSE st

(* What is queued follows what is done, and does not undo its return.        *)
OutboxPass(wf, p, first, run) ==
  IF first.end # "ok" THEN first
  ELSE [Pass(wf, OutboxMode, p, [first EXCEPT !.ret = FALSE], run) EXCEPT !.ret = first.ret]

Counting(st) == [st EXCEPT !.count = IF @ = -1 THEN 0 ELSE @]

RunDefinition(wf, p, st, run) ==
  IF ~ValidateWorkflow(wf) \/ p.depth > MaxDepth THEN Error(st)
  ELSE IF ~Matches(Definition[wf].when, p) THEN Counting(st)
  ELSE OutboxPass(wf, p, Pass(wf, Transactional, p, Counting(st), run), run)

(* The child has its own return; without a counter it takes one for itself.  *)
ExecuteWorkflow(step, p, st, run) ==
  LET child == RunDefinition(step.target, [p EXCEPT !.depth = @ + 1], st, run)
  IN IF p.depth >= MaxDepth \/ step.target \notin Names THEN Error(st)
     ELSE IF ~Definition[step.target].active THEN Error(st)
     ELSE [child EXCEPT !.ret = st.ret, !.count = IF st.count = -1 THEN -1 ELSE @]

ProcessStep(step, p, st, run) ==
  CASE step.type = "create"              -> CreateRecord(p, st)
    [] step.type \in {"update", "audit"} -> UpdateRecord(p, st)
    [] step.type = "read"                -> ReadRecords(p, st)
    [] step.type = "call"                -> CallAPI(p, st)
    [] step.type = "if"                  -> If(step, p, st, run)
    [] step.type = "for_each"            -> run[Loop(step, p, st)]
    [] step.type = "execute_workflow"    -> ExecuteWorkflow(step, p, st, run)
    [] step.type = "return"              -> [st EXCEPT !.ret = TRUE]
    [] OTHER                             -> Error(st)

Skipped(step, p) ==
  \/ ~step.active
  \/ ModeOf(step, p.mode) # p.exec
  \/ step.type # "if" /\ ~Matches(step.when, p)

RunStep(step, q, st, run) ==
  IF q.exec = OutboxMode THEN EnqueueWorkflowStep(step, q, st) ELSE ProcessStep(step, q, st, run)

PassedOver(st) == [st EXCEPT !.end = "ok", !.passed = @ \/ st.end = "error"]

Onward(x, st) == [x EXCEPT !.i = @ + 1, !.st = st]

AfterStep(x, step, done, run) ==
  IF done.end = "stop" \/ (done.end = "error" /\ x.p.stop /\ ~step.continueOnError) THEN done
  ELSE IF done.ret THEN PassedOver(done)
  ELSE run[Onward(x, PassedOver(done))]

RunStepList(x, run) ==
  LET step == x.steps[x.i + 1]
      at == Deeper(x.p, ScopedKey(x.p.key, x.p.wf, step, x.i), <<"step", x.p.wf, x.i>>)
  IN IF x.i >= Len(x.steps) THEN x.st
     ELSE IF Skipped(step, x.p) THEN run[Onward(x, x.st)]
     ELSE AfterStep(x, step, RunStep(step, at, x.st, run), run)

ForEach(x, run) ==
  LET at == Deeper(x.p, LoopKey(x.p.key, x.i), <<"loop", x.i>>)
  IN IF x.i >= x.items \/ x.st.end # "ok" \/ (x.i > 0 /\ x.st.ret) THEN x.st
     ELSE run[Onward(x, run[List(x.steps, [at EXCEPT !.first = (x.i = 0)], x.st)])]

Turn(x, run) == IF x.loop THEN ForEach(x, run) ELSE RunStepList(x, run)

Run[n \in Nat] == [x \in Calls |-> IF n = 0 THEN Error(x.st) ELSE Turn(x, Run[n - 1])]

Evaluate == Run[MaxTurns]

(* The workflows a write triggers, in the order of the container.            *)
RunListed(wf, trigger, exec, p, st) ==
  LET def == Definition[wf]
  IN IF st.end # "ok" \/ ~def.active \/ def.trigger # trigger \/ ~Supports(def.mode, exec) THEN st
     ELSE IF ~ValidateWorkflow(wf) \/ p.depth > MaxDepth THEN Error(st)
     ELSE IF ~Matches(def.when, p) THEN st
     ELSE [Evaluate[List(def.steps, Entered(wf, exec, p), st)] EXCEPT !.ret = st.ret]

(* The transaction of a create: what comes before, the record, what comes    *)
(* after, and what is queued; each call has a counter of its own.            *)
Triggered == "write"
RunWorkflows(trigger, exec, p, st) ==
  LET after[i \in 0..Len(Listed)] ==
        IF i = 0 THEN [st EXCEPT !.count = 0] ELSE RunListed(Listed[i], trigger, exec, p, after[i - 1])
  IN after[Len(Listed)]
Saved(p, st) == IF st.end # "ok" THEN st ELSE CreateRecord(p, st)
RunWrite(p, st) ==
  RunWorkflows("after_create", OutboxMode, p,
    RunWorkflows("after_create", Transactional, p,
      Saved(p, RunWorkflows("before_create", Transactional, p, st))))

-----------------------------------------------------------------------------
(* Actions.                                                                  *)

Wanted == {Triggered} \cup {wf \in Names : Definition[wf].active /\ Definition[wf].trigger \in {"manual", "cron"}}

Idle == [event |-> NoEvent, left |-> Fresh, runs |-> 0, due |-> FALSE, seen |-> {}]

EngineInit ==
  /\ request = [r \in Executions |-> [phase |-> "new", wf |-> Triggered, left |-> Fresh, runs |-> 0]]
  /\ processor = [w \in Processors |-> Idle]
  /\ queue = <<>>
  /\ marks = {}
  /\ records = {} /\ updates = {} /\ calls = {}
  /\ finished = <<>>

Ask(r, wf) ==
  /\ request[r].phase = "new"
  /\ request' = [request EXCEPT ![r] = [@ EXCEPT !.phase = "running", !.wf = wf]]
  /\ UNCHANGED <<processor, queue, marks, records, updates, calls, finished>>

IsRoot(wf) == wf # Triggered /\ Definition[wf].trigger = "cron"
RunsInTransaction(wf) == wf # Triggered => (IsRoot(wf) \/ RequiresTransaction(wf))

RunRequest(r, fault, left) ==
  LET wf == request[r].wf
      key == IF IsRoot(wf) THEN << <<"root", r>> >> ELSE <<>>
      p == RunContext(<< <<"request", r>> >>, key, IsRoot(wf), fault)
  IN IF wf = Triggered THEN RunWrite(p, Start(left)) ELSE RunDefinition(wf, p, Start(left), Evaluate)

(* A captured step and what is below it run where they are replayed.         *)
RunReplay(e, fault, left) ==
  LET p == [RunContext(e.path, e.key, TRUE, fault) EXCEPT
              !.wf = e.wf, !.mode = Captured, !.stop = e.stop, !.first = e.first, !.depth = e.depth, !.hops = e.hops]
  IN ProcessStep(e.step, p, Start(left), Evaluate)

Strikes(fault, st, txn) ==
  CASE fault.kind = "none"      -> TRUE
    [] fault.kind = "transient" -> txn /\ fault.at <= st.ops + 1
    [] OTHER                    -> fault.at <= st.ops

(* Fault: a record is created again by every delivery. *)
FaultAgain(op, fx, there) ==
  {i \in DOMAIN fx : fx[i].op = op /\ (op = "queue" => fx[i].key \notin there)}
(* The effects on documents that have a key are looked up before: those that *)
(* an earlier run has left, or this one, are not repeated.                   *)
Anew(op, fx, there) ==
  {i \in DOMAIN fx : /\ fx[i].op = op
                     /\ fx[i].key # <<>> => /\ fx[i].key \notin there
                                            /\ \A j \in 1..i-1 : fx[j].op = op => fx[j].key # fx[i].key}

(* What a run by a delivery, or by none, leaves that is committed or needs no *)
(* commit. Nothing forbids two records of one key: those it has missed, as it *)
(* had looked for them before they were written, it writes again. What is    *)
(* queued has a unique key.                                                  *)
Keep(fx, by, missed) ==
  LET created == Anew("create", fx, {x.key : x \in records} \ missed)
      queued == Anew("queue", fx, DOMAIN queue)
  IN /\ records' = records \cup {[path |-> fx[i].path, key |-> fx[i].key, by |-> by,
                                  nth |-> Cardinality({x \in records : x.path = fx[i].path})] : i \in created}
     /\ updates' = updates \cup {fx[i].path : i \in {j \in DOMAIN fx : fx[j].op = "update"}}
     /\ queue' = [k \in DOMAIN queue \cup {fx[i].key : i \in queued} |->
                   IF k \in DOMAIN queue THEN queue[k] ELSE fx[CHOOSE i \in queued : fx[i].key = k].event]

KeepNothing == UNCHANGED <<records, updates, queue>>

(* Calls are made whatever becomes of the transaction around them.           *)
Called(fx, txn) ==
  calls' = calls \cup {[path |-> fx[i].path, txn |-> txn] : i \in {j \in DOMAIN fx : fx[j].op = "call"}}

Finish(job, left, st) ==
  finished' = [j \in DOMAIN finished \cup {job} |->
                 IF j = job THEN [stale |-> left.ret, passed |-> st.passed] ELSE finished[j]]

LeftBy(st) == [ret |-> st.ret, count |-> st.count]

(* The driver runs the callback again: ExecuteWorkflow's with the payload as *)
(* it was left, that of a cron root or of a write with a new one.            *)
Execute(r) ==
  /\ request[r].phase = "running"
  /\ \E fault \in Faults : \E st \in {RunRequest(r, fault, request[r].left)} :
       LET wf == request[r].wf
           left == request[r].left
           txn == RunsInTransaction(wf)
           ok == st.end = "ok" /\ fault.kind # "transient"
           again == fault.kind = "transient" /\ request[r].runs < MaxReruns
       IN /\ Strikes(fault, st, txn)
          /\ Called(st.fx, txn)
          /\ IF ok \/ ~txn THEN Keep(st.fx, NoEvent, {}) ELSE KeepNothing
          /\ IF ok THEN Finish(<<"request", r>>, left, st) ELSE UNCHANGED finished
          /\ marks' = IF ok /\ IsRoot(wf) THEN marks \cup {<< <<"root", r>> >>} ELSE marks
          /\ request' =
               IF again THEN [request EXCEPT ![r].runs = @ + 1,
                                             ![r].left = IF wf = Triggered \/ IsRoot(wf) THEN Fresh ELSE LeftBy(st)]
               ELSE [request EXCEPT ![r].phase = IF ok THEN "ok" ELSE "failed"]
  /\ UNCHANGED processor

Release(w) == processor' = [processor EXCEPT ![w] = Idle]

(* A pending event is claimed, also again after a lapsed lease, and its      *)
(* marker looked for. Without a transaction that look and the lookups of the *)
(* run may be as old as the claim.                                           *)
Claim(w, k) ==
  /\ processor[w].event = NoEvent
  /\ queue[k].status = "pending" /\ queue[k].tries < MaxDeliveries
  /\ processor' = [processor EXCEPT ![w] =
                     [event |-> k, left |-> Fresh, runs |-> 0, due |-> k \notin marks,
                      seen |-> IF ReplayRequiresTransaction(queue[k].step) THEN {} ELSE {x.key : x \in records}]]
  /\ queue' = [queue EXCEPT ![k].tries = @ + 1, ![k].holder = w,
                            ![k].met = @ \/ \E v \in Processors : processor[v].event = k]
  /\ UNCHANGED <<request, marks, records, updates, calls, finished>>

(* The step runs with its completion marker, in one transaction when its     *)
(* effects allow it; a run that fails, or whose marker fails, is given up.   *)
Replay(w) ==
  LET k == processor[w].event
      left == processor[w].left
      txn == ReplayRequiresTransaction(queue[k].step)
  IN /\ k # NoEvent /\ processor[w].due /\ (txn => k \notin marks)
     /\ \E fault \in Faults : \E st \in {RunReplay(queue[k], fault, left)} :
          LET ok == st.end = "ok" /\ fault.kind # "transient"
              again == fault.kind = "transient" /\ processor[w].runs < MaxReruns
          IN /\ Strikes(fault, st, txn)
             /\ Called(st.fx, txn)
             /\ \E marked \in {ok, ok /\ txn}, missed \in SUBSET (IF txn THEN {} ELSE {x.key : x \in records} \ processor[w].seen) :
                  /\ marks' = IF marked THEN marks \cup {k} ELSE marks
                  /\ IF marked THEN Finish(<<"event", k>>, left, st) ELSE UNCHANGED finished
                  /\ IF marked \/ ~txn THEN Keep(st.fx, k, missed) ELSE KeepNothing
                  /\ IF again THEN processor' = [processor EXCEPT ![w].runs = @ + 1, ![w].left = LeftBy(st)]
                     ELSE IF marked THEN processor' = [processor EXCEPT ![w].due = FALSE] ELSE Release(w)
     /\ UNCHANGED request

(* A marker, found before or inside the run, acknowledges the event.         *)
AcknowledgeReplay(w) ==
  LET k == processor[w].event
  IN /\ k # NoEvent /\ k \in marks
     /\ queue' = IF queue[k].holder = w THEN [queue EXCEPT ![k].status = "done"] ELSE queue
     /\ Release(w)
     /\ UNCHANGED <<request, marks, records, updates, calls, finished>>

(* The processor dies, or its lease is lost.                                 *)
AbandonReplay(w) ==
  /\ processor[w].event # NoEvent
  /\ Release(w)
  /\ UNCHANGED <<request, queue, marks, records, updates, calls, finished>>

Exhaust(k) ==
  /\ queue[k].status = "pending" /\ queue[k].tries = MaxDeliveries
  /\ \A w \in Processors : processor[w].event # k
  /\ queue' = [queue EXCEPT ![k].status = "failed"]
  /\ UNCHANGED <<request, processor, marks, records, updates, calls, finished>>

EngineNext ==
  \/ \E r \in Executions : (\E wf \in Wanted : Ask(r, wf)) \/ Execute(r)
  \/ \E w \in Processors : (\E k \in DOMAIN queue : Claim(w, k)) \/ Replay(w) \/ AcknowledgeReplay(w) \/ AbandonReplay(w)
  \/ \E k \in DOMAIN queue : Exhaust(k)

EngineSpec == EngineInit /\ [][EngineNext]_engineVars

-----------------------------------------------------------------------------
(* Properties.                                                               *)

(* No external call is made inside a transaction, which may be rolled back   *)
(* and run again after it (workflowReplayRequiresTransaction).               *)
NoCallInTransaction == \A c \in calls : ~c.txn

(* However often a captured group is delivered, each step it queues has one *)
(* event, and each of its creates one record: without a transaction only as  *)
(* long as no two deliveries of the group are under way at once, which both  *)
(* look for the record before either inserts it (workflowCreateRecord).      *)
EffectsOnce ==
  /\ \A x \in records : x.nth > 0 =>
       x.by # NoEvent /\ queue[x.by].met /\ ~ReplayRequiresTransaction(queue[x.by].step)
  /\ \A k, l \in DOMAIN queue : queue[k].path = queue[l].path => k = l

(* The effects a run of the job from its start, without faults, has.         *)
Needed(job) ==
  Range((IF job[1] = "request" THEN RunRequest(job[2], NoFault, Fresh) ELSE RunReplay(queue[job[2]], NoFault, Fresh)).fx)

Whole(job) ==
  \A e \in Needed(job) :
    /\ e.op = "create" => e.path \in {x.path : x \in records}
    /\ e.op = "update" => e.path \in updates
    /\ e.op = "call"   => e.path \in {c.path : c \in calls}
    /\ e.op = "queue"  => e.path \in {queue[k].path : k \in DOMAIN queue}

(* The same of every run that passed over no error: "database write steps    *)
(* and captured database-only if/for_each groups commit their data ... and   *)
(* completion marker together".                                              *)
CompletedIsWhole == \A job \in DOMAIN finished : ~finished[job].passed => Whole(job)

(* A run reported or marked as done has had all the effects of its tree,     *)
(* unless it passed over an error as its steps allow, or the callback was    *)
(* run again after it had returned (CompletedIsWhole); a request that fails  *)
(* leaves nothing of what it did (RequiresTransaction).                      *)
AllOrNothing ==
  /\ \A job \in DOMAIN finished : ~finished[job].passed /\ ~finished[job].stale => Whole(job)
  /\ \A r \in Executions : request[r].phase = "failed" =>
       LET of(path) == path # <<>> /\ path[1] = <<"request", r>>
       IN /\ \A x \in records : ~of(x.path)
          /\ \A path \in updates : ~of(path)
          /\ \A k \in DOMAIN queue : ~of(queue[k].path)

(* Workflows that queue themselves come to an end: being queued and being    *)
(* run by another workflow both count towards the depth.                     *)
HopsBounded == \A k \in DOMAIN queue : 2 * queue[k].hops <= MaxDepth + 2

=============================================================================
