---------------------------- MODULE CronSchedule ----------------------------
(***************************************************************************)
(* The durable schedule of one cron workflow: its container in Mongo, the  *)
(* document of workflow_cron_schedules that is its cursor, the root events *)
(* queued in dynamic_outbox, and the scheduler goroutine of every replica, *)
(* which loads the containers now and then and polls from what it loaded.  *)
(*                                                                         *)
(* A Mongo transaction is two steps: Begin reads under the snapshot, and   *)
(* Commit is possible while no document the transaction writes has been    *)
(* written by another since.  stale[r] names the documents that were.      *)
(***************************************************************************)
EXTENDS Naturals, FiniteSets

CONSTANTS Replicas,
          Steady,      \* the replicas whose goroutines keep being scheduled
          Contents,    \* values of the workflows field of the container
          Revisions,   \* definitions of the scheduled workflow
          Revision,    \* the definition a content holds, or NoRevision
          NoRevision,  \* the workflow is removed, inactive or not a cron one
          Fires,       \* the instants at which a definition is to run
          NoContent,   \* a scheduler that has loaded nothing yet
          NoCursor,    \* the cursor before the first discovery
          Horizon,     \* cronCatchupHorizon
          Batch,       \* cronPerWorkflowBatch
          LastTick,    \* bound of the clock
          MaxContainerEdits     \* bound of the management edits

ASSUME ContentsAssumption == /\ Revision \in [Contents -> Revisions \cup {NoRevision}]
                             /\ NoRevision \notin Revisions
                             /\ NoContent \notin Contents \cup Replicas

ASSUME SteadyAssumption == Steady \subseteq Replicas

ASSUME FiresAssumption == Fires \in [Revisions -> SUBSET Nat]

ASSUME CursorAssumption ==
    NoCursor \notin [revision : Revisions, nextAt : Nat, skipped : Nat]

ASSUME ScheduleBoundsAssumption == /\ Horizon \in Nat
                           /\ Batch \in Nat \ {0}
                           /\ LastTick \in Nat
                           /\ MaxContainerEdits \in Nat

VARIABLES clock,     \* the time
          live,      \* the workflows of the container in Mongo
          edits,     \* management edits made
          cursor,    \* the cursor document
          since,     \* the first instant of the cursor's definition (history)
          queue,     \* root events: an instant and the content it pins
          snapshot,  \* the workflows a scheduler has loaded
          progress,        \* where the materialization of a scheduler stands
          polled,    \* the time its poll took as now
          held,      \* nextAt of its copy of the cursor
          queued,    \* events it has queued in this poll
          stale      \* documents written since its transaction's snapshot

storeVars == <<live, cursor, since, queue>>
pollVars == <<snapshot, polled, held, queued>>
scheduleVars == <<clock, storeVars, edits, pollVars, progress, stale>>

Cursors == [revision : Revisions, nextAt : Nat, skipped : Nat]

Defined(c) == c \in Contents /\ Revision[c] \in Revisions

(* "register", "skip" and "queue" precede a transaction, the forms in -ing *)
(* are inside it.                                                          *)
Open == {"registering", "skipping", "queueing"}
SchedulePc == {"idle", "register", "skip", "queue"} \cup Open

ScheduleInit ==
    /\ clock = 0
    /\ live \in Contents
    /\ edits = 0
    /\ cursor = NoCursor
    /\ since = 0
    /\ queue = {}
    /\ snapshot = [r \in Replicas |-> NoContent]
    /\ progress = [r \in Replicas |-> "idle"]
    /\ polled = [r \in Replicas |-> 0]
    /\ held = [r \in Replicas |-> 0]
    /\ queued = [r \in Replicas |-> 0]
    /\ stale = [r \in Replicas |-> {}]

-----------------------------------------------------------------------------
(* Time and the management of the container.                               *)

Tick == /\ clock < LastTick
        /\ clock' = clock + 1
        /\ UNCHANGED <<storeVars, edits, pollVars, progress, stale>>

(* A write of documents docs by r (or by nobody) dooms the open            *)
(* transactions of the others, which write the same documents.             *)
Conflicting(docs, r) ==
    [q \in Replicas |-> IF q = r THEN {}
                        ELSE IF progress[q] \in Open THEN stale[q] \cup docs
                        ELSE stale[q]]

EditWorkflows(c) ==
    /\ edits < MaxContainerEdits /\ c # live
    /\ live' = c
    /\ edits' = edits + 1
    /\ stale' = Conflicting({"container"}, NoContent)
    /\ UNCHANGED <<clock, cursor, since, queue, pollVars, progress>>

-----------------------------------------------------------------------------
(* The scheduler of replica r.                                             *)

Definition(r) == Revision[snapshot[r]]

Later(f, t) == {x \in Fires[f] : x > t}

Earliest(S) == CHOOSE x \in S : \A y \in S : x <= y

(* schedule.Next: zero, which stops the materialization, is no instant.    *)
NextAfter(f, t) == Earliest(Later(f, t))

(* schedule.Next(cutoff - 1ns), for the cutoff of the poll.                *)
Cutoff(r) == polled[r] - Horizon
Retained(r) == Earliest({x \in Fires[Definition(r)] : x >= Cutoff(r)})

(* Fault: the registry is loaded at the start only.                        *)
FaultLoadedOnce(r) ==
    /\ progress[r] = "idle" /\ snapshot[r] = NoContent
    /\ snapshot' = [snapshot EXCEPT ![r] = live]
    /\ UNCHANGED <<clock, storeVars, edits, polled, held, queued, progress, stale>>

Reload(r) ==
    /\ progress[r] = "idle"
    /\ snapshot' = [snapshot EXCEPT ![r] = live]
    /\ UNCHANGED <<clock, storeVars, edits, polled, held, queued, progress, stale>>

(* What follows once the poll that took the time as t holds nextAt = h,    *)
(* with n events queued.                                                   *)
LoopPc(h, n, t) == IF n < Batch /\ h <= t THEN "queue" ELSE "idle"

EnsuredPc(h, t) == IF h + Horizon < t THEN "skip" ELSE LoopPc(h, 0, t)

(* now is taken, and EnsureCronSchedule reads the cursor without a fence.  *)
Poll(r) ==
    /\ progress[r] = "idle" /\ Defined(snapshot[r])
    /\ Later(Definition(r), clock) # {}
    /\ polled' = [polled EXCEPT ![r] = clock]
    /\ queued' = [queued EXCEPT ![r] = 0]
    /\ IF cursor # NoCursor /\ cursor.revision = Definition(r)
         THEN /\ held' = [held EXCEPT ![r] = cursor.nextAt]
              /\ progress' = [progress EXCEPT ![r] = EnsuredPc(cursor.nextAt, clock)]
         ELSE /\ progress' = [progress EXCEPT ![r] = "register"]
              /\ UNCHANGED held
    /\ UNCHANGED <<clock, storeVars, edits, snapshot, stale>>

(* An error, a timeout or a cancellation ends the poll and aborts its      *)
(* transaction; a restart also loses what was loaded.                      *)
StopReplica(r) ==
    /\ progress' = [progress EXCEPT ![r] = "idle"]
    /\ stale' = [stale EXCEPT ![r] = {}]
    /\ \/ progress[r] # "idle" /\ UNCHANGED snapshot
       \/ snapshot' = [snapshot EXCEPT ![r] = NoContent]
    /\ UNCHANGED <<clock, storeVars, edits, polled, held, queued>>

-----------------------------------------------------------------------------
(* Transactions.                                                           *)

(* fenceCronSource under the snapshot: the live workflows are the loaded   *)
(* ones, among which the scheduled workflow is an active cron workflow.    *)
FenceHolds(r) == live = snapshot[r]

(* Fault: the fence reads the container but does not write it.             *)
FaultFenceReadOnly(r) == "cursor" \notin stale[r]

(* The documents the transaction writes, which are the container because   *)
(* of the increment of cronSchedulingFence, and the cursor, are still the  *)
(* ones of its snapshot.                                                   *)
CanCommit(r) == stale[r] = {}

(* Mongo aborts, and WithTransaction runs the callback again.              *)
RedoConflict(r) ==
    /\ progress[r] \in Open /\ stale[r] # {}
    /\ progress' = [progress EXCEPT ![r] = CASE @ = "registering" -> "register"
                                 [] @ = "skipping" -> "skip"
                                 [] @ = "queueing" -> "queue"]
    /\ stale' = [stale EXCEPT ![r] = {}]
    /\ UNCHANGED <<clock, storeVars, edits, pollVars>>

BeginOrGiveUp(r, ok, inside) ==
    /\ progress' = [progress EXCEPT ![r] = IF ok THEN inside ELSE "idle"]
    /\ stale' = [stale EXCEPT ![r] = {}]

(* A replica that registered the definition meanwhile leaves only the      *)
(* increment of the fence to commit.                                       *)
BeginRegister(r) ==
    /\ progress[r] = "register"
    /\ IF FenceHolds(r) /\ cursor # NoCursor /\ cursor.revision = Definition(r)
         THEN /\ held' = [held EXCEPT ![r] = cursor.nextAt]
              /\ progress' = [progress EXCEPT ![r] = EnsuredPc(cursor.nextAt, polled[r])]
              /\ stale' = Conflicting({"container"}, r)
         ELSE /\ BeginOrGiveUp(r, FenceHolds(r), "registering")
              /\ UNCHANGED held
    /\ UNCHANGED <<clock, storeVars, edits, snapshot, polled, queued>>

(* first lies after now, so nothing is queued in the poll that registers.  *)
CommitRegister(r) ==
    /\ progress[r] = "registering" /\ CanCommit(r)
    /\ LET first == NextAfter(Definition(r), polled[r])
       IN /\ cursor' = [revision |-> Definition(r), nextAt |-> first, skipped |-> 0]
          /\ since' = first
          /\ held' = [held EXCEPT ![r] = first]
    /\ progress' = [progress EXCEPT ![r] = "idle"]
    /\ stale' = Conflicting({"container", "cursor"}, r)
    /\ UNCHANGED <<clock, live, queue, edits, snapshot, polled, queued>>

(* The filter of AdvanceCronSchedule: the cursor is as this poll holds it. *)
CursorUnmoved(r) == /\ cursor # NoCursor
                    /\ cursor.revision = Definition(r)
                    /\ cursor.nextAt = held[r]

BeginSkip(r) ==
    /\ progress[r] = "skip"
    /\ {x \in Fires[Definition(r)] : x >= Cutoff(r)} # {}
    /\ BeginOrGiveUp(r, FenceHolds(r) /\ CursorUnmoved(r), "skipping")
    /\ UNCHANGED <<clock, storeVars, edits, pollVars>>

(* Fault: the recovery starts at the first instant after now.              *)
FaultSkipAll(r) ==
    /\ progress[r] = "skipping" /\ CanCommit(r)
    /\ LET first == NextAfter(Definition(r), polled[r])
       IN /\ cursor' = [cursor EXCEPT !.nextAt = first, !.skipped = Cutoff(r)]
          /\ held' = [held EXCEPT ![r] = first]
          /\ progress' = [progress EXCEPT ![r] = "idle"]
    /\ stale' = Conflicting({"container", "cursor"}, r)
    /\ UNCHANGED <<clock, live, since, queue, edits, snapshot, polled, queued>>

(* The cursor moves to the first instant inside the recovery horizon.      *)
CommitSkip(r) ==
    /\ progress[r] = "skipping" /\ CanCommit(r)
    /\ cursor' = [cursor EXCEPT !.nextAt = Retained(r), !.skipped = Cutoff(r)]
    /\ held' = [held EXCEPT ![r] = Retained(r)]
    /\ progress' = [progress EXCEPT ![r] = LoopPc(Retained(r), queued[r], polled[r])]
    /\ stale' = Conflicting({"container", "cursor"}, r)
    /\ UNCHANGED <<clock, live, since, queue, edits, snapshot, polled, queued>>

BeginQueue(r) ==
    /\ progress[r] = "queue"
    /\ Later(Definition(r), held[r]) # {}
    /\ BeginOrGiveUp(r, FenceHolds(r) /\ CursorUnmoved(r), "queueing")
    /\ UNCHANGED <<clock, storeVars, edits, pollVars>>

QueuedInstants == {e[1] : e \in queue}

(* Fault: the idempotency key of an occurrence names its definition too.   *)
FaultKeyOfContent(at, c) == queue \cup {<<at, c>>}

(* InsertOutboxEvent is absorbed by an event with the same instant.        *)
Inserted(at, c) == IF at \in QueuedInstants THEN queue ELSE queue \cup {<<at, c>>}

(* The cursor and the root event of the instant it leaves commit together. *)
CommitQueue(r) ==
    /\ progress[r] = "queueing" /\ CanCommit(r)
    /\ queue' = Inserted(held[r], snapshot[r])
    /\ queued' = [queued EXCEPT ![r] = @ + 1]
    /\ LET next == NextAfter(Definition(r), held[r])
       IN /\ cursor' = [cursor EXCEPT !.nextAt = next]
          /\ held' = [held EXCEPT ![r] = next]
          /\ progress' = [progress EXCEPT ![r] = LoopPc(next, queued[r] + 1, polled[r])]
    /\ stale' = Conflicting({"container", "cursor"}, r)
    /\ UNCHANGED <<clock, live, since, edits, snapshot, polled>>

-----------------------------------------------------------------------------

Begin(r) == BeginRegister(r) \/ BeginSkip(r) \/ BeginQueue(r)

Commit(r) == CommitRegister(r) \/ CommitSkip(r) \/ CommitQueue(r)

Transaction(r) == Begin(r) \/ Commit(r) \/ RedoConflict(r)

ScheduleNext ==
    \/ Tick
    \/ \E c \in Contents : EditWorkflows(c)
    \/ \E r \in Replicas : Reload(r) \/ Poll(r) \/ StopReplica(r) \/ Transaction(r)

ScheduleSpec == ScheduleInit /\ [][ScheduleNext]_scheduleVars

(* The tickers of a scheduler keep firing and its select serves both, and  *)
(* a transaction that is tried again and again is not always interrupted.  *)
(* Nothing is asked of the replicas outside Steady, which may stop for     *)
(* good between any two steps.                                             *)
ScheduleFairness ==
    \A r \in Steady : /\ SF_scheduleVars(Reload(r))
                       /\ SF_scheduleVars(Poll(r))
                       /\ WF_scheduleVars(RedoConflict(r))
                       /\ SF_scheduleVars(Begin(r))
                       /\ SF_scheduleVars(Commit(r))

ScheduleFairSpec == ScheduleSpec /\ ScheduleFairness

-----------------------------------------------------------------------------
(* Properties.                                                             *)

ScheduleTypeOK ==
    /\ clock \in Nat /\ edits \in 0..MaxContainerEdits
    /\ live \in Contents
    /\ cursor \in Cursors \cup {NoCursor}
    /\ since \in Nat
    /\ queue \subseteq Nat \X Contents
    /\ snapshot \in [Replicas -> Contents \cup {NoContent}]
    /\ progress \in [Replicas -> SchedulePc]
    /\ polled \in [Replicas -> Nat]
    /\ held \in [Replicas -> Nat]
    /\ queued \in [Replicas -> 0..Batch]
    /\ stale \in [Replicas -> SUBSET {"container", "cursor"}]

(* No occurrence is lost: every instant between the first one of the       *)
(* cursor's definition and the cursor has a root event, or was given up as *)
(* history; and what is given up is older than the recovery horizon.       *)
NoOccurrenceLost ==
    cursor # NoCursor =>
      /\ \A t \in Fires[cursor.revision] :
           since <= t /\ t < cursor.nextAt =>
             t \in QueuedInstants \/ t < cursor.skipped
      /\ cursor.skipped > 0 => cursor.skipped + Horizon <= clock

(* An instant has one root event however often the definition changes,     *)
(* returns and is registered again.                                        *)
OncePerInstant == \A d, e \in queue : d[1] = e[1] => d = e

(* A stale scheduler queues no obsolete code, restores no old definition    *)
(* and goes back to no earlier instant: at the moment an event is committed *)
(* what it pins is the live content, which holds an active cron workflow    *)
(* due at that instant, and the cursor is written only for the live         *)
(* definition and only forward.                                             *)
NothingStaleIsWritten ==
    [][/\ \A e \in queue' \ queue :
            /\ e[2] = live /\ Defined(live)
            /\ e[1] \in Fires[Revision[live]] /\ e[1] <= clock
       /\ cursor' # cursor =>
            /\ cursor'.revision = Revision[live]
            /\ cursor # NoCursor /\ cursor.revision = cursor'.revision =>
                 cursor'.nextAt > cursor.nextAt]_scheduleVars

CaughtUp == Defined(live) => /\ cursor # NoCursor
                             /\ cursor.revision = Revision[live]
                             /\ cursor.nextAt > clock

(* Once the edits end, every due instant has been queued or skipped, also  *)
(* when schedulers stop, restart and conflict at will.                     *)
EventuallyCaughtUp == <>[]CaughtUp

=============================================================================
