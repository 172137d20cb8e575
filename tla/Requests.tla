------------------------------ MODULE Requests -------------------------------
(* A writing request on its way through the rate limits and the idempotency  *)
(* of its key, and the circuit breaker that all of them ask before they use  *)
(* Redis (rateLimit.go, idempotency.go, redis_circuit_breaker.go).           *)
(*                                                                           *)
(* One server process: a crash ends its requests and forgets the circuit. A  *)
(* call to Redis may fail. Asking the circuit, the call that follows and the *)
(* report of its result are one step where nothing stands between them.      *)
(* A handler ends within 10 seconds and its answer is stored within 2, so a  *)
(* lock of 30 seconds lapses only after the request that took it has ended;  *)
(* results outlive the requests.                                             *)
EXTENDS Naturals, FiniteSets, Sequences

CONSTANTS
  Senders,       \* the requests
  Calls,         \* what may be asked: [user, header, key, hash]; key Unkeyed: none given
  Unkeyed,
  Route,         \* the limits of the route: a sequence of sequences of policies
  Threshold,     \* failures in a row that open the circuit
  MaxFaults, MaxCrashes

LimitPolicy ==
  [name : STRING, limit : Nat, subject : {"ip", "user", "userOrIp"},
   publicOnly : BOOLEAN, authenticatedOnly : BOOLEAN]

ASSUME RequestAssumption ==
  /\ Threshold \in Nat \ {0} /\ Route \in Seq(Seq(LimitPolicy)) /\ Len(Route) > 0

VARIABLES
  circuit,       \* [failures, phase: "closed", "open" or "due", probe]
  hits,          \* in Redis: <<policy, identity>> :> its requests in the window
  locks,         \* in Redis: key :> [hash, owner]
  results,       \* in Redis: key :> [hash, by]
  request,       \* client :> his request
  subscribed,    \* the relay of events between servers listens (WsHub)
  faults, crashes

requestVars == <<circuit, hits, locks, results, request, subscribed, faults, crashes>>

-----------------------------------------------------------------------------
(* The circuit. Closed it counts failures; once it has been open for a while *)
(* it lets one caller through, and the next report decides.                  *)

Closed == [failures |-> 0, phase |-> "closed", probe |-> FALSE]
Opened == [failures |-> 0, phase |-> "open", probe |-> FALSE]

LetsThrough(c) == c.phase = "closed" \/ (c.phase = "due" /\ ~ c.probe)

AfterAsking(c) == [c EXCEPT !.probe = @ \/ c.phase = "due"]

Failed(c) ==
  IF c.failures + 1 < Threshold /\ c.phase = "closed"
  THEN [c EXCEPT !.failures = @ + 1, !.probe = FALSE] ELSE Opened

\* A call reports success or, while faults are left, failure.
Succeeds == circuit' = Closed /\ UNCHANGED faults
Fails == faults < MaxFaults /\ circuit' = Failed(circuit) /\ faults' = faults + 1
Idles == UNCHANGED <<circuit, faults>>

-----------------------------------------------------------------------------
(* Rate limits.                                                              *)

\* The user is known from the second limit on: the first stands before the
\* authentication.
Known(r) == request[r].stage > 1 /\ request[r].call.user # ""

Applies(r, policy) ==
  /\ policy.limit > 0
  /\ ~ (policy.publicOnly /\ (Known(r) \/ request[r].call.header))
  /\ ~ (policy.authenticatedOnly /\ ~ Known(r))
  /\ ~ (policy.subject = "user" /\ ~ Known(r))

Identity(r, policy) ==
  IF policy.subject # "ip" /\ Known(r) THEN request[r].call.user ELSE "ip"

NoRequest == [pc |-> "idle"]
Goes(r, pc) == request' = [request EXCEPT ![r].pc = pc]

\* Past the last limit the handler begins.
Onward(r) ==
  request' = IF request[r].stage < Len(Route)
             THEN [request EXCEPT ![r].stage = @ + 1, ![r].counted = 0]
             ELSE [request EXCEPT ![r].pc = "begin", ![r].stage = 0, ![r].counted = 0]

\* The policies of this limit that are still to be counted.
Pending(r) ==
  LET policies == Route[request[r].stage]
  IN {j \in DOMAIN policies : j > request[r].counted /\ Applies(r, policies[j])}

\* In Redis: what is stored under a key.
Put(f, k, v) == [x \in DOMAIN f \cup {k} |-> IF x = k THEN v ELSE f[x]]
Cleared(f, k) == [x \in DOMAIN f \ {k} |-> f[x]]

Hits(at) == IF at \in DOMAIN hits THEN hits[at] ELSE 0

RequestsInit ==
  /\ circuit = Closed /\ subscribed = TRUE /\ faults = 0 /\ crashes = 0
  /\ hits = <<>> /\ locks = <<>> /\ results = <<>>
  /\ request = [r \in Senders |-> NoRequest]

Enter(r, call) ==
  /\ request[r].pc = "idle"
  /\ request' = [request EXCEPT ![r] =
       [pc |-> "limit", stage |-> 1, counted |-> 0, call |-> call, key |-> call.key,
        guarded |-> FALSE, stored |-> FALSE, replay |-> {}]]
  /\ UNCHANGED <<circuit, hits, locks, results, subscribed, faults, crashes>>

\* Without Redis the request passes. Where no policy applies the circuit was
\* asked and nothing is reported.
PassLimit(r) ==
  /\ request[r].pc = "limit" /\ Onward(r)
  /\ \/ request[r].counted = 0 /\ ~ LetsThrough(circuit) /\ UNCHANGED circuit
     \/ /\ request[r].counted = 0 /\ LetsThrough(circuit) /\ Pending(r) = {}
        /\ circuit' = AfterAsking(circuit)
     \/ request[r].counted > 0 /\ Pending(r) = {} /\ UNCHANGED circuit
  /\ UNCHANGED <<hits, locks, results, subscribed, faults, crashes>>

\* One more in the window of the policy: too many, or the next policy.
CountHit(r) ==
  /\ request[r].pc = "limit" /\ Pending(r) # {}
  /\ request[r].counted > 0 \/ LetsThrough(circuit)
  /\ \/ Fails /\ Onward(r) /\ UNCHANGED hits
     \/ \E j \in Pending(r) :
          LET policy == Route[request[r].stage][j]
              at == <<policy.name, Identity(r, policy)>>
          IN /\ \A k \in Pending(r) : j <= k
             /\ Succeeds
             /\ IF Hits(at) >= policy.limit THEN Goes(r, "limited") /\ UNCHANGED hits
                ELSE /\ request' = [request EXCEPT ![r].counted = j]
                     /\ hits' = Put(hits, at, Hits(at) + 1)
  /\ UNCHANGED <<locks, results, subscribed, crashes>>

\* The window of a counter is over.
NextWindow(at) ==
  /\ hits' = Cleared(hits, at)
  /\ UNCHANGED <<circuit, locks, results, request, subscribed, faults, crashes>>

-----------------------------------------------------------------------------
(* Idempotency. Who cannot use Redis goes on without it.                     *)

Key(r) == request[r].key
Same(r, stored) == stored.hash = request[r].call.hash

Unprotected(r) == request' = [request EXCEPT ![r].pc = "run", ![r].key = Unkeyed]
Conflicts(r) == Goes(r, "conflict")
Mismatches(r) == Goes(r, "mismatch")

\* The stored answer is given; the lock that was taken is dropped before.
Replays(r, pc) == request' = [request EXCEPT ![r].pc = pc, ![r].replay = {results[Key(r)].by}]

\* Asks for itself, though the caller has asked before: a half-open circuit
\* refuses it, as if there were no result.
LookUp(r, none) ==
  \/ ~ LetsThrough(circuit) /\ Idles /\ none
  \/ LetsThrough(circuit) /\ Fails /\ Unprotected(r)
  \/ /\ LetsThrough(circuit) /\ Succeeds
     /\ IF Key(r) \notin DOMAIN results THEN none
        ELSE IF ~ Same(r, results[Key(r)]) THEN Mismatches(r)
        ELSE Replays(r, IF request[r].pc = "lookup" THEN "answered" ELSE "drop")

Begin(r) ==
  /\ request[r].pc = "begin"
  /\ Goes(r, IF Key(r) = Unkeyed \/ ~ LetsThrough(circuit) THEN "run" ELSE "lookup")
  /\ circuit' = IF Key(r) # Unkeyed /\ LetsThrough(circuit) THEN AfterAsking(circuit) ELSE circuit
  /\ UNCHANGED <<hits, locks, results, subscribed, faults, crashes>>

FirstLookup(r) ==
  /\ request[r].pc = "lookup" /\ LookUp(r, Goes(r, "lock"))
  /\ UNCHANGED <<hits, locks, results, subscribed, crashes>>

\* Not asked of the circuit again.
Lock(r) ==
  /\ request[r].pc = "lock"
  /\ \/ Fails /\ Unprotected(r) /\ UNCHANGED locks
     \/ /\ Succeeds /\ Key(r) \notin DOMAIN locks
        /\ locks' = Put(locks, Key(r), [hash |-> request[r].call.hash, owner |-> r])
        /\ Goes(r, "again")
     \/ Succeeds /\ Key(r) \in DOMAIN locks /\ Goes(r, "validate") /\ UNCHANGED locks
  /\ UNCHANGED <<hits, results, subscribed, crashes>>

Runs(r, guarded) == request' = [request EXCEPT ![r].pc = "run", ![r].guarded = guarded]

(* Fault: with the lock in hand the request runs without a second look. *)
TrustLock(r) ==
  /\ request[r].pc = "again" /\ Idles
  /\ Runs(r, TRUE)
  /\ UNCHANGED <<hits, locks, results, subscribed, crashes>>

\* The owner of the lock before may have stored its result in between.
SecondLookup(r) ==
  /\ request[r].pc = "again"
  /\ LookUp(r, Runs(r, LetsThrough(circuit)))
  /\ UNCHANGED <<hits, locks, results, subscribed, crashes>>

\* The lock, whoever holds it.
Unlock(r) ==
  \/ Succeeds /\ locks' = Cleared(locks, Key(r))
  \/ Fails /\ UNCHANGED locks

DropLock(r) ==
  /\ request[r].pc = "drop" /\ Unlock(r)
  /\ Goes(r, "answered")
  /\ UNCHANGED <<hits, results, subscribed, crashes>>

Validate(r) ==
  /\ request[r].pc = "validate"
  /\ \/ Fails /\ Unprotected(r)
     \/ /\ Succeeds
        /\ IF Key(r) \in DOMAIN locks /\ ~ Same(r, locks[Key(r)]) THEN Mismatches(r)
           ELSE Goes(r, "ask")
  /\ UNCHANGED <<hits, locks, results, subscribed, crashes>>

\* Polls until the result comes, an error or the timeout.
AskToWait(r) ==
  /\ request[r].pc = "ask"
  /\ IF LetsThrough(circuit) THEN circuit' = AfterAsking(circuit) /\ Goes(r, "wait")
     ELSE UNCHANGED circuit /\ Conflicts(r)
  /\ UNCHANGED <<hits, locks, results, subscribed, faults, crashes>>

Wait(r) ==
  /\ request[r].pc = "wait"
  /\ \/ Fails /\ Conflicts(r)
     \/ Succeeds /\ Key(r) \notin DOMAIN results /\ UNCHANGED request
     \/ Idles /\ Conflicts(r)
     \/ /\ Succeeds /\ Key(r) \in DOMAIN results
        /\ IF Same(r, results[Key(r)]) THEN Replays(r, "answered") ELSE Mismatches(r)
  /\ UNCHANGED <<hits, locks, results, subscribed, crashes>>

-----------------------------------------------------------------------------
(* The handler and its answer.                                               *)

\* The work is done; its answer is to be stored under the key, an error too,
\* unless the client has gone.
Run(r) ==
  /\ request[r].pc = "run"
  /\ \/ request' = [request EXCEPT ![r].pc = IF Key(r) = Unkeyed THEN "answered" ELSE "store",
                                   ![r].replay = {r}]
     \/ Goes(r, "gone")
  /\ UNCHANGED <<circuit, hits, locks, results, subscribed, faults, crashes>>

StoreResult(r) ==
  /\ request[r].pc = "store"
  /\ \/ ~ LetsThrough(circuit) /\ Idles /\ Goes(r, "answered") /\ UNCHANGED results
     \/ LetsThrough(circuit) /\ Fails /\ Goes(r, "answered") /\ UNCHANGED results
     \/ /\ LetsThrough(circuit) /\ Succeeds
        /\ results' = Put(results, Key(r), [hash |-> request[r].call.hash, by |-> r])
        /\ request' = [request EXCEPT ![r].pc = "unlock", ![r].stored = TRUE]
  /\ UNCHANGED <<hits, locks, subscribed, crashes>>

ReleaseLock(r) ==
  /\ request[r].pc = "unlock" /\ Unlock(r)
  /\ Goes(r, "answered")
  /\ UNCHANGED <<hits, results, subscribed, crashes>>

Over == {"answered", "limited", "conflict", "mismatch", "gone", "crashed"}
Finished(r) == request[r].pc \in Over

LapseLock(k) ==
  /\ Finished(locks[k].owner)
  /\ locks' = Cleared(locks, k)
  /\ UNCHANGED <<circuit, hits, results, request, subscribed, faults, crashes>>

CoolDown ==
  /\ circuit.phase = "open" /\ circuit' = [circuit EXCEPT !.phase = "due"]
  /\ UNCHANGED <<hits, locks, results, request, subscribed, faults, crashes>>

\* The subscription ends and begins again; it reports without having asked.
Subscription ==
  /\ \/ subscribed /\ Fails
     \/ ~ subscribed /\ Succeeds
  /\ subscribed' = ~ subscribed
  /\ UNCHANGED <<hits, locks, results, request, crashes>>

Crash ==
  /\ crashes < MaxCrashes /\ crashes' = crashes + 1
  /\ request' = [r \in Senders |-> IF request[r].pc = "idle" \/ Finished(r) THEN request[r]
                                   ELSE [request[r] EXCEPT !.pc = "crashed"]]
  /\ circuit' = Closed /\ subscribed' = TRUE
  /\ UNCHANGED <<hits, locks, results, faults>>

RequestsNext ==
  \/ \E r \in Senders :
       \/ \E call \in Calls : Enter(r, call)
       \/ PassLimit(r) \/ CountHit(r)
       \/ Begin(r) \/ FirstLookup(r) \/ Lock(r) \/ SecondLookup(r) \/ DropLock(r)
       \/ Validate(r) \/ AskToWait(r) \/ Wait(r)
       \/ Run(r) \/ StoreResult(r) \/ ReleaseLock(r)
  \/ \E at \in DOMAIN hits : NextWindow(at)
  \/ \E k \in DOMAIN locks : LapseLock(k)
  \/ CoolDown \/ Subscription \/ Crash

RequestsSpec == RequestsInit /\ [][RequestsNext]_requestVars

-----------------------------------------------------------------------------
(* Properties.                                                               *)

\* The requests of a key that ran with their lock after looking for a result
\* once more, and those of them that ended without leaving one.
Guarded(k) ==
  {r \in Senders : request[r].pc # "idle" /\ request[r].call.key = k /\ request[r].guarded}
Lost(k) == {r \in Guarded(k) : Finished(r) /\ ~ request[r].stored}

\* Where Redis answers, a retry of a request that was stored never runs again:
\* at most one guarded request of a key is left that still runs or has left its
\* answer; and whoever is given the answer of another asked for the same.
RunsOnce ==
  /\ \A k \in {c.key : c \in Calls} \ {Unkeyed} : Cardinality(Guarded(k) \ Lost(k)) <= 1
  /\ \A r \in Senders : request[r].pc = "answered" =>
       \A o \in request[r].replay :
         o # r => request[o].call.key = request[r].call.key /\ request[o].call.hash = request[r].call.hash

\* The circuit is due and nobody is between asking and reporting: then the next
\* caller is let through as its probe.
Between == {"lookup", "lock", "again", "validate", "wait"}
ProbeFree ==
  circuit.phase = "due" /\ (\A r \in Senders : request[r].pc \notin Between) => LetsThrough(circuit)
=============================================================================
