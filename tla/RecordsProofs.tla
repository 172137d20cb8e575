----------------------------- MODULE RecordsProofs -----------------------------
(* Theorems about RecordWrites, RecordArrays and RecordReferences, for any   *)
(* records, users, requests and mutations.                                   *)
EXTENDS RecordWrites, RecordArrays, RecordReferences, FiniteSetTheorems, WellFoundedInduction, TLAPS

-----------------------------------------------------------------------------
(* Updates and deletes. What TypeOK leaves open: what requests read, see and *)
(* write is kept for each of them.                                           *)
WritesShape ==
  /\ before = [q \in Requests |-> before[q]]
  /\ snap = [q \in Requests |-> snap[q]]
  /\ written = [q \in Requests |-> written[q]]

AtWork(q) == pc[q] \in {"locked", "merged", "open", "written"}
HasRead(q) == Op[q] = "update" /\ pc[q] \in {"merged", "open", "written"}

(* A single request is about a record, an update has read it.                *)
Addressed(q) ==
  /\ AtWork(q) /\ ~Bulk(q) => target[q] \in Records
  /\ HasRead(q) => target[q] \in DOMAIN before[q]

(* What an update read is still there, unless the record was deleted, the    *)
(* update lost its lock, or somebody replaced it without the lock.           *)
StillRead(q) ==
  HasRead(q) =>
    LET r == target[q] IN
    docs[r] = before[q][r] \/ docs[r] = Gone \/ ~Holds(q, r) \/ docs[r].by \in unlocked

(* A write of an open transaction: the record is as in the snapshot, the     *)
(* policy allows what it replaces and what it leaves.                        *)
WriteOK(q, r) ==
  /\ r \in Items(q) /\ r \in DOMAIN before[q]
  /\ docs[r] = snap[q][r]
  /\ Selects(q, r, snap[q])
  /\ written[q][r] = Replacement(q, before[q][r])
  /\ Op[q] # "update" => before[q][r] = snap[q][r]
  /\ Kind(q) = "update" => Allows(q, written[q][r])

Reported(q) ==
  pc[q] \in {"written", "done"} /\ Bulk(q) => DOMAIN written[q] \subseteq successful[q]

RequestOK(q) ==
  /\ Addressed(q) /\ StillRead(q) /\ Reported(q)
  /\ InTransaction(q) => \A r \in DOMAIN written[q] : WriteOK(q, r)

(* No two open transactions have written one record.                         *)
OneWriter ==
  \A p, q \in Requests :
    p # q /\ InTransaction(p) /\ InTransaction(q) => DOMAIN written[p] \cap DOMAIN written[q] = {}

WritesIInv == TypeOK /\ WritesShape /\ (\A q \in Requests : RequestOK(q)) /\ OneWriter

-----------------------------------------------------------------------------
(* The locks are given back or run out; nobody but q takes one.              *)
OnlyTakes(S) ==
  /\ lock' \in [Kinds -> [Records -> Requests \cup {NoOne}]]
  /\ \A p \in Requests \ S : \A k \in Kinds : \A r \in Records : lock'[k][r] = p => lock[k][r] = p

(* A step of q leaves the other requests alone.                              *)
Spares(q) ==
  \A p \in Requests \ {q} :
    /\ pc'[p] = pc[p] /\ target'[p] = target[p] /\ before'[p] = before[p]
    /\ snap'[p] = snap[p] /\ written'[p] = written[p] /\ successful'[p] = successful[p]

LEMMA KindIsKind == \A q \in Requests : Kind(q) \in Kinds
BY DEF Kind, Kinds

LEMMA ReleaseTakesNone ==
  ASSUME TypeOK, NEW q \in Requests, ReleaseLock(q)
  PROVE  OnlyTakes({})
<1>1. Kind(q) \in Kinds
  BY KindIsKind
<1>2. CASE UNCHANGED lock
  BY <1>2 DEF TypeOK, OnlyTakes
<1>3. CASE lock' = [lock EXCEPT ![Kind(q)] = [r \in Records |-> IF @[r] = q THEN NoOne ELSE @[r]]]
  <2>1. /\ lock'[Kind(q)] = [r \in Records |-> IF lock[Kind(q)][r] = q THEN NoOne ELSE lock[Kind(q)][r]]
        /\ \A k \in Kinds \ {Kind(q)} : lock'[k] = lock[k]
        /\ lock' \in [Kinds -> [Records -> Requests \cup {NoOne}]]
    BY <1>1, <1>3 DEF TypeOK
  <2> QED
    BY <1>1, <2>1, NamesAssumption DEF TypeOK, OnlyTakes
<1> QED
  BY <1>2, <1>3 DEF ReleaseLock

(* Whatever q does short of a commit, the others are as right as before.     *)
LEMMA OthersStand ==
  ASSUME WritesIInv, NEW q \in Requests, Spares(q), UNCHANGED docs, unlocked \subseteq unlocked',
         OnlyTakes({q}), NEW p \in Requests \ {q}
  PROVE  RequestOK(p)'
<1>1. RequestOK(p) /\ Kind(p) \in Kinds
  BY KindIsKind DEF WritesIInv
<1>2. Addressed(p)' /\ Reported(p)'
  BY <1>1 DEF Spares, RequestOK, Addressed, Reported, AtWork, HasRead, Bulk
<1>3. StillRead(p)'
  <2>1. CASE ~HasRead(p)
    BY <2>1 DEF StillRead, HasRead, Spares
  <2>2. CASE HasRead(p)
    <3> DEFINE r == target[p]
    <3>1. r \in Records /\ target'[p] = r
      BY <1>1, <2>2 DEF Spares, HasRead, RequestOK, Addressed, AtWork, Bulk
    <3>2. lock'[Kind(p)][r] = p => lock[Kind(p)][r] = p
      BY <1>1, <3>1 DEF OnlyTakes
    <3>3. docs[r] = before[p][r] \/ docs[r] = Gone \/ lock[Kind(p)][r] # p \/ docs[r].by \in unlocked
      BY <1>1, <2>2 DEF RequestOK, StillRead, Holds
    <3>4. before'[p] = before[p] /\ docs' = docs /\ unlocked \subseteq unlocked'
      BY DEF Spares
    <3> HIDE DEF r
    <3>5. docs'[r] = before'[p][r] \/ docs'[r] = Gone \/ lock'[Kind(p)][r] # p \/ docs'[r].by \in unlocked'
      BY <3>2, <3>3, <3>4
    <3> QED
      BY <3>1, <3>5 DEF StillRead, Holds, Kind
  <2> QED
    BY <2>1, <2>2
<1>4. ASSUME InTransaction(p)', NEW r \in DOMAIN written'[p]
      PROVE  WriteOK(p, r)'
  <2>1. InTransaction(p) /\ r \in DOMAIN written[p] /\ WriteOK(p, r)
    BY <1>1, <1>4 DEF Spares, RequestOK, InTransaction
  <2> QED
    BY <2>1 DEF Spares, WriteOK, Items, Bulk, Selects, Allows, Replacement, Kind, Merged
<1> QED
  BY <1>2, <1>3, <1>4 DEF RequestOK

(* The conclusion of a step that does not commit, from what it does to q.    *)
LEMMA StepOfOne ==
  ASSUME WritesIInv, NEW q \in Requests, Spares(q), UNCHANGED docs, unlocked \subseteq unlocked',
         OnlyTakes({q}), TypeOK', WritesShape', RequestOK(q)',
         InTransaction(q)' => \A r \in DOMAIN written'[q] : \A p \in Requests \ {q} :
                                InTransaction(p) => r \notin DOMAIN written[p]
  PROVE  WritesIInv'
<1>1. \A p \in Requests : RequestOK(p)'
  BY OthersStand
<1>2. OneWriter'
  <2>1. SUFFICES ASSUME NEW a \in Requests, NEW b \in Requests, a # b, InTransaction(a)', InTransaction(b)',
                        NEW r \in DOMAIN written'[a], r \in DOMAIN written'[b]
                 PROVE  FALSE
    BY DEF OneWriter
  <2>2. \A p \in Requests \ {q} : written'[p] = written[p] /\ (InTransaction(p)' => InTransaction(p))
    BY DEF Spares, InTransaction
  <2>3. CASE a # q /\ b # q
    BY <2>1, <2>2, <2>3 DEF WritesIInv, OneWriter
  <2>4. CASE a = q
    BY <2>1, <2>2, <2>4
  <2>5. CASE b = q
    BY <2>1, <2>2, <2>5
  <2> QED
    BY <2>3, <2>4, <2>5
<1> QED
  BY <1>1, <1>2 DEF WritesIInv

(* A request that ends without a commit.                                     *)
LEMMA GiveUpStep ==
  ASSUME WritesIInv, NEW q \in Requests, GiveUp(q), OnlyTakes({})
  PROVE  WritesIInv'
<1>1. OnlyTakes({q}) /\ UNCHANGED docs /\ unlocked \subseteq unlocked'
  BY DEF OnlyTakes, GiveUp
<1>2. /\ pc'[q] = "refused" /\ DOMAIN written'[q] = {} /\ Spares(q) /\ WritesShape'
      /\ pc' \in [Requests -> Pc]
  <2>1. pc' = [pc EXCEPT ![q] = "refused"] /\ target' = [target EXCEPT ![q] = NoOne]
        /\ before' = [before EXCEPT ![q] = <<>>] /\ snap' = [snap EXCEPT ![q] = <<>>]
        /\ written' = [written EXCEPT ![q] = <<>>] /\ successful' = [successful EXCEPT ![q] = {}]
    BY DEF GiveUp, Goto, Forget
  <2>2. WritesShape /\ pc \in [Requests -> Pc] /\ target \in [Requests -> Records \cup {NoOne}]
        /\ successful \in [Requests -> SUBSET Records] /\ "refused" \in Pc
    BY DEF WritesIInv, TypeOK, Pc
  <2>3. WritesShape'
    BY <2>1, <2>2 DEF WritesShape
  <2>4. Spares(q) /\ pc'[q] = "refused" /\ pc' \in [Requests -> Pc]
    BY <2>1, <2>2 DEF WritesShape, Spares
  <2>5. DOMAIN written'[q] = {}
    BY <2>1, <2>2 DEF WritesShape
  <2> QED
    BY <2>3, <2>4, <2>5
<1>3. TypeOK'
  <2>1. /\ target' \in [Requests -> Records \cup {NoOne}]
        /\ {todo', nameless', successful'} \subseteq [Requests -> SUBSET Records]
        /\ doomed' \in [Requests -> BOOLEAN] /\ retries' \in [Requests -> 0 .. MaxRetries]
    BY RetriesAssumption DEF GiveUp, Forget, WritesIInv, TypeOK
  <2>2. DOMAIN before'[q] = {}
    BY DEF GiveUp, Forget, WritesIInv, WritesShape
  <2>3. /\ docs' \in [Records -> Doc \cup {Gone}] /\ unlocked' \subseteq Requests
        /\ lock' \in [Kinds -> [Records -> Requests \cup {NoOne}]]
    BY <1>1 DEF GiveUp, WritesIInv, TypeOK, OnlyTakes
  <2>4. ASSUME NEW p \in Requests
        PROVE  /\ DOMAIN before'[p] \subseteq Records /\ DOMAIN written'[p] \subseteq Records
               /\ \A r \in DOMAIN before'[p] : before'[p][r] \in Doc
               /\ \A r \in DOMAIN written'[p] : written'[p][r] \in Doc \cup {Gone}
               /\ InTransaction(p)' => snap'[p] \in [Records -> Doc \cup {Gone}]
    BY <1>2, <2>2 DEF WritesIInv, TypeOK, Spares, InTransaction
  <2> QED
    BY <1>2, <2>1, <2>3, <2>4 DEF TypeOK
<1>4. RequestOK(q)' /\ ~InTransaction(q)'
  BY <1>2 DEF RequestOK, Addressed, StillRead, Reported, AtWork, HasRead, InTransaction
<1> QED
  BY <1>1, <1>2, <1>3, <1>4, StepOfOne

LEMMA RefuseStep ==
  ASSUME WritesIInv, NEW q \in Requests, Refuse(q)
  PROVE  WritesIInv'
BY ReleaseTakesNone, GiveUpStep DEF Refuse, WritesIInv

LEMMA StopStep ==
  ASSUME WritesIInv, NEW q \in Requests, Stop(q)
  PROVE  WritesIInv'
<1>1. OnlyTakes({})
  BY DEF Stop, OnlyTakes, WritesIInv, TypeOK
<1> QED
  BY <1>1, GiveUpStep DEF Stop

(* A callback starts on a fresh snapshot, with nothing written.              *)
LEMMA EnterStep ==
  ASSUME WritesIInv, NEW q \in Requests, Enter(q), UNCHANGED <<docs, lock, target, before, nameless, successful, unlocked>>,
         retries' \in [Requests -> 0 .. MaxRetries],
         ~Bulk(q) => target[q] \in Records,
         Op[q] = "update" => HasRead(q)
  PROVE  WritesIInv'
<1>1. OnlyTakes({q}) /\ UNCHANGED docs /\ unlocked \subseteq unlocked'
  BY DEF OnlyTakes, WritesIInv, TypeOK
<1>2. /\ pc'[q] = "open" /\ DOMAIN written'[q] = {} /\ snap'[q] = docs /\ Spares(q) /\ WritesShape'
      /\ pc' \in [Requests -> Pc]
  <2>1. pc' = [pc EXCEPT ![q] = "open"] /\ snap' = [snap EXCEPT ![q] = docs]
        /\ written' = [written EXCEPT ![q] = <<>>] /\ UNCHANGED <<target, before, successful>>
    BY DEF Enter, Goto
  <2>2. WritesShape /\ pc \in [Requests -> Pc] /\ "open" \in Pc
    BY DEF WritesIInv, TypeOK, Pc
  <2>3. WritesShape' /\ Spares(q)
    BY <2>1, <2>2 DEF WritesShape, Spares
  <2>4. pc'[q] = "open" /\ pc' \in [Requests -> Pc]
    BY <2>1, <2>2
  <2>5. DOMAIN written'[q] = {} /\ snap'[q] = docs
    BY <2>1, <2>2 DEF WritesShape
  <2> QED
    BY <2>3, <2>4, <2>5
<1>3. TypeOK'
  <2>1. Items(q) \subseteq Records
    BY DEF Items
  <2>2. todo' \in [Requests -> SUBSET Records] /\ doomed' \in [Requests -> BOOLEAN]
    BY <2>1 DEF Enter, WritesIInv, TypeOK
  <2>3. ASSUME NEW p \in Requests
        PROVE  /\ DOMAIN written'[p] \subseteq Records
               /\ \A r \in DOMAIN written'[p] : written'[p][r] \in Doc \cup {Gone}
               /\ InTransaction(p)' => snap'[p] \in [Records -> Doc \cup {Gone}]
    BY <1>2 DEF WritesIInv, TypeOK, Spares, InTransaction
  <2> QED
    BY <1>2, <2>2, <2>3 DEF WritesIInv, TypeOK
<1>4. RequestOK(q)'
  <2>1. RequestOK(q)
    BY DEF WritesIInv
  <2>2. Addressed(q)' /\ Reported(q)'
    BY <1>2, <2>1 DEF RequestOK, Addressed, Reported, AtWork, HasRead, Bulk
  <2>3. StillRead(q)'
    BY <2>1 DEF RequestOK, StillRead, HasRead, Holds, Kind
  <2> QED
    BY <1>2, <2>2, <2>3 DEF RequestOK
<1> QED
  BY <1>1, <1>2, <1>3, <1>4, StepOfOne

LEMMA BeginStep ==
  ASSUME WritesIInv, NEW q \in Requests, BeginTransaction(q)
  PROVE  WritesIInv'
<1>1. Op[q] \in {"update", "bulkUpdate", "delete", "bulkDelete"}
  BY RequestsAssumption
<1>2. (~Bulk(q) => target[q] \in Records) /\ (Op[q] = "update" => HasRead(q))
  BY <1>1 DEF BeginTransaction, WritesIInv, RequestOK, Addressed, AtWork, HasRead, Bulk, Kind
<1> QED
  BY <1>2, EnterStep DEF BeginTransaction, WritesIInv, TypeOK

LEMMA TransientStep ==
  ASSUME WritesIInv, NEW q \in Requests, InTransaction(q), TransientError(q)
  PROVE  WritesIInv'
<1>1. CASE Refuse(q)
  BY <1>1, RefuseStep
<1>2. CASE Retry(q)
  <2>1. retries[q] + 1 \in 0 .. MaxRetries
    BY <1>2, RetriesAssumption DEF Retry, WritesIInv, TypeOK
  <2>2. retries' \in [Requests -> 0 .. MaxRetries]
    BY <1>2, <2>1 DEF Retry, WritesIInv, TypeOK
  <2>3. (~Bulk(q) => target[q] \in Records) /\ (Op[q] = "update" => HasRead(q))
    BY DEF WritesIInv, RequestOK, Addressed, AtWork, HasRead, InTransaction
  <2> QED
    BY <1>2, <2>2, <2>3, EnterStep DEF Retry
<1> QED
  BY <1>1, <1>2 DEF TransientError

-----------------------------------------------------------------------------
(* The writes of a transaction.                                              *)
LEMMA WithFields ==
  ASSUME NEW f, NEW r, NEW d
  PROVE  /\ DOMAIN With(f, r, d) = DOMAIN f \cup {r}
         /\ With(f, r, d)[r] = d
         /\ \A x \in DOMAIN f \ {r} : With(f, r, d)[x] = f[x]
BY DEF With

(* What an update leaves is the merged document, and allowed like it.        *)
LEMMA ReplacementFields ==
  ASSUME NEW q \in Requests, NEW d \in Doc
  PROVE  /\ Replacement(q, d) \in Doc \cup {Gone}
         /\ Kind(q) = "update" => /\ Replacement(q, d).by = q
                                  /\ Allows(q, Merged(q, d)) => Allows(q, Replacement(q, d))
         /\ Kind(q) # "update" => Replacement(q, d) = Gone
<1>1. Merged(q, d) \in Doc
  BY RequestsAssumption DEF Merged, Doc
<1>2. [Merged(q, d) EXCEPT !.by = q] \in Doc /\ [Merged(q, d) EXCEPT !.by = q].by = q
      /\ [Merged(q, d) EXCEPT !.by = q].owner = Merged(q, d).owner
  BY <1>1 DEF Doc
<1> QED
  BY <1>2 DEF Replacement, Allows

LEMMA WriteStep ==
  ASSUME WritesIInv, NEW q \in Requests, NEW r \in Records, NEW d \in Doc,
         pc[q] = "open", r \in Items(q), Selects(q, r, snap[q]), ~Conflicts(q, r), Write(q, r, d),
         /\ before' = [p \in Requests |-> before'[p]]
         /\ \A p \in Requests \ {q} : before'[p] = before[p]
         /\ DOMAIN before'[q] = DOMAIN before[q] \cup {r} /\ before'[q][r] = d
         /\ \A x \in DOMAIN before[q] \ {r} : before'[q][x] = before[q][x],
         IF Op[q] = "update" THEN UNCHANGED before ELSE d = snap[q][r],
         Kind(q) = "update" => Allows(q, Merged(q, d)),
         pc' = pc \/ (Goto(q, "written") /\ ~Bulk(q)),
         UNCHANGED <<docs, lock, target, snap, doomed, successful, retries, unlocked>>,
         {todo', nameless'} \subseteq [Requests -> SUBSET Records]
  PROVE  WritesIInv'
<1>1. OnlyTakes({q}) /\ UNCHANGED docs /\ unlocked \subseteq unlocked'
  BY DEF OnlyTakes, WritesIInv, TypeOK
<1>2. /\ DOMAIN written'[q] = DOMAIN written[q] \cup {r} /\ written'[q][r] = Replacement(q, d)
      /\ \A x \in DOMAIN written[q] \ {r} : written'[q][x] = written[q][x]
      /\ \A p \in Requests \ {q} : written'[p] = written[p]
      /\ written' = [p \in Requests |-> written'[p]]
  <2>1. written = [p \in Requests |-> written[p]]
    BY DEF WritesIInv, WritesShape
  <2>2. written' = [p \in Requests |-> IF p = q THEN With(written[q], r, Replacement(q, d)) ELSE written[p]]
    BY <2>1 DEF Write
  <2>3. written'[q] = With(written[q], r, Replacement(q, d))
    BY <2>2
  <2>4. \A p \in Requests \ {q} : written'[p] = written[p]
    BY <2>2
  <2>5. written' = [p \in Requests |-> written'[p]]
    BY <2>2
  <2>6. /\ DOMAIN written'[q] = DOMAIN written[q] \cup {r} /\ written'[q][r] = Replacement(q, d)
        /\ \A x \in DOMAIN written[q] \ {r} : written'[q][x] = written[q][x]
    BY <2>3 DEF With
  <2> QED
    BY <2>4, <2>5, <2>6
<1>3. /\ pc' \in [Requests -> Pc] /\ pc'[q] \in {"open", "written"} /\ (pc'[q] = "written" => ~Bulk(q))
      /\ \A p \in Requests \ {q} : pc'[p] = pc[p]
  BY DEF WritesIInv, TypeOK, Goto, Pc
<1>4. Spares(q) /\ WritesShape'
  BY <1>2, <1>3 DEF Spares, WritesShape, WritesIInv
<1>5. Replacement(q, d) \in Doc \cup {Gone}
      /\ (Kind(q) = "update" => Allows(q, Replacement(q, d)))
  <2>1. Replacement(q, d) \in Doc \cup {Gone}
    BY ReplacementFields
  <2>2. Kind(q) = "update" => Allows(q, Replacement(q, d))
    BY ReplacementFields DEF Allows
  <2> QED
    BY <2>1, <2>2
<1>6. TypeOK'
  <2>1. ASSUME NEW p \in Requests
        PROVE  /\ DOMAIN before'[p] \subseteq Records /\ DOMAIN written'[p] \subseteq Records
               /\ \A x \in DOMAIN before'[p] : before'[p][x] \in Doc
               /\ \A x \in DOMAIN written'[p] : written'[p][x] \in Doc \cup {Gone}
               /\ InTransaction(p)' => snap'[p] \in [Records -> Doc \cup {Gone}]
    <3>1. /\ DOMAIN before[p] \subseteq Records /\ DOMAIN written[p] \subseteq Records
          /\ \A x \in DOMAIN before[p] : before[p][x] \in Doc
          /\ \A x \in DOMAIN written[p] : written[p][x] \in Doc \cup {Gone}
          /\ InTransaction(p) => snap[p] \in [Records -> Doc \cup {Gone}]
      BY DEF WritesIInv, TypeOK
    <3>2. CASE p # q
      BY <1>2, <1>3, <3>1, <3>2 DEF InTransaction
    <3>3. CASE p = q
      BY <1>2, <1>3, <1>5, <3>1, <3>3 DEF InTransaction
    <3> QED
      BY <3>2, <3>3
  <2> QED
    BY <1>3, <2>1 DEF WritesIInv, TypeOK
<1>7. RequestOK(q)'
  <2>0. RequestOK(q) /\ InTransaction(q)
    BY DEF WritesIInv, InTransaction
  <2>1. Addressed(q)'
    BY <1>3, <2>0 DEF RequestOK, Addressed, AtWork, HasRead, Bulk
  <2>2. Reported(q)'
    BY <1>3 DEF Reported, Bulk
  <2>3. StillRead(q)'
    BY <1>3, <2>0 DEF RequestOK, StillRead, HasRead, Holds, Kind
  <2>4. ASSUME NEW x \in DOMAIN written'[q]
        PROVE  WriteOK(q, x)'
    <3>1. CASE x = r
      <4>1. docs[r] = snap[q][r]
        BY DEF Conflicts
      <4>2. Selects(q, r, snap[q])'
        BY DEF Selects, Allows
      <4>3. (r \in Items(q))' /\ Kind(q)' = Kind(q)
        BY DEF Items, Bulk, Kind
      <4> QED
        BY <1>2, <1>5, <3>1, <4>1, <4>2, <4>3 DEF WriteOK, Replacement, Merged, Allows, Kind
    <3>2. CASE x # r
      <4>1. x \in DOMAIN written[q] /\ WriteOK(q, x)
        BY <1>2, <2>0, <3>2 DEF RequestOK
      <4>2. written'[q][x] = written[q][x] /\ before'[q][x] = before[q][x] /\ x \in DOMAIN before'[q]
        BY <1>2, <3>2, <4>1 DEF WriteOK
      <4> QED
        BY <4>1, <4>2 DEF WriteOK, Items, Bulk, Selects, Replacement, Merged, Allows, Kind
    <3> QED
      BY <3>1, <3>2
  <2> QED
    BY <2>1, <2>2, <2>3, <2>4 DEF RequestOK
<1>8. \A x \in DOMAIN written'[q] : \A p \in Requests \ {q} : InTransaction(p) => x \notin DOMAIN written[p]
  BY <1>2 DEF Conflicts, WritesIInv, OneWriter, InTransaction
<1> QED
  BY <1>1, <1>4, <1>6, <1>7, <1>8, StepOfOne

(* What was read of a record is noted before it is written.                  *)
LEMMA NotedFields ==
  ASSUME WritesIInv, NEW q \in Requests, NEW r, NEW d, before' = [before EXCEPT ![q] = With(@, r, d)]
  PROVE  /\ before' = [p \in Requests |-> before'[p]]
         /\ \A p \in Requests \ {q} : before'[p] = before[p]
         /\ DOMAIN before'[q] = DOMAIN before[q] \cup {r} /\ before'[q][r] = d
         /\ \A x \in DOMAIN before[q] \ {r} : before'[q][x] = before[q][x]
<1>1. before' = [p \in Requests |-> IF p = q THEN With(before[q], r, d) ELSE before[p]]
  BY DEF WritesIInv, WritesShape
<1>2. before'[q] = With(before[q], r, d)
  BY <1>1
<1>3. before' = [p \in Requests |-> before'[p]] /\ \A p \in Requests \ {q} : before'[p] = before[p]
  BY <1>1
<1>4. /\ DOMAIN before'[q] = DOMAIN before[q] \cup {r} /\ before'[q][r] = d
      /\ \A x \in DOMAIN before[q] \ {r} : before'[q][x] = before[q][x]
  BY <1>2 DEF With
<1> QED
  BY <1>3, <1>4

LEMMA SelectedIsDoc ==
  ASSUME NEW q \in Requests, NEW r \in Records, NEW image \in [Records -> Doc \cup {Gone}], Selects(q, r, image)
  PROVE  image[r] \in Doc
BY DEF Selects

LEMMA UpdateStep ==
  ASSUME WritesIInv, NEW q \in Requests, UpdateByFilter(q)
  PROVE  WritesIInv'
<1> DEFINE r == target[q]
           d == before[q][r]
<1>1. pc[q] = "open" /\ Op[q] = "update" /\ HasRead(q) /\ InTransaction(q) /\ ~Bulk(q) /\ Kind(q) = "update"
  BY DEF UpdateByFilter, HasRead, InTransaction, Bulk, Kind
<1>2. r \in Records /\ r \in DOMAIN before[q] /\ d \in Doc /\ r \in Items(q)
  BY <1>1 DEF WritesIInv, RequestOK, Addressed, AtWork, TypeOK, Items
<1>3. CASE Refuse(q)
  BY <1>3, RefuseStep
<1>4. CASE TransientError(q)
  BY <1>1, <1>4, TransientStep
<1>5. CASE /\ Allows(q, Merged(q, d)) /\ Selects(q, r, snap[q]) /\ ~Conflicts(q, r)
           /\ Write(q, r, d) /\ Goto(q, "written")
           /\ UNCHANGED <<docs, lock, target, before, snap, todo, nameless, doomed, successful, retries, unlocked>>
  <2>1. /\ before' = [p \in Requests |-> before'[p]]
        /\ \A p \in Requests \ {q} : before'[p] = before[p]
        /\ DOMAIN before'[q] = DOMAIN before[q] \cup {r} /\ before'[q][r] = d
        /\ \A x \in DOMAIN before[q] \ {r} : before'[q][x] = before[q][x]
    BY <1>2, <1>5 DEF WritesIInv, WritesShape
  <2>2. {todo', nameless'} \subseteq [Requests -> SUBSET Records]
    BY <1>5 DEF WritesIInv, TypeOK
  <2> HIDE DEF r, d
  <2> QED
    BY <1>1, <1>2, <1>5, <2>1, <2>2, WriteStep
<1> QED
  BY <1>1, <1>3, <1>4, <1>5 DEF UpdateByFilter

LEMMA DeleteStep ==
  ASSUME WritesIInv, NEW q \in Requests, DeleteByFilter(q)
  PROVE  WritesIInv'
<1> DEFINE r == target[q]
           d == snap[q][r]
<1>1. pc[q] = "open" /\ Op[q] = "delete" /\ InTransaction(q) /\ ~Bulk(q) /\ Kind(q) = "delete"
  BY DEF DeleteByFilter, InTransaction, Bulk, Kind
<1>2. r \in Records /\ r \in Items(q) /\ snap[q] \in [Records -> Doc \cup {Gone}]
  BY <1>1 DEF WritesIInv, RequestOK, Addressed, AtWork, TypeOK, Items
<1>3. CASE Refuse(q)
  BY <1>3, RefuseStep
<1>4. CASE TransientError(q)
  BY <1>1, <1>4, TransientStep
<1>5. CASE /\ Selects(q, r, snap[q]) /\ ~Conflicts(q, r)
           /\ before' = [before EXCEPT ![q] = With(@, r, d)]
           /\ Write(q, r, d) /\ Goto(q, "written")
           /\ UNCHANGED <<docs, lock, target, snap, todo, nameless, doomed, successful, retries, unlocked>>
  <2>1. d \in Doc
    BY <1>2, <1>5, SelectedIsDoc
  <2>2. {todo', nameless'} \subseteq [Requests -> SUBSET Records]
    BY <1>5 DEF WritesIInv, TypeOK
  <2>3. /\ before' = [p \in Requests |-> before'[p]]
        /\ \A p \in Requests \ {q} : before'[p] = before[p]
        /\ DOMAIN before'[q] = DOMAIN before[q] \cup {r} /\ before'[q][r] = d
        /\ \A x \in DOMAIN before[q] \ {r} : before'[q][x] = before[q][x]
    BY <1>5, NotedFields
  <2>4. d = snap[q][r]
    OBVIOUS
  <2> HIDE DEF r, d
  <2> QED
    BY <1>1, <1>2, <1>5, <2>1, <2>2, <2>3, <2>4, WriteStep
<1> QED
  BY <1>1, <1>3, <1>4, <1>5 DEF DeleteByFilter

(* A step of a callback that writes nothing.                                 *)
LEMMA SkipStep ==
  ASSUME WritesIInv, NEW q \in Requests, pc[q] = "open",
         UNCHANGED <<docs, lock, target, before, snap, written, retries, unlocked>>,
         {todo', nameless', successful'} \subseteq [Requests -> SUBSET Records],
         doomed' \in [Requests -> BOOLEAN],
         \A p \in Requests \ {q} : successful'[p] = successful[p],
         pc' = pc \/ (Goto(q, "written") /\ (Bulk(q) => DOMAIN written[q] \subseteq successful'[q]))
  PROVE  WritesIInv'
<1>1. OnlyTakes({q}) /\ UNCHANGED docs /\ unlocked \subseteq unlocked'
  BY DEF OnlyTakes, WritesIInv, TypeOK
<1>2. /\ pc' \in [Requests -> Pc] /\ pc'[q] \in {"open", "written"}
      /\ pc'[q] = "written" /\ Bulk(q) => DOMAIN written[q] \subseteq successful'[q]
      /\ \A p \in Requests \ {q} : pc'[p] = pc[p]
  BY DEF WritesIInv, TypeOK, Goto, Pc
<1>3. Spares(q) /\ WritesShape'
  BY <1>2 DEF Spares, WritesShape, WritesIInv
<1>4. TypeOK'
  BY <1>2 DEF WritesIInv, TypeOK, InTransaction
<1>5. RequestOK(q) /\ InTransaction(q)
  BY DEF WritesIInv, InTransaction
<1>6. Addressed(q)' /\ Reported(q)'
  BY <1>2, <1>5 DEF RequestOK, Addressed, AtWork, HasRead, Bulk, Reported
<1>7. StillRead(q)'
  BY <1>2, <1>5 DEF RequestOK, StillRead, HasRead, Holds, Kind
<1>8. \A x \in DOMAIN written'[q] : WriteOK(q, x)'
  BY <1>5 DEF RequestOK, WriteOK, Items, Bulk, Selects, Replacement, Merged, Allows, Kind
<1>9. \A x \in DOMAIN written'[q] : \A p \in Requests \ {q} : InTransaction(p) => x \notin DOMAIN written[p]
  BY <1>5 DEF WritesIInv, OneWriter
<1> QED
  BY <1>1, <1>3, <1>4, <1>6, <1>7, <1>8, <1>9, StepOfOne DEF RequestOK

LEMMA BulkStep ==
  ASSUME WritesIInv, NEW q \in Requests, NEW r \in Records, BulkItem(q, r)
  PROVE  WritesIInv'
<1>1. pc[q] = "open" /\ Bulk(q) /\ InTransaction(q) /\ snap[q] \in [Records -> Doc \cup {Gone}]
  BY DEF BulkItem, InTransaction, WritesIInv, TypeOK
<1>2. r \in Items(q) /\ Op[q] # "update" /\ (Kind(q) = "update" => Op[q] = "bulkUpdate")
  BY <1>1 DEF Items, Bulk, Kind
<1>3. /\ {todo', nameless', successful'} \subseteq [Requests -> SUBSET Records]
      /\ doomed' \in [Requests -> BOOLEAN]
  <2>1. todo' = [todo EXCEPT ![q] = @ \ {r}] /\ UNCHANGED successful
        /\ (nameless' = nameless \/ nameless' = [nameless EXCEPT ![q] = @ \cup {r}])
        /\ (doomed' = doomed \/ doomed' = [doomed EXCEPT ![q] = TRUE])
    BY DEF BulkItem, StripId
  <2>2. {todo, nameless, successful} \subseteq [Requests -> SUBSET Records] /\ doomed \in [Requests -> BOOLEAN]
    BY DEF WritesIInv, TypeOK
  <2>3. doomed' \in [Requests -> BOOLEAN]
    BY <2>1, <2>2
  <2>4. todo' \in [Requests -> SUBSET Records] /\ successful' \in [Requests -> SUBSET Records]
    BY <2>1, <2>2
  <2>5. nameless' \in [Requests -> SUBSET Records]
    BY <2>1, <2>2
  <2> QED
    BY <2>3, <2>4, <2>5
<1>4. UNCHANGED <<docs, lock, pc, target, snap, successful, retries, unlocked>>
  BY DEF BulkItem
<1>5. CASE UNCHANGED <<before, written>>
  <2>1. UNCHANGED <<docs, lock, target, before, snap, written, retries, unlocked>> /\ pc' = pc
        /\ \A p \in Requests \ {q} : successful'[p] = successful[p]
    BY <1>4, <1>5
  <2> QED
    BY <1>1, <1>3, <2>1, SkipStep
<1>6. CASE /\ Permitted(q, r) /\ ~Conflicts(q, r) /\ UNCHANGED doomed
           /\ before' = [before EXCEPT ![q] = With(@, r, snap[q][r])]
           /\ Write(q, r, snap[q][r])
  <2> DEFINE d == snap[q][r]
  <2>1. d \in Doc /\ Selects(q, r, snap[q]) /\ (Kind(q) = "update" => Allows(q, Merged(q, d)))
    BY <1>1, <1>2, <1>6, SelectedIsDoc DEF Permitted
  <2>2. /\ before' = [p \in Requests |-> before'[p]]
        /\ \A p \in Requests \ {q} : before'[p] = before[p]
        /\ DOMAIN before'[q] = DOMAIN before[q] \cup {r} /\ before'[q][r] = d
        /\ \A x \in DOMAIN before[q] \ {r} : before'[q][x] = before[q][x]
    BY <1>6, NotedFields
  <2>3. d = snap[q][r]
    OBVIOUS
  <2> HIDE DEF d
  <2> QED
    <3>1. pc[q] = "open" /\ pc' = pc /\ Write(q, r, d) /\ ~Conflicts(q, r)
          /\ UNCHANGED <<docs, lock, target, snap, doomed, successful, retries, unlocked>>
      BY <1>1, <1>4, <1>6, <2>3
    <3>2. {todo', nameless'} \subseteq [Requests -> SUBSET Records]
      BY <1>3
    <3>3. pc' = pc \/ (Goto(q, "written") /\ ~Bulk(q))
      BY <3>1
    <3>4. IF Op[q] = "update" THEN UNCHANGED before ELSE d = snap[q][r]
      BY <1>2, <2>3
    <3> QED
      BY <1>2, <2>1, <2>2, <3>1, <3>2, <3>3, <3>4, WriteStep
<1> QED
  BY <1>5, <1>6 DEF BulkItem

LEMMA FinishStep ==
  ASSUME WritesIInv, NEW q \in Requests, FinishBulk(q)
  PROVE  WritesIInv'
<1>1. pc[q] = "open" /\ Bulk(q) /\ InTransaction(q) /\ DOMAIN written[q] \subseteq Records
  BY DEF FinishBulk, InTransaction, WritesIInv, TypeOK
<1>2. CASE doomed[q]
  BY <1>1, <1>2, TransientStep DEF FinishBulk
<1>3. CASE ~doomed[q]
  <2>1. /\ successful' \in [Requests -> SUBSET Records]
        /\ \A p \in Requests \ {q} : successful'[p] = successful[p]
        /\ DOMAIN written[q] \subseteq successful'[q]
    BY <1>1, <1>3 DEF FinishBulk, WritesIInv, TypeOK
  <2>2. /\ {todo', nameless'} \subseteq [Requests -> SUBSET Records] /\ doomed' \in [Requests -> BOOLEAN]
        /\ Goto(q, "written")
        /\ UNCHANGED <<docs, lock, target, before, snap, written, retries, unlocked>>
    BY <1>3 DEF FinishBulk, WritesIInv, TypeOK
  <2> QED
    BY <1>1, <2>1, <2>2, SkipStep
<1> QED
  BY <1>2, <1>3

(* The lock of a single request, and the read of an update under it.         *)
LEMMA AcquireStep ==
  ASSUME WritesIInv, NEW q \in Requests, NEW r \in Records, AcquireLock(q, r)
  PROVE  WritesIInv'
<1>1. /\ pc[q] = "idle" /\ target' = [target EXCEPT ![q] = r]
      /\ UNCHANGED <<docs, before, snap, written, todo, nameless, doomed, successful, retries, unlocked>>
  BY DEF AcquireLock
<1>2. /\ pc' \in [Requests -> Pc] /\ pc'[q] \in {"locked", "refused"}
      /\ \A p \in Requests \ {q} : pc'[p] = pc[p]
  BY DEF AcquireLock, WritesIInv, TypeOK, Goto, Pc
<1>3. /\ target' \in [Requests -> Records \cup {NoOne}] /\ target'[q] = r
      /\ \A p \in Requests \ {q} : target'[p] = target[p]
  BY <1>1 DEF WritesIInv, TypeOK
<1>4. OnlyTakes({q})
  <2>1. lock' = lock \/ lock' = [lock EXCEPT ![Kind(q)][r] = q]
    BY DEF AcquireLock
  <2>2. Kind(q) \in Kinds /\ lock \in [Kinds -> [Records -> Requests \cup {NoOne}]]
    BY KindIsKind DEF WritesIInv, TypeOK
  <2>3. lock' \in [Kinds -> [Records -> Requests \cup {NoOne}]]
    BY <2>1, <2>2
  <2>4. \A k \in Kinds : \A x \in Records : lock'[k][x] = lock[k][x] \/ lock'[k][x] = q
    BY <2>1, <2>2
  <2> QED
    BY <2>3, <2>4 DEF OnlyTakes
<1>5. Spares(q) /\ WritesShape'
  BY <1>1, <1>2, <1>3 DEF Spares, WritesShape, WritesIInv
<1>6. TypeOK'
  BY <1>1, <1>2, <1>3, <1>4 DEF WritesIInv, TypeOK, InTransaction, OnlyTakes
<1>7. RequestOK(q)' /\ ~InTransaction(q)'
  BY <1>2, <1>3 DEF RequestOK, Addressed, StillRead, Reported, AtWork, HasRead, InTransaction
<1> QED
  BY <1>1, <1>4, <1>5, <1>6, <1>7, StepOfOne

LEMMA FindStep ==
  ASSUME WritesIInv, NEW q \in Requests, FindForUpdate(q)
  PROVE  WritesIInv'
<1> DEFINE r == target[q]
           d == docs[r]
<1>1. pc[q] = "locked" /\ Op[q] = "update" /\ ~Bulk(q) /\ r \in Records
  BY DEF FindForUpdate, WritesIInv, RequestOK, Addressed, AtWork, Bulk
<1>2. CASE Refuse(q)
  BY <1>2, RefuseStep
<1>3. CASE /\ Selects(q, r, docs) /\ before' = [before EXCEPT ![q] = With(@, r, d)] /\ Goto(q, "merged")
           /\ UNCHANGED <<docs, lock, target, snap, written, todo, nameless, doomed, successful, retries, unlocked>>
  <2>1. /\ before' = [p \in Requests |-> before'[p]]
        /\ \A p \in Requests \ {q} : before'[p] = before[p]
        /\ DOMAIN before'[q] = DOMAIN before[q] \cup {r} /\ before'[q][r] = d
        /\ \A x \in DOMAIN before[q] \ {r} : before'[q][x] = before[q][x]
    BY <1>3, NotedFields
  <2>2. d \in Doc
    BY <1>1, <1>3 DEF WritesIInv, TypeOK, Selects
  <2>3. /\ pc' \in [Requests -> Pc] /\ pc'[q] = "merged"
        /\ \A p \in Requests \ {q} : pc'[p] = pc[p]
    BY <1>3 DEF WritesIInv, TypeOK, Goto, Pc
  <2>4. OnlyTakes({q})
    BY <1>3 DEF OnlyTakes, WritesIInv, TypeOK
  <2>5. Spares(q) /\ WritesShape'
    BY <1>3, <2>1, <2>3 DEF Spares, WritesShape, WritesIInv
  <2>6. TypeOK'
    <3>1. ASSUME NEW p \in Requests
          PROVE  /\ DOMAIN before'[p] \subseteq Records
                 /\ \A x \in DOMAIN before'[p] : before'[p][x] \in Doc
                 /\ InTransaction(p)' => InTransaction(p)
      BY <1>1, <2>1, <2>2, <2>3 DEF WritesIInv, TypeOK, InTransaction
    <3> QED
      BY <1>3, <2>3, <3>1 DEF WritesIInv, TypeOK
  <2>7. Addressed(q)' /\ Reported(q)'
    BY <1>1, <1>3, <2>1, <2>3 DEF Addressed, Reported, Bulk
  <2>8. StillRead(q)'
    BY <1>3, <2>1 DEF StillRead
  <2>9. ~InTransaction(q)'
    BY <2>3 DEF InTransaction
  <2> QED
    BY <1>3, <2>4, <2>5, <2>6, <2>7, <2>8, <2>9, StepOfOne DEF RequestOK
<1> QED
  BY <1>2, <1>3 DEF FindForUpdate

-----------------------------------------------------------------------------
(* A commit: its writes replace exactly what its snapshot showed, which      *)
(* nobody else has written; an update that read a record it replaces finds   *)
(* there either the tombstone, or a writer that held the lock it had lost,   *)
(* or one that is known to have had none.                                    *)
LEMMA CommitStep ==
  ASSUME WritesIInv, NEW q \in Requests, Commit(q)
  PROVE  WritesIInv'
<1>1. /\ InTransaction(q) /\ pc[q] = "written" /\ RequestOK(q) /\ OnlyTakes({})
      /\ \A r \in DOMAIN written[q] : r \in Records /\ WriteOK(q, r) /\ before[q][r] \in Doc
  <2>1. pc[q] = "written" /\ OnlyTakes({})
    BY ReleaseTakesNone DEF Commit, WritesIInv
  <2>2. InTransaction(q) /\ RequestOK(q)
    BY <2>1 DEF InTransaction, WritesIInv
  <2>3. ASSUME NEW r \in DOMAIN written[q]
        PROVE  r \in Records /\ WriteOK(q, r) /\ before[q][r] \in Doc
    BY <2>2 DEF RequestOK, WriteOK, WritesIInv, TypeOK
  <2> QED
    BY <2>1, <2>2, <2>3
<1>2. \A r \in Records : docs'[r] = IF r \in DOMAIN written[q] THEN written[q][r] ELSE docs[r]
  BY DEF Commit
<1>3. unlocked \subseteq unlocked' /\ unlocked' \subseteq Requests
      /\ (q \in unlocked' \/ \A r \in DOMAIN written[q] : Holds(q, r))
  BY DEF Commit, WritesIInv, TypeOK
<1>4. /\ Spares(q) /\ WritesShape' /\ pc' \in [Requests -> Pc] /\ pc'[q] = "done"
      /\ UNCHANGED <<written, successful>> /\ DOMAIN before'[q] = {}
  <2>1. pc' = [pc EXCEPT ![q] = "done"] /\ target' = [target EXCEPT ![q] = NoOne]
        /\ before' = [before EXCEPT ![q] = <<>>] /\ snap' = [snap EXCEPT ![q] = <<>>]
        /\ UNCHANGED <<written, successful>>
    BY DEF Commit, Goto, Forget
  <2>2. WritesShape /\ pc \in [Requests -> Pc] /\ target \in [Requests -> Records \cup {NoOne}] /\ "done" \in Pc
    BY DEF WritesIInv, TypeOK, Pc
  <2>3. WritesShape'
    BY <2>1, <2>2 DEF WritesShape
  <2>4. Spares(q) /\ pc'[q] = "done" /\ pc' \in [Requests -> Pc]
    BY <2>1, <2>2 DEF WritesShape, Spares
  <2>5. DOMAIN before'[q] = {}
    BY <2>1, <2>2 DEF WritesShape
  <2> QED
    BY <2>1, <2>3, <2>4, <2>5
<1>5. TypeOK'
  <2>1. docs' \in [Records -> Doc \cup {Gone}]
    <3>1. \A r \in DOMAIN written[q] : written[q][r] \in Doc \cup {Gone}
      BY DEF WritesIInv, TypeOK
    <3> QED
      BY <3>1 DEF Commit, WritesIInv, TypeOK
  <2>2. /\ target' \in [Requests -> Records \cup {NoOne}]
        /\ {todo', nameless', successful'} \subseteq [Requests -> SUBSET Records]
        /\ doomed' \in [Requests -> BOOLEAN] /\ retries' \in [Requests -> 0 .. MaxRetries]
    BY RetriesAssumption DEF Commit, Forget, WritesIInv, TypeOK
  <2>3. lock' \in [Kinds -> [Records -> Requests \cup {NoOne}]]
    BY <1>1 DEF OnlyTakes
  <2>4. ASSUME NEW p \in Requests
        PROVE  /\ DOMAIN before'[p] \subseteq Records /\ DOMAIN written'[p] \subseteq Records
               /\ \A r \in DOMAIN before'[p] : before'[p][r] \in Doc
               /\ \A r \in DOMAIN written'[p] : written'[p][r] \in Doc \cup {Gone}
               /\ InTransaction(p)' => snap'[p] \in [Records -> Doc \cup {Gone}]
    BY <1>4 DEF WritesIInv, TypeOK, Spares, InTransaction
  <2> QED
    BY <1>3, <1>4, <2>1, <2>2, <2>3, <2>4 DEF TypeOK
<1>6. RequestOK(q)'
  BY <1>1, <1>4 DEF RequestOK, Addressed, StillRead, Reported, AtWork, HasRead, InTransaction, Bulk
<1>7. ASSUME NEW p \in Requests \ {q}
      PROVE  RequestOK(p)'
  <2>1. RequestOK(p) /\ Kind(p) \in Kinds
    BY KindIsKind DEF WritesIInv
  <2>2. Addressed(p)' /\ Reported(p)'
    BY <2>1, <1>4 DEF Spares, RequestOK, Addressed, Reported, AtWork, HasRead, Bulk
  <2>3. ASSUME HasRead(p)
        PROVE  StillRead(p)'
    <3> DEFINE r == target[p]
    <3>1. r \in Records /\ target'[p] = r /\ Kind(p) = "update" /\ before'[p] = before[p]
      BY <2>1, <2>3, <1>4 DEF Spares, HasRead, RequestOK, Addressed, AtWork, Bulk, Kind
    <3>2. lock'[Kind(p)][r] = p => lock[Kind(p)][r] = p
      BY <1>1, <2>1, <3>1 DEF OnlyTakes
    <3>3. docs[r] = before[p][r] \/ docs[r] = Gone \/ lock[Kind(p)][r] # p \/ docs[r].by \in unlocked
      BY <2>1, <2>3 DEF RequestOK, StillRead, Holds
    <3>4. CASE r \notin DOMAIN written[q]
      <4>1. docs'[r] = docs[r]
        BY <1>2, <3>1, <3>4
      <4> HIDE DEF r
      <4>2. docs'[r] = before'[p][r] \/ docs'[r] = Gone \/ lock'[Kind(p)][r] # p \/ docs'[r].by \in unlocked'
        BY <1>3, <3>1, <3>2, <3>3, <4>1
      <4> QED
        BY <3>1, <4>2 DEF StillRead, Holds, Kind
    <3>5. CASE r \in DOMAIN written[q]
      <4>1. docs'[r] = Replacement(q, before[q][r]) /\ before[q][r] \in Doc
        BY <1>1, <1>2, <3>1, <3>5 DEF WriteOK
      <4>2. CASE Kind(q) # "update"
        BY <3>1, <4>1, <4>2, ReplacementFields DEF StillRead
      <4>3. CASE Kind(q) = "update"
        <5>1. docs'[r].by = q
          BY <4>1, <4>3, ReplacementFields
        <5>2. q \in unlocked' \/ lock[Kind(p)][r] = q
          BY <1>3, <3>1, <3>5, <4>3 DEF Holds
        <5>3. docs'[r].by \in unlocked' \/ lock'[Kind(p)][r] # p
          BY <3>2, <5>1, <5>2
        <5> HIDE DEF r
        <5> QED
          BY <3>1, <5>3 DEF StillRead, Holds, Kind
      <4> QED
        BY <4>2, <4>3
    <3> QED
      BY <3>4, <3>5
  <2>4. ~HasRead(p) => StillRead(p)'
    BY <1>4 DEF StillRead, HasRead, Spares
  <2>5. ASSUME InTransaction(p)', NEW r \in DOMAIN written'[p]
        PROVE  WriteOK(p, r)'
    <3>1. InTransaction(p) /\ r \in DOMAIN written[p] /\ WriteOK(p, r) /\ r \in Records
      BY <1>4, <2>1, <2>5 DEF Spares, RequestOK, InTransaction, WritesIInv, TypeOK
    <3>2. docs'[r] = docs[r]
      BY <1>1, <1>2, <3>1 DEF WritesIInv, OneWriter
    <3> QED
      BY <1>4, <3>1, <3>2 DEF Spares, WriteOK, Items, Bulk, Selects, Allows, Replacement, Kind, Merged
  <2> QED
    BY <2>2, <2>3, <2>4, <2>5 DEF RequestOK
<1>8. OneWriter'
  BY <1>4 DEF WritesIInv, OneWriter, InTransaction, Spares
<1> QED
  BY <1>4, <1>5, <1>6, <1>7, <1>8 DEF WritesIInv

LEMMA LapseStep ==
  ASSUME WritesIInv, NEW k \in Kinds, NEW r \in Records, LockLapse(k, r)
  PROVE  WritesIInv'
<1>1. /\ lock' \in [Kinds -> [Records -> Requests \cup {NoOne}]]
      /\ \A p \in Requests : lock'[Kind(p)] \in [Records -> Requests \cup {NoOne}]
      /\ \A j \in Kinds : \A x \in Records : lock'[j][x] = lock[j][x] \/ lock'[j][x] = NoOne
  BY KindIsKind DEF LockLapse, WritesIInv, TypeOK
<1>2. UNCHANGED <<docs, pc, target, before, snap, written, todo, nameless, doomed, successful, retries, unlocked>>
  BY DEF LockLapse, requestVars
<1>3. TypeOK' /\ WritesShape' /\ OneWriter'
  BY <1>1, <1>2 DEF WritesIInv, TypeOK, WritesShape, OneWriter, InTransaction
<1>4. ASSUME NEW q \in Requests
      PROVE  RequestOK(q)'
  <2>1. RequestOK(q) /\ Kind(q) \in Kinds /\ q # NoOne
    BY KindIsKind, NamesAssumption DEF WritesIInv
  <2>2. Addressed(q)' /\ Reported(q)'
    BY <1>2, <2>1 DEF RequestOK, Addressed, Reported, AtWork, HasRead, Bulk
  <2>3. StillRead(q)'
    <3>1. CASE ~HasRead(q)
      BY <1>2, <3>1 DEF StillRead, HasRead
    <3>2. CASE HasRead(q)
      <4> DEFINE x == target[q]
      <4>1. x \in Records
        BY <2>1, <3>2 DEF HasRead, RequestOK, Addressed, AtWork, Bulk
      <4>2. lock'[Kind(q)][x] = q => lock[Kind(q)][x] = q
        BY <1>1, <2>1, <4>1
      <4> QED
        BY <1>2, <2>1, <3>2, <4>2 DEF RequestOK, StillRead, Holds, Kind
    <3> QED
      BY <3>1, <3>2
  <2>4. InTransaction(q)' => \A x \in DOMAIN written'[q] : WriteOK(q, x)'
    BY <1>2, <2>1 DEF RequestOK, InTransaction, WriteOK, Items, Bulk, Selects, Allows, Replacement, Kind, Merged
  <2> QED
    BY <2>2, <2>3, <2>4 DEF RequestOK
<1> QED
  BY <1>3, <1>4 DEF WritesIInv

LEMMA WritesStart == Init => WritesIInv
<1> SUFFICES ASSUME Init PROVE WritesIInv
  OBVIOUS
<1>1. WritesShape
  BY DEF Init, WritesShape
<1>2. \A q \in Requests : pc[q] = "idle" /\ DOMAIN written[q] = {} /\ DOMAIN before[q] = {}
  BY DEF Init
<1>3. TypeOK
  <2>1. docs \in [Records -> Doc \cup {Gone}]
    BY DEF Init, Doc
  <2>2. /\ lock \in [Kinds -> [Records -> Requests \cup {NoOne}]] /\ pc \in [Requests -> Pc]
        /\ target \in [Requests -> Records \cup {NoOne}]
        /\ {todo, nameless, successful} \subseteq [Requests -> SUBSET Records]
        /\ doomed \in [Requests -> BOOLEAN] /\ retries \in [Requests -> 0 .. MaxRetries] /\ unlocked \subseteq Requests
    BY RetriesAssumption DEF Init, Pc
  <2> QED
    BY <1>2, <2>1, <2>2 DEF TypeOK, InTransaction
<1>4. OneWriter /\ \A q \in Requests : RequestOK(q)
  BY <1>2 DEF OneWriter, RequestOK, Addressed, StillRead, Reported, AtWork, HasRead, InTransaction
<1> QED
  BY <1>1, <1>3, <1>4 DEF WritesIInv

LEMMA WritesStep == WritesIInv /\ [Next]_vars => WritesIInv'
<1> SUFFICES ASSUME WritesIInv, [Next]_vars PROVE WritesIInv'
  OBVIOUS
<1>1. ASSUME NEW q \in Requests, RequestStep(q)
      PROVE  WritesIInv'
  <2>1. CASE \E r \in Records : AcquireLock(q, r) \/ BulkItem(q, r)
    BY <2>1, AcquireStep, BulkStep
  <2>2. CASE FindForUpdate(q) \/ BeginTransaction(q) \/ UpdateByFilter(q) \/ DeleteByFilter(q)
    BY <2>2, FindStep, BeginStep, UpdateStep, DeleteStep
  <2>3. CASE FinishBulk(q) \/ Commit(q) \/ Stop(q)
    BY <2>3, FinishStep, CommitStep, StopStep
  <2>4. CASE WorkflowFails(q) \/ CommitFails(q)
    BY <2>4, RefuseStep, TransientStep DEF WorkflowFails, CommitFails, InTransaction
  <2> QED
    BY <1>1, <2>1, <2>2, <2>3, <2>4 DEF RequestStep
<1>2. ASSUME NEW k \in Kinds, NEW r \in Records, LockLapse(k, r)
      PROVE  WritesIInv'
  BY <1>2, LapseStep
<1>3. CASE UNCHANGED vars
  BY <1>3 DEF vars, requestVars, WritesIInv, TypeOK, WritesShape, OneWriter, RequestOK, Addressed, StillRead, Reported,
              AtWork, HasRead, InTransaction, WriteOK, Items, Bulk, Selects, Allows, Replacement, Kind, Merged, Holds
<1> QED
  BY <1>1, <1>2, <1>3 DEF Next

LEMMA WritesKept == Spec => []WritesIInv
BY WritesStart, WritesStep, PTL DEF Spec

(* Every variable of RecordWrites has its type, whatever requests retry,     *)
(* stop and lose their locks.                                                *)
THEOREM RecordWritesTypes == Spec => []TypeOK
BY WritesKept, PTL DEF WritesIInv

(* A bulk request that has answered names every item it committed, whatever  *)
(* the runs of its callback before left in the answer (FinishBulk).          *)
THEOREM RecordWritesReport == Spec => []CommittedIsReported
<1>1. WritesIInv => CommittedIsReported
  BY DEF WritesIInv, RequestOK, Reported, CommittedIsReported
<1> QED
  BY <1>1, WritesKept, PTL

(* Only Commit ends a request that has written.                              *)
LEMMA OnlyCommitCommits ==
  ASSUME WritesIInv, Next, NEW q \in Requests, Commits(q)
  PROVE  Commit(q)
<1>1. pc \in [Requests -> Pc] /\ pc[q] = "written" /\ pc'[q] = "done"
  BY DEF WritesIInv, TypeOK, Commits
<1>2. ASSUME NEW p \in Requests, NEW to, Goto(p, to)
      PROVE  p = q /\ to = "done"
  BY <1>1, <1>2 DEF Goto
<1>3. ASSUME NEW p \in Requests
      PROVE  ~Refuse(p) /\ ~Stop(p) /\ ~TransientError(p) /\ ~BeginTransaction(p)
  BY <1>2 DEF Refuse, Stop, GiveUp, TransientError, Retry, BeginTransaction, Enter
<1>4. pc' # pc
  BY <1>1
<1>5. ASSUME NEW p \in Requests, RequestStep(p)
      PROVE  Commit(q)
  <2>1. CASE \E r \in Records : AcquireLock(p, r) \/ BulkItem(p, r)
    BY <1>2, <1>4, <2>1 DEF AcquireLock, BulkItem
  <2>2. CASE FindForUpdate(p) \/ BeginTransaction(p) \/ UpdateByFilter(p) \/ DeleteByFilter(p)
    BY <1>2, <1>3, <2>2 DEF FindForUpdate, UpdateByFilter, DeleteByFilter
  <2>3. CASE FinishBulk(p) \/ Stop(p)
    BY <1>2, <1>3, <2>3 DEF FinishBulk
  <2>4. CASE WorkflowFails(p) \/ CommitFails(p)
    BY <1>3, <2>4 DEF WorkflowFails, CommitFails
  <2>5. CASE Commit(p)
    BY <1>2, <2>5 DEF Commit
  <2> QED
    BY <1>5, <2>1, <2>2, <2>3, <2>4, <2>5 DEF RequestStep
<1> QED
  BY <1>4, <1>5 DEF Next, LockLapse

(* What a commit finds of a record it replaces, and leaves of it.            *)
LEMMA Replaced ==
  ASSUME WritesIInv, NEW q \in Requests, Commit(q), NEW r \in DOMAIN written[q]
  PROVE  /\ r \in Items(q) /\ docs[r] # Gone /\ Allows(q, docs[r])
         /\ docs'[r] = written[q][r]
         /\ written[q][r] # Gone => Allows(q, written[q][r])
         /\ Op[q] # "update" => docs[r] = before[q][r]
<1>1. WriteOK(q, r) /\ r \in Records /\ before[q][r] \in Doc
  BY DEF Commit, WritesIInv, RequestOK, InTransaction, WriteOK, TypeOK
<1>2. docs'[r] = written[q][r]
  BY <1>1 DEF Commit
<1>3. written[q][r] # Gone => Kind(q) = "update"
  BY <1>1, ReplacementFields DEF WriteOK
<1> QED
  BY <1>1, <1>2, <1>3 DEF WriteOK, Selects, Allows

CommitsAllowed ==
  \A q \in Requests : Commits(q) =>
    \A r \in DOMAIN written[q] :
      /\ docs[r] # Gone /\ Allows(q, docs[r])
      /\ docs'[r] # Gone => Allows(q, docs'[r])

(* Whoever commits a change was allowed the record as it is at that moment,  *)
(* not only as he read it, and is allowed what he leaves                     *)
(* (recordAccessFilter in the selector of the write).                        *)
THEOREM RecordWritesPolicy == Spec => PolicyBeforeAndAfter
<1>1. WritesIInv /\ [Next]_vars => [CommitsAllowed]_vars
  <2> SUFFICES ASSUME WritesIInv, Next, NEW q \in Requests, Commits(q), NEW r \in DOMAIN written[q]
               PROVE  /\ docs[r] # Gone /\ Allows(q, docs[r])
                      /\ docs'[r] # Gone => Allows(q, docs'[r])
    BY DEF CommitsAllowed
  <2>1. docs[r] # Gone /\ Allows(q, docs[r]) /\ docs'[r] = written[q][r]
        /\ (written[q][r] # Gone => Allows(q, written[q][r]))
    BY OnlyCommitCommits, Replaced
  <2> QED
    BY <2>1 DEF Allows
<1>2. [CommitsAllowed]_vars =>
        [\A q \in Requests : Commits(q) =>
           \A r \in DOMAIN written[q] :
             /\ docs[r] # Gone /\ Allows(q, docs[r])
             /\ docs'[r] # Gone => Allows(q, docs'[r])]_vars
  BY DEF CommitsAllowed
<1> QED
  BY <1>1, <1>2, WritesKept, PTL DEF Spec, PolicyBeforeAndAfter

CommitsTold ==
  \A q \in Requests : Commits(q) =>
    \A r \in DOMAIN written[q] :
      \/ docs[r] = before[q][r]
      \/ Op[q] = "update" /\ docs[r] # Gone /\ (q \in unlocked' \/ docs[r].by \in unlocked)

(* The document a request reports to have replaced is the one it replaced,   *)
(* unless it, or the writer that came between, committed without the lock of *)
(* the record; and no update brings a deleted record back.                   *)
THEOREM RecordWritesAudit == Spec => AuditTellsWhatWasReplaced
<1>1. WritesIInv /\ [Next]_vars => [CommitsTold]_vars
  <2> SUFFICES ASSUME WritesIInv, Next, NEW q \in Requests, Commits(q), NEW r \in DOMAIN written[q],
                      docs[r] # before[q][r]
               PROVE  Op[q] = "update" /\ docs[r] # Gone /\ (q \in unlocked' \/ docs[r].by \in unlocked)
    BY DEF CommitsTold
  <2>1. Commit(q) /\ Op[q] = "update" /\ docs[r] # Gone /\ r \in Items(q)
    BY OnlyCommitCommits, Replaced
  <2>2. r = target[q] /\ HasRead(q)
    BY <2>1 DEF Items, Bulk, HasRead, Commits
  <2>3. ~Holds(q, r) \/ docs[r].by \in unlocked
    BY <2>1, <2>2 DEF WritesIInv, RequestOK, StillRead
  <2>4. ~Holds(q, r) => q \in unlocked'
    BY <2>1 DEF Commit
  <2> QED
    BY <2>1, <2>3, <2>4
<1>2. [CommitsTold]_vars =>
        [\A q \in Requests : Commits(q) =>
           \A r \in DOMAIN written[q] :
             \/ docs[r] = before[q][r]
             \/ Op[q] = "update" /\ docs[r] # Gone /\ (q \in unlocked' \/ docs[r].by \in unlocked)]_vars
  BY DEF CommitsTold
<1> QED
  BY <1>1, <1>2, WritesKept, PTL DEF Spec, AuditTellsWhatWasReplaced

-----------------------------------------------------------------------------
(* Embedded rows.                                                            *)
Steps == {"new", "locked", "computed", "open", "written", "done", "refused"}
Mutating(r) == stage[r] \in {"locked", "computed", "open", "written"}
HasFound(r) == stage[r] \in {"computed", "open", "written"}

ArraysShape ==
  /\ rowLock \in Mutations \cup {NoMutation} /\ stage \in [Mutations -> Steps] /\ exposed \subseteq Mutations
  /\ found = [r \in Mutations |-> found[r]] /\ next = [r \in Mutations |-> next[r]]

(* What a mutation writes follows from the rows it read, in every run of its *)
(* callback; once it has written, they are still the rows of the record.     *)
MutationOK(r) ==
  /\ HasFound(r) => next[r] \in Transform(r, found[r])
  /\ stage[r] = "written" /\ Mutation[r].op # "whole" => rows = found[r]

OneMutationWrites == \A p, q \in Mutations : stage[p] = "written" /\ stage[q] = "written" => p = q

(* While nobody works without the lock, its holder alone is at work, on the  *)
(* rows that are there.                                                      *)
LockedAlone ==
  exposed = {} => \A r \in Mutations : /\ Mutating(r) => rowLock = r
                                       /\ HasFound(r) => found[r] = rows

ArraysIInv == ArraysShape /\ (\A r \in Mutations : MutationOK(r)) /\ OneMutationWrites /\ LockedAlone

(* A step of r that leaves the committed rows.                               *)
LEMMA MutationMoves ==
  ASSUME ArraysIInv, NEW r \in Mutations, NEW to \in Steps, To(r, to), UNCHANGED <<rows, exposed>>,
         found' = [p \in Mutations |-> found'[p]], next' = [p \in Mutations |-> next'[p]],
         \A p \in Mutations \ {r} : found'[p] = found[p] /\ next'[p] = next[p],
         Mutating(r) \/ rowLock = NoMutation \/ to = "refused",
         rowLock' = rowLock \/ (rowLock' = r /\ rowLock = NoMutation) \/ (rowLock' = NoMutation /\ rowLock = r),
         to \in {"locked", "computed", "open", "written"} => rowLock' = r \/ (rowLock' = rowLock /\ Mutating(r)),
         to \in {"computed", "open", "written"} =>
           next'[r] \in Transform(r, found'[r]) /\ (exposed = {} => found'[r] = rows),
         to = "written" => /\ Mutation[r].op # "whole" => rows = found'[r]
                           /\ \A p \in Mutations \ {r} : stage[p] # "written"
  PROVE  ArraysIInv'
<1>1. stage' \in [Mutations -> Steps] /\ stage'[r] = to /\ \A p \in Mutations \ {r} : stage'[p] = stage[p]
  BY DEF ArraysIInv, ArraysShape, To
<1>2. ArraysShape'
  BY <1>1 DEF ArraysIInv, ArraysShape
<1>3. ASSUME NEW p \in Mutations
      PROVE  MutationOK(p)'
  BY <1>1 DEF ArraysIInv, MutationOK, HasFound
<1>4. OneMutationWrites'
  BY <1>1 DEF ArraysIInv, OneMutationWrites
<1>5. LockedAlone'
  <2>1. SUFFICES ASSUME exposed = {}, NEW p \in Mutations
                 PROVE  (Mutating(p)' => rowLock' = p) /\ (HasFound(p)' => found'[p] = rows)
    BY DEF LockedAlone
  <2>2. NoMutation \notin Mutations
    BY ArraysAssumption
  <2>3. (Mutating(p) => rowLock = p) /\ (HasFound(p) => found[p] = rows) /\ (Mutating(r) => rowLock = r)
    BY <2>1 DEF ArraysIInv, LockedAlone
  <2>4. CASE p = r
    BY <1>1, <2>1, <2>3, <2>4 DEF Mutating, HasFound
  <2>5. CASE p # r
    <3>1. (Mutating(p)' <=> Mutating(p)) /\ (HasFound(p)' <=> HasFound(p)) /\ found'[p] = found[p]
      BY <1>1, <2>5 DEF Mutating, HasFound
    <3>2. Mutating(p) => rowLock' = rowLock
      BY <2>2, <2>3, <2>5
    <3> QED
      BY <2>3, <3>1, <3>2
  <2> QED
    BY <2>4, <2>5
<1> QED
  BY <1>2, <1>3, <1>4, <1>5 DEF ArraysIInv

LEMMA MutationEnds ==
  ASSUME ArraysIInv, NEW r \in Mutations, Mutating(r), EndMutation(r, "refused"), UNCHANGED <<rows, exposed>>
  PROVE  ArraysIInv'
<1>1. found = [p \in Mutations |-> found[p]] /\ next = [p \in Mutations |-> next[p]] /\ "refused" \in Steps
  BY DEF ArraysIInv, ArraysShape, Steps
<1>2. /\ found' = [p \in Mutations |-> found'[p]] /\ next' = [p \in Mutations |-> next'[p]]
      /\ \A p \in Mutations \ {r} : found'[p] = found[p] /\ next'[p] = next[p]
  BY <1>1 DEF EndMutation
<1>3. rowLock' = rowLock \/ (rowLock' = NoMutation /\ rowLock = r)
  BY DEF EndMutation
<1> QED
  BY <1>1, <1>2, <1>3, MutationMoves DEF EndMutation

LEMMA TakeRowLockStep ==
  ASSUME ArraysIInv, NEW r \in Mutations, TakeRowLock(r)
  PROVE  ArraysIInv'
<1>1. /\ stage[r] = "new" /\ UNCHANGED <<rows, found, next>> /\ {"locked", "refused"} \subseteq Steps
      /\ found = [p \in Mutations |-> found[p]] /\ next = [p \in Mutations |-> next[p]]
  BY DEF TakeRowLock, ArraysIInv, ArraysShape, Steps
<1>2. CASE \/ rowLock = NoMutation /\ rowLock' = r /\ To(r, "locked") /\ UNCHANGED exposed
           \/ rowLock # NoMutation /\ UNCHANGED <<rowLock, exposed>> /\ To(r, "refused")
  BY <1>1, <1>2, MutationMoves
<1>3. CASE UNCHANGED rowLock /\ To(r, "locked") /\ exposed' = exposed \cup {r}
  <2>1. stage' \in [Mutations -> Steps] /\ stage'[r] = "locked" /\ \A p \in Mutations \ {r} : stage'[p] = stage[p]
    BY <1>1, <1>3 DEF ArraysIInv, ArraysShape, To
  <2> QED
    BY <1>1, <1>3, <2>1 DEF ArraysIInv, ArraysShape, MutationOK, HasFound, OneMutationWrites, LockedAlone
<1> QED
  BY <1>2, <1>3 DEF TakeRowLock

LEMMA RowLockLapseStep ==
  ASSUME ArraysIInv, RowLockLapse
  PROVE  ArraysIInv'
BY DEF RowLockLapse, ArraysIInv, ArraysShape, MutationOK, HasFound, OneMutationWrites, LockedAlone

LEMMA FindRowsStep ==
  ASSUME ArraysIInv, NEW r \in Mutations, FindRows(r)
  PROVE  ArraysIInv'
<1>1. /\ stage[r] = "locked" /\ UNCHANGED <<rows, exposed>> /\ Mutating(r) /\ "computed" \in Steps
      /\ found = [p \in Mutations |-> found[p]] /\ next = [p \in Mutations |-> next[p]]
  BY DEF FindRows, ArraysIInv, ArraysShape, Steps, Mutating
<1>2. CASE EndMutation(r, "refused")
  BY <1>1, <1>2, MutationEnds
<1>3. ASSUME NEW s \in Transform(r, rows), found' = [found EXCEPT ![r] = rows], next' = [next EXCEPT ![r] = s],
             To(r, "computed"), UNCHANGED <<rowLock, behind>>
      PROVE  ArraysIInv'
  <2>1. /\ found' = [p \in Mutations |-> found'[p]] /\ next' = [p \in Mutations |-> next'[p]]
        /\ \A p \in Mutations \ {r} : found'[p] = found[p] /\ next'[p] = next[p]
    BY <1>1, <1>3
  <2>2. found'[r] = rows /\ next'[r] = s
    BY <1>1, <1>3
  <2> QED
    BY <1>1, <1>3, <2>1, <2>2, MutationMoves
<1> QED
  BY <1>2, <1>3 DEF FindRows

(* A mutation that goes on in its callback.                                  *)
LEMMA MutationGoesOn ==
  ASSUME ArraysIInv, NEW r \in Mutations, HasFound(r), NEW to \in {"computed", "open", "written"}, To(r, to),
         UNCHANGED <<rows, rowLock, found, next, exposed>>,
         to = "written" => ~WriteConflict(r) /\ StillThere(r)
  PROVE  ArraysIInv'
<1>1. /\ to \in Steps /\ Mutating(r)
      /\ found = [p \in Mutations |-> found[p]] /\ next = [p \in Mutations |-> next[p]]
  BY DEF ArraysIInv, ArraysShape, Steps, Mutating, HasFound
<1>2. next[r] \in Transform(r, found[r]) /\ (exposed = {} => found[r] = rows)
  BY DEF ArraysIInv, MutationOK, LockedAlone
<1>3. to = "written" => /\ Mutation[r].op # "whole" => rows = found[r]
                        /\ \A p \in Mutations \ {r} : stage[p] # "written"
  BY DEF WriteConflict, StillThere
<1> QED
  BY <1>1, <1>2, <1>3, MutationMoves

LEMMA CallbackStep ==
  ASSUME ArraysIInv, NEW r \in Mutations, BeginMutation(r) \/ RerunMutation(r) \/ SetRows(r)
  PROVE  ArraysIInv'
<1>1. CASE BeginMutation(r)
  BY <1>1, MutationGoesOn DEF BeginMutation, HasFound
<1>2. CASE RerunMutation(r)
  BY <1>2, MutationGoesOn, MutationEnds DEF RerunMutation, HasFound, Mutating
<1>3. CASE SetRows(r)
  BY <1>3, MutationGoesOn, MutationEnds DEF SetRows, HasFound, Mutating
<1> QED
  BY <1>1, <1>2, <1>3

(* A commit changes the rows under nobody who has written, and, while no     *)
(* mutation is without the lock, under nobody who has read.                  *)
LEMMA CommitRowsStep ==
  ASSUME ArraysIInv, NEW r \in Mutations, CommitRows(r)
  PROVE  ArraysIInv'
<1>1. /\ stage[r] = "written" /\ Mutating(r) /\ "done" \in Steps /\ UNCHANGED exposed
      /\ found = [p \in Mutations |-> found[p]] /\ next = [p \in Mutations |-> next[p]]
  BY DEF CommitRows, ArraysIInv, ArraysShape, Steps, Mutating
<1>2. /\ found' = [p \in Mutations |-> found'[p]] /\ next' = [p \in Mutations |-> next'[p]]
      /\ \A p \in Mutations \ {r} : found'[p] = found[p] /\ next'[p] = next[p]
  BY <1>1 DEF CommitRows
<1>3. stage' \in [Mutations -> Steps] /\ stage'[r] = "done" /\ \A p \in Mutations \ {r} : stage'[p] = stage[p]
  BY <1>1 DEF CommitRows, To, ArraysIInv, ArraysShape
<1>4. ArraysShape' /\ OneMutationWrites'
  BY <1>1, <1>2, <1>3 DEF CommitRows, ArraysIInv, ArraysShape, OneMutationWrites
<1>5. ASSUME NEW p \in Mutations
      PROVE  MutationOK(p)'
  <2>1. stage'[p] # "written"
    BY <1>1, <1>3 DEF ArraysIInv, OneMutationWrites
  <2> QED
    BY <1>2, <1>3, <2>1 DEF ArraysIInv, MutationOK, HasFound
<1>6. LockedAlone'
  <2>1. SUFFICES ASSUME exposed = {}, NEW p \in Mutations
                 PROVE  ~Mutating(p)' /\ ~HasFound(p)'
    BY <1>1 DEF LockedAlone
  <2>2. p # r => ~Mutating(p) /\ ~HasFound(p)
    BY <1>1, <2>1 DEF ArraysIInv, LockedAlone, Mutating, HasFound
  <2> QED
    BY <1>3, <2>2 DEF Mutating, HasFound
<1> QED
  BY <1>4, <1>5, <1>6 DEF ArraysIInv

LEMMA ArraysStep == ArraysIInv /\ [ArrayNext]_arrayVars => ArraysIInv'
<1>1. CASE UNCHANGED arrayVars
  BY <1>1 DEF arrayVars, ArraysIInv, ArraysShape, MutationOK, HasFound, OneMutationWrites, LockedAlone, Mutating
<1> QED
  BY <1>1, TakeRowLockStep, RowLockLapseStep, FindRowsStep, CallbackStep, CommitRowsStep DEF ArrayNext

LEMMA ArraysStart == ArrayInit => ArraysIInv
BY DEF ArrayInit, ArraysIInv, ArraysShape, Steps, MutationOK, HasFound, OneMutationWrites, LockedAlone, Mutating

LEMMA ArraysKept == ArraySpec => []ArraysIInv
BY ArraysStart, ArraysStep, PTL DEF ArraySpec

SerialStep ==
  \A r \in Mutations : stage[r] = "written" /\ stage'[r] = "done" =>
    \/ rows' \in Transform(r, rows)
    \/ Mutation[r].op = "whole" /\ exposed # {}

(* A committed mutation of the rows is one of the rows that are there, for   *)
(* any mutations, rows and number of runs: the rows it read are part of its  *)
(* selector. An update of the whole record, whose selector lacks them, has   *)
(* only the lock (mutateArrayRows, UpdateDynamicItem).                       *)
THEOREM RecordArraysSerial == ArraySpec => RowsAreSerial
<1>1. ArraysIInv /\ [ArrayNext]_arrayVars => [SerialStep]_arrayVars
  <2> SUFFICES ASSUME ArraysIInv, ArrayNext, NEW r \in Mutations, stage[r] = "written", stage'[r] = "done"
               PROVE  rows' \in Transform(r, rows) \/ (Mutation[r].op = "whole" /\ exposed # {})
    BY DEF SerialStep
  <2>1. stage \in [Mutations -> Steps]
    BY DEF ArraysIInv, ArraysShape
  <2>2. ASSUME NEW p \in Mutations, NEW to, To(p, to)
        PROVE  p = r /\ to = "done"
    BY <2>1, <2>2 DEF To
  <2>3. CommitRows(r)
    <3>1. ~RowLockLapse
      BY DEF RowLockLapse
    <3>2. ASSUME NEW p \in Mutations
          PROVE  ~TakeRowLock(p) /\ ~FindRows(p) /\ ~BeginMutation(p) /\ ~SetRows(p) /\ ~RerunMutation(p)
      BY <2>2 DEF TakeRowLock, FindRows, BeginMutation, SetRows, RerunMutation, EndMutation
    <3> QED
      BY <2>2, <3>1, <3>2 DEF ArrayNext, CommitRows
  <2>4. rows' = next[r] /\ next[r] \in Transform(r, found[r])
        /\ (found[r] = rows \/ (Mutation[r].op = "whole" /\ exposed # {}))
    BY <2>3 DEF CommitRows, ArraysIInv, MutationOK, HasFound, LockedAlone
  <2> QED
    BY <2>4
<1>2. [SerialStep]_arrayVars =>
        [\A r \in Mutations : stage[r] = "written" /\ stage'[r] = "done" =>
           \/ rows' \in Transform(r, rows)
           \/ Mutation[r].op = "whole" /\ exposed # {}]_arrayVars
  BY DEF SerialStep
<1> QED
  BY <1>1, <1>2, ArraysKept, PTL DEF ArraySpec, RowsAreSerial

-----------------------------------------------------------------------------
(* Numbers.                                                                  *)
Named == Ids \cup Schemas
Txn == [phase : {"new", "open", "written", "failed", "done"}, snap : SUBSET Ids, seq : Nat,
        missed : SUBSET Named, writes : SUBSET Named, runs : Nat]

NumbersShape ==
  /\ live \subseteq Ids /\ counter \in [Schemas -> Nat]
  /\ txn \in [DOMAIN Asked -> Txn]
  /\ kept = [r \in DOMAIN Asked |-> kept[r]]
  /\ DOMAIN number \subseteq Ids

HasWritten(r) == txn[r].phase = "written" /\ Creates(r)
Counts(r) == SchemaAsked(r) \in txn[r].writes
Place(r, x) == CHOOSE i \in DOMAIN Asked[r].items : Asked[r].items[i] = x

(* An open create has the counter as it is, or will fail to write it; one    *)
(* that has written has numbered all its items from there on, or none.       *)
CreateOK(r) ==
  /\ txn[r].phase = "open" => txn[r].seq = counter[SchemaAsked(r)] \/ SchemaAsked(r) \in txn[r].missed
  /\ HasWritten(r) =>
       /\ txn[r].writes \subseteq RefItems(r) \cup {SchemaAsked(r)}
       /\ DOMAIN kept[r] # {} => DOMAIN kept[r] = RefItems(r) /\ Counts(r)
       /\ Counts(r) => txn[r].seq = counter[SchemaAsked(r)]
       /\ \A x \in DOMAIN kept[r] : kept[r][x] = txn[r].seq + Place(r, x)

(* Of the creates that number the records of a container, one has written.   *)
OneCounts ==
  \A p, q \in DOMAIN Asked :
    HasWritten(p) /\ Counts(p) /\ HasWritten(q) /\ Counts(q) /\ SchemaAsked(p) = SchemaAsked(q) => p = q

(* Numbers come from creates that are done.                                  *)
NumberedByCreate ==
  \A x \in DOMAIN number : \E r \in DOMAIN Asked : Creates(r) /\ txn[r].phase = "done" /\ x \in RefItems(r)

NumbersMatch ==
  /\ \A x \in DOMAIN number : number[x] \in 1..counter[SchemaOf[x]]
  /\ \A x, y \in DOMAIN number : SchemaOf[x] = SchemaOf[y] /\ number[x] = number[y] => x = y
  /\ \A s \in Schemas : \A n \in 1..counter[s] : \E x \in DOMAIN number : SchemaOf[x] = s /\ number[x] = n

NumbersIInv ==
  /\ NumbersShape /\ (\A r \in DOMAIN Asked : CreateOK(r))
  /\ OneCounts /\ NumberedByCreate /\ NumbersMatch

(* A set that is numbered from 1 to n, each number once, has n members.      *)
LEMMA Counted ==
  ASSUME NEW S, NEW n \in Nat, NEW f \in [S -> 1..n],
         \A x, y \in S : f[x] = f[y] => x = y, \A i \in 1..n : \E x \in S : f[x] = i
  PROVE  Cardinality(S) = n
<1>1. f \in Injection(S, 1..n) /\ f \in Surjection(S, 1..n)
  BY DEF Injection, IsInjective, Surjection
<1>2. IsFiniteSet(1..n) /\ Cardinality(1..n) = n
  BY FS_Interval
<1> QED
  BY <1>1, <1>2, FS_Injection

LEMMA NumbersAreOnce == NumbersShape /\ NumbersMatch => NumbersOnce
<1> SUFFICES ASSUME NumbersShape, NumbersMatch, NEW s \in Schemas
             PROVE  LET its == {x \in DOMAIN number : SchemaOf[x] = s}
                    IN {number[x] : x \in its} = 1..counter[s] /\ Cardinality(its) = counter[s]
  BY DEF NumbersOnce
<1> DEFINE its == {x \in DOMAIN number : SchemaOf[x] = s}
           f == [x \in its |-> number[x]]
<1>1. counter[s] \in Nat
  BY DEF NumbersShape
<1>2. {number[x] : x \in its} = 1..counter[s]
  BY DEF NumbersMatch
<1>3. Cardinality(its) = counter[s]
  <2>1. /\ f \in [its -> 1..counter[s]]
        /\ \A x, y \in its : f[x] = f[y] => x = y
        /\ \A i \in 1..counter[s] : \E x \in its : f[x] = i
    BY DEF NumbersMatch
  <2> HIDE DEF f, its
  <2> QED
    BY <1>1, <2>1, Counted
<1> QED
  BY <1>2, <1>3

(* The items of a request: their container, their places, their number.      *)
LEMMA ItemsFacts ==
  ASSUME NEW r \in DOMAIN Asked
  PROVE  /\ RefItems(r) \subseteq Ids /\ SchemaAsked(r) \in Schemas /\ SchemaAsked(r) \notin Ids
         /\ \A x \in RefItems(r) : SchemaOf[x] = SchemaAsked(r)
         /\ \A x \in RefItems(r) : Place(r, x) \in 1..Len(Asked[r].items) /\ Asked[r].items[Place(r, x)] = x
         /\ Len(Asked[r].items) \in Nat \ {0}
<1> DEFINE s == Asked[r].items
<1>1. s \in Seq(Ids) /\ s # <<>>
  BY ReferencesAssumption, FreshAssumption
<1>2. Len(s) \in Nat \ {0} /\ DOMAIN s = 1..Len(s) /\ \A i \in 1..Len(s) : s[i] \in Ids
  BY <1>1
<1>3. RefItems(r) = {s[i] : i \in 1..Len(s)}
  BY <1>2 DEF RefItems, Range
<1>4. s[1] \in RefItems(r) /\ RefItems(r) \subseteq Ids
  BY <1>2, <1>3
<1>5. SchemaAsked(r) \in Schemas /\ SchemaAsked(r) \notin Ids
  BY <1>4, ReferencesAssumption DEF SchemaAsked, Schemas, Range
<1>6. \A x \in RefItems(r) : SchemaOf[x] = SchemaAsked(r)
  BY <1>4, ReferencesAssumption DEF SchemaAsked, RefItems
<1>7. \A x \in RefItems(r) : Place(r, x) \in 1..Len(s) /\ s[Place(r, x)] = x
  BY <1>2, <1>3 DEF Place
<1> QED
  BY <1>2, <1>4, <1>5, <1>6, <1>7

(* A create has as many items as places.                                     *)
LEMMA ItemsCount ==
  ASSUME NEW r \in DOMAIN Asked, Creates(r)
  PROVE  /\ Cardinality(RefItems(r)) = Len(Asked[r].items)
         /\ \A x, y \in RefItems(r) : Place(r, x) = Place(r, y) => x = y
         /\ \A i \in 1..Len(Asked[r].items) : Asked[r].items[i] \in RefItems(r) /\ Place(r, Asked[r].items[i]) = i
<1> DEFINE s == Asked[r].items
           f == [x \in RefItems(r) |-> Place(r, x)]
<1>1. /\ \A x \in RefItems(r) : Place(r, x) \in 1..Len(s) /\ s[Place(r, x)] = x
      /\ Len(s) \in Nat
  BY ItemsFacts
<1>2. s \in Seq(Ids) /\ \A i, j \in DOMAIN s : s[i] = s[j] => i = j
  BY ReferencesAssumption, FreshAssumption
<1>3. DOMAIN s = 1..Len(s)
  BY <1>2
<1>4. \A i \in 1..Len(s) : s[i] \in RefItems(r)
  BY <1>3 DEF RefItems, Range
<1>5. \A i \in 1..Len(s) : Place(r, s[i]) = i
  BY <1>1, <1>2, <1>3, <1>4
<1>6. \A x, y \in RefItems(r) : Place(r, x) = Place(r, y) => x = y
  BY <1>1
<1>7. /\ f \in [RefItems(r) -> 1..Len(s)]
      /\ \A x, y \in RefItems(r) : f[x] = f[y] => x = y
      /\ \A i \in 1..Len(s) : \E x \in RefItems(r) : f[x] = i
  BY <1>1, <1>4, <1>5, <1>6
<1>8. Cardinality(RefItems(r)) = Len(s)
  <2> DEFINE n == Len(s)
  <2>1. /\ n \in Nat /\ f \in [RefItems(r) -> 1..n]
        /\ \A x, y \in RefItems(r) : f[x] = f[y] => x = y
        /\ \A i \in 1..n : \E x \in RefItems(r) : f[x] = i
    BY <1>1, <1>7
  <2> HIDE DEF f, n
  <2>2. Cardinality(RefItems(r)) = n
    BY <2>1, Counted
  <2> QED
    BY <2>2 DEF n
<1> QED
  BY <1>4, <1>5, <1>6, <1>8

(* What a step does to the transaction of one request.                       *)
Works(r) ==
  /\ UNCHANGED <<live, counter, number>>
  /\ txn' \in [DOMAIN Asked -> Txn] /\ kept' = [q \in DOMAIN Asked |-> kept'[q]]
  /\ \A q \in DOMAIN Asked \ {r} : txn'[q] = txn[q] /\ kept'[q] = kept[q]
  /\ txn[r].phase # "done" /\ txn'[r].phase # "done"

LEMMA WorksStep ==
  ASSUME NumbersIInv, NEW r \in DOMAIN Asked, Works(r), CreateOK(r)',
         HasWritten(r)' /\ Counts(r)' =>
           \A q \in DOMAIN Asked \ {r} : HasWritten(q) => SchemaAsked(r) \notin txn[q].writes
  PROVE  NumbersIInv'
<1>1. NumbersShape'
  BY DEF NumbersIInv, NumbersShape, Works
<1>2. ASSUME NEW q \in DOMAIN Asked \ {r}
      PROVE  CreateOK(q)'
  <2>1. CreateOK(q) /\ txn'[q] = txn[q] /\ kept'[q] = kept[q] /\ counter' = counter
    BY DEF NumbersIInv, Works
  <2> QED
    BY <2>1 DEF CreateOK, HasWritten, Counts
<1>3. OneCounts'
  <2>1. SUFFICES ASSUME NEW p \in DOMAIN Asked, NEW q \in DOMAIN Asked, p # q, HasWritten(p)', Counts(p)',
                        HasWritten(q)', Counts(q)', SchemaAsked(p) = SchemaAsked(q)
                 PROVE  FALSE
    BY DEF OneCounts
  <2>2. \A x \in DOMAIN Asked \ {r} : (HasWritten(x)' => HasWritten(x)) /\ (Counts(x)' => Counts(x))
    BY DEF Works, HasWritten, Counts
  <2>3. CASE p # r /\ q # r
    BY <2>1, <2>2, <2>3 DEF NumbersIInv, OneCounts
  <2>4. CASE p = r
    BY <2>1, <2>2, <2>4 DEF Counts
  <2>5. CASE q = r
    BY <2>1, <2>2, <2>5 DEF Counts
  <2> QED
    BY <2>3, <2>4, <2>5
<1>4. NumberedByCreate'
  <2>1. SUFFICES ASSUME NEW x \in DOMAIN number
                 PROVE  \E q \in DOMAIN Asked : Creates(q) /\ txn'[q].phase = "done" /\ x \in RefItems(q)
    BY DEF NumberedByCreate, Works
  <2>2. PICK q \in DOMAIN Asked : Creates(q) /\ txn[q].phase = "done" /\ x \in RefItems(q)
    BY DEF NumbersIInv, NumberedByCreate
  <2> QED
    BY <2>2 DEF Works
<1>5. NumbersMatch'
  BY DEF NumbersIInv, NumbersMatch, Works
<1> QED
  BY <1>1, <1>2, <1>3, <1>4, <1>5 DEF NumbersIInv

LEMMA BeginWorkStep ==
  ASSUME NumbersIInv, NEW r \in DOMAIN Asked, BeginWork(r)
  PROVE  NumbersIInv'
<1> DEFINE s == counter[SchemaAsked(r)]
           t == [phase |-> "open", snap |-> live, seq |-> s, missed |-> {}, writes |-> {}, runs |-> txn[r].runs + 1]
<1>1. txn[r] \in Txn /\ txn \in [DOMAIN Asked -> Txn] /\ s \in Nat /\ live \subseteq Ids /\ txn[r].phase = "new"
  BY ItemsFacts DEF NumbersIInv, NumbersShape, BeginWork
<1>2. txn' = [txn EXCEPT ![r] = t]
  BY <1>1 DEF BeginWork, Txn
<1>3. t \in Txn /\ t.phase = "open" /\ t.seq = s
  BY <1>1 DEF Txn
<1> HIDE DEF t
<1>4. Works(r) /\ txn'[r] = t
  <2>1. txn' \in [DOMAIN Asked -> Txn] /\ txn'[r] = t /\ \A q \in DOMAIN Asked \ {r} : txn'[q] = txn[q]
    BY <1>1, <1>2, <1>3
  <2>2. UNCHANGED <<live, counter, number, kept>>
    BY DEF BeginWork
  <2>3. kept' = [q \in DOMAIN Asked |-> kept'[q]]
    BY <2>2 DEF NumbersIInv, NumbersShape
  <2> QED
    BY <1>1, <1>3, <2>1, <2>2, <2>3 DEF Works
<1>5. CreateOK(r)' /\ ~HasWritten(r)'
  BY <1>3, <1>4 DEF CreateOK, HasWritten, Works
<1> QED
  BY <1>4, <1>5, WorksStep

(* A callback that is given up, or run again.                                *)
LEMMA LeaveStep ==
  ASSUME NumbersIInv, NEW r \in DOMAIN Asked, txn[r].phase \in {"open", "written"},
         NEW phase \in {"new", "failed"}, txn' = [txn EXCEPT ![r].phase = phase, ![r].writes = {}],
         UNCHANGED <<live, counter, number, kept>>
  PROVE  NumbersIInv'
<1>1. txn[r] \in Txn /\ txn \in [DOMAIN Asked -> Txn]
  BY DEF NumbersIInv, NumbersShape
<1>2. txn' \in [DOMAIN Asked -> Txn] /\ txn'[r].phase = phase
      /\ \A q \in DOMAIN Asked \ {r} : txn'[q] = txn[q]
  BY <1>1 DEF Txn
<1>3. Works(r)
  BY <1>2 DEF Works, NumbersIInv, NumbersShape
<1>4. CreateOK(r)' /\ ~HasWritten(r)'
  BY <1>2 DEF CreateOK, HasWritten
<1> QED
  BY <1>3, <1>4, WorksStep

LEMMA RunAgainStep ==
  ASSUME NumbersIInv, NEW r \in DOMAIN Asked, txn[r].phase \in {"open", "written"}, RunAgain(r), UNCHANGED kept
  PROVE  NumbersIInv'
<1> DEFINE phase == IF txn[r].runs < MaxRuns THEN "new" ELSE "failed"
<1>1. phase \in {"new", "failed"} /\ UNCHANGED <<live, counter, number, kept>>
      /\ txn' = [txn EXCEPT ![r].phase = phase, ![r].writes = {}]
  BY DEF RunAgain
<1> HIDE DEF phase
<1> QED
  BY <1>1, LeaveStep

LEMMA FailStep ==
  ASSUME NumbersIInv, NEW r \in DOMAIN Asked, txn[r].phase \in {"open", "written"}, Fail(r)
  PROVE  NumbersIInv'
BY LeaveStep DEF Fail

(* The numbers of a create that has none yet: all its items, in their order, *)
(* or none.                                                                  *)
LEMMA Numbering ==
  ASSUME NEW r \in DOMAIN Asked, DOMAIN kept[r] = {}, txn[r].seq \in Nat
  PROVE  /\ DOMAIN AutoIncrement(r) # {} => DOMAIN AutoIncrement(r) = RefItems(r)
         /\ \A x \in DOMAIN AutoIncrement(r) : AutoIncrement(r)[x] = txn[r].seq + Place(r, x)
<1> DEFINE wants(i) == SchemaAsked(r) \in Numbered /\ Asked[r].items[i] \notin DOMAIN kept[r]
           new == {x \in RefItems(r) : wants(Place(r, x))}
           given == [x \in new |-> txn[r].seq + Cardinality({i \in 1..Place(r, x) : wants(i)})]
<1>1. AutoIncrement(r) = Overlay(given, kept[r])
  BY DEF AutoIncrement, Place
<1>2. \A i : wants(i) <=> SchemaAsked(r) \in Numbered
  OBVIOUS
<1>3. new = {} \/ (new = RefItems(r) /\ SchemaAsked(r) \in Numbered)
  BY <1>2
<1>4. \A x \in new : given[x] = txn[r].seq + Place(r, x)
  <2>1. SUFFICES ASSUME NEW x \in new PROVE Cardinality({i \in 1..Place(r, x) : wants(i)}) = Place(r, x)
    OBVIOUS
  <2>2. Place(r, x) \in Nat \ {0}
    BY ItemsFacts
  <2>3. {i \in 1..Place(r, x) : wants(i)} = 1..Place(r, x)
    BY <1>3
  <2>4. Cardinality(1..Place(r, x)) = Place(r, x)
    BY <2>2, FS_Interval
  <2> QED
    BY <2>3, <2>4
<1> HIDE DEF new, given
<1>5. DOMAIN given = new
  BY DEF given
<1>6. DOMAIN AutoIncrement(r) = new /\ \A x \in new : AutoIncrement(r)[x] = given[x]
  BY <1>1, <1>5 DEF Overlay
<1> QED
  BY <1>3, <1>4, <1>6

LEMMA CreateRecordsStep ==
  ASSUME NumbersIInv, NEW r \in DOMAIN Asked, Create(r)
  PROVE  NumbersIInv'
<1> DEFINE numbers == AutoIncrement(r)
           writes == RefItems(r) \cup (IF numbers = kept[r] THEN {} ELSE {SchemaAsked(r)})
           s == SchemaAsked(r)
<1>1. txn[r].phase = "open" /\ Creates(r)
  BY DEF Create
<1>2. CASE ~ValidNumbers(r)
  <2>1. Fail(r)
    BY <1>2 DEF Create
  <2> QED
    BY <1>1, <2>1, FailStep
<1>3. CASE ValidNumbers(r) /\ s \in writes \cap Unwritable(r)
  <2>1. RunAgain(r) /\ UNCHANGED kept
    BY <1>3 DEF Create
  <2> QED
    BY <1>1, <2>1, RunAgainStep
<1>4. CASE ValidNumbers(r) /\ s \notin writes \cap Unwritable(r)
  <2>1. /\ txn' = [txn EXCEPT ![r].phase = "written", ![r].writes = writes]
        /\ kept' = [kept EXCEPT ![r] = numbers]
        /\ UNCHANGED <<live, counter, number, gone>>
    BY <1>4 DEF Create
  <2>2. /\ txn[r] \in Txn /\ txn \in [DOMAIN Asked -> Txn]
        /\ kept = [q \in DOMAIN Asked |-> kept[q]]
    BY DEF NumbersIInv, NumbersShape
  <2>3. writes \subseteq RefItems(r) \cup {s} /\ writes \in SUBSET Named
    BY ItemsFacts DEF Named
  <2>4. DOMAIN kept[r] = {} /\ txn[r].seq \in Nat
    BY <1>4, <2>2 DEF ValidNumbers, Txn
  <2>5. /\ DOMAIN numbers # {} => DOMAIN numbers = RefItems(r)
        /\ \A x \in DOMAIN numbers : numbers[x] = txn[r].seq + Place(r, x)
    BY <2>4, Numbering
  <2>6. DOMAIN numbers # {} => s \in writes
    BY <2>4
  <2>7. s \in writes => s \notin Unwritable(r)
    BY <1>4
  <2> HIDE DEF numbers, writes
  <2>8. /\ txn' \in [DOMAIN Asked -> Txn] /\ txn'[r].phase = "written" /\ txn'[r].writes = writes
        /\ txn'[r].seq = txn[r].seq /\ \A q \in DOMAIN Asked \ {r} : txn'[q] = txn[q]
    BY <2>1, <2>2, <2>3 DEF Txn
  <2>9. kept'[r] = numbers /\ kept' = [q \in DOMAIN Asked |-> kept'[q]]
        /\ \A q \in DOMAIN Asked \ {r} : kept'[q] = kept[q]
    BY <2>1, <2>2
  <2>10. Works(r)
    BY <1>1, <2>1, <2>8, <2>9 DEF Works
  <2>11. s \in writes => txn[r].seq = counter[s]
    BY <1>1, <2>7 DEF NumbersIInv, CreateOK, Unwritable
  <2>12. CreateOK(r)'
    BY <2>1, <2>3, <2>5, <2>6, <2>8, <2>9, <2>11 DEF CreateOK, Counts, HasWritten
  <2>13. Counts(r)' => \A q \in DOMAIN Asked \ {r} : HasWritten(q) => s \notin txn[q].writes
    BY <2>7, <2>8 DEF Counts, HasWritten, Unwritable
  <2> QED
    BY <2>10, <2>12, <2>13, WorksStep
<1> QED
  BY <1>2, <1>3, <1>4

LEMMA DeleteRecordsStep ==
  ASSUME NumbersIInv, NEW r \in DOMAIN Asked, Delete(r)
  PROVE  NumbersIInv'
<1> DEFINE writes == txn[r].snap \ Remaining(r)
<1>1. txn[r].phase = "open" /\ ~Creates(r)
  BY DEF Delete, Creates
<1>2. CASE writes = {}
  <2>1. Fail(r)
    BY <1>2 DEF Delete
  <2> QED
    BY <1>1, <2>1, FailStep
<1>3. CASE writes # {} /\ writes \cap Unwritable(r) # {}
  <2>1. RunAgain(r) /\ UNCHANGED kept
    BY <1>3 DEF Delete
  <2> QED
    BY <1>1, <2>1, RunAgainStep
<1>4. CASE writes # {} /\ writes \cap Unwritable(r) = {}
  <2>1. /\ txn' = [txn EXCEPT ![r].phase = "written", ![r].writes = writes]
        /\ UNCHANGED <<live, counter, number, kept, gone>>
    BY <1>4 DEF Delete
  <2>2. txn[r] \in Txn /\ txn \in [DOMAIN Asked -> Txn] /\ kept = [q \in DOMAIN Asked |-> kept[q]]
    BY DEF NumbersIInv, NumbersShape
  <2>3. writes \in SUBSET Named
    BY <2>2 DEF Txn, Named
  <2> HIDE DEF writes
  <2>4. /\ txn' \in [DOMAIN Asked -> Txn] /\ txn'[r].phase = "written"
        /\ \A q \in DOMAIN Asked \ {r} : txn'[q] = txn[q]
    BY <2>1, <2>2, <2>3 DEF Txn
  <2>5. Works(r)
    BY <1>1, <2>1, <2>2, <2>4 DEF Works
  <2>6. CreateOK(r)' /\ ~HasWritten(r)'
    BY <1>1, <2>4 DEF CreateOK, HasWritten
  <2> QED
    BY <2>5, <2>6, WorksStep
<1> QED
  BY <1>2, <1>3, <1>4

(* A commit ends one transaction, and tells the others what they missed.     *)
LEMMA MissedFacts ==
  ASSUME NumbersShape, NEW r \in DOMAIN Asked, txn' = Missed(r)
  PROVE  /\ txn' \in [DOMAIN Asked -> Txn] /\ txn'[r].phase = "done"
         /\ \A q \in DOMAIN Asked \ {r} :
              /\ txn'[q].phase = txn[q].phase /\ txn'[q].seq = txn[q].seq /\ txn'[q].writes = txn[q].writes
              /\ txn[q].missed \subseteq txn'[q].missed
              /\ txn[q].phase = "open" => txn[r].writes \subseteq txn'[q].missed
<1>1. \A q \in DOMAIN Asked : txn[q] \in Txn
  BY DEF NumbersShape
<1>2. txn'[r] = [txn[r] EXCEPT !.phase = "done"]
  BY DEF Missed
<1>3. txn'[r] \in Txn /\ txn'[r].phase = "done"
  BY <1>1, <1>2 DEF Txn
<1>4. ASSUME NEW q \in DOMAIN Asked \ {r}
      PROVE  /\ txn'[q] \in Txn
             /\ txn'[q].phase = txn[q].phase /\ txn'[q].seq = txn[q].seq /\ txn'[q].writes = txn[q].writes
             /\ txn[q].missed \subseteq txn'[q].missed
             /\ txn[q].phase = "open" => txn[r].writes \subseteq txn'[q].missed
  <2>1. txn[q] \in Txn /\ txn[r] \in Txn
    BY <1>1
  <2>2. txn'[q] = IF txn[q].phase \in {"open", "written"}
                  THEN [txn[q] EXCEPT !.missed = txn[q].missed \cup txn[r].writes] ELSE txn[q]
    BY DEF Missed
  <2> QED
    BY <2>1, <2>2 DEF Txn
<1>5. txn' = [q \in DOMAIN Asked |-> txn'[q]]
  BY DEF Missed
<1> QED
  BY <1>3, <1>4, <1>5

(* What is counted and numbered when a create commits.                       *)
LEMMA CommitNumbers ==
  ASSUME NumbersIInv, NEW r \in DOMAIN Asked, CommitCreate(r)
  PROVE  /\ DOMAIN number' = DOMAIN number \cup DOMAIN kept[r]
         /\ \A x \in DOMAIN number : number'[x] = number[x]
         /\ \A x \in DOMAIN kept[r] :
              /\ x \in RefItems(r) /\ SchemaOf[x] = SchemaAsked(r)
              /\ number'[x] = counter[SchemaAsked(r)] + Place(r, x)
         /\ DOMAIN kept[r] # {} => DOMAIN kept[r] = RefItems(r) /\ Counts(r)
         /\ counter' \in [Schemas -> Nat]
         /\ \A u \in Schemas : u # SchemaAsked(r) \/ ~Counts(r) => counter'[u] = counter[u]
         /\ DOMAIN kept[r] = {} => counter'[SchemaAsked(r)] = counter[SchemaAsked(r)]
         /\ DOMAIN kept[r] # {} =>
              counter'[SchemaAsked(r)] = counter[SchemaAsked(r)] + Len(Asked[r].items)
<1> DEFINE s == SchemaAsked(r)
           K == kept[r]
           W == txn[r].writes
           n == Cardinality(DOMAIN K)
<1>1. /\ HasWritten(r) /\ Creates(r)
      /\ number' = Overlay(K, number)
      /\ counter' = [u \in Schemas |-> IF u \in W THEN txn[r].seq + n ELSE counter[u]]
  BY DEF CommitCreate, HasWritten
<1>2. /\ W \subseteq RefItems(r) \cup {s}
      /\ DOMAIN K # {} => DOMAIN K = RefItems(r) /\ s \in W
      /\ s \in W => txn[r].seq = counter[s]
      /\ \A x \in DOMAIN K : K[x] = txn[r].seq + Place(r, x)
  BY <1>1 DEF NumbersIInv, CreateOK, Counts
<1>3. counter \in [Schemas -> Nat] /\ s \in Schemas
  BY ItemsFacts DEF NumbersIInv, NumbersShape
<1>4. \A x \in DOMAIN number : x \notin DOMAIN K
  <2>1. SUFFICES ASSUME NEW x \in DOMAIN number, x \in RefItems(r) PROVE FALSE
    BY <1>2
  <2>2. PICK q \in DOMAIN Asked : Creates(q) /\ txn[q].phase = "done" /\ x \in RefItems(q)
    BY DEF NumbersIInv, NumberedByCreate
  <2>3. q # r
    BY <1>1, <2>2 DEF HasWritten
  <2> QED
    BY <1>1, <2>1, <2>2, <2>3, FreshAssumption
<1>5. DOMAIN number' = DOMAIN number \cup DOMAIN K /\ \A x \in DOMAIN number : number'[x] = number[x]
  BY <1>1, <1>4 DEF Overlay
<1>6. \A x \in DOMAIN K : number'[x] = K[x]
  BY <1>1 DEF Overlay
<1>7. n \in Nat /\ (DOMAIN K = {} => n = 0) /\ (DOMAIN K # {} => n = Len(Asked[r].items))
  <2>1. DOMAIN K = {} => n = 0
    BY FS_EmptySet
  <2>2. DOMAIN K # {} => n = Len(Asked[r].items)
    BY <1>1, <1>2, ItemsCount
  <2> QED
    BY <2>1, <2>2, ItemsFacts
<1>8. \A u \in Schemas : u \in W => u = s
  BY <1>2, ItemsFacts, ReferencesAssumption DEF Schemas
<1> HIDE DEF n
<1>9. \A u \in Schemas : counter'[u] = IF u = s /\ s \in W THEN counter[s] + n ELSE counter[u]
  BY <1>1, <1>2, <1>8
<1>10. counter' \in [Schemas -> Nat]
  <2>1. \A u \in Schemas : counter'[u] \in Nat
    BY <1>3, <1>7, <1>9
  <2> QED
    BY <1>1, <2>1
<1>11. \A x \in DOMAIN K : x \in RefItems(r) /\ SchemaOf[x] = s /\ number'[x] = counter[s] + Place(r, x)
  BY <1>2, <1>6, ItemsFacts
<1>12. /\ \A u \in Schemas : u # s \/ s \notin W => counter'[u] = counter[u]
       /\ DOMAIN K = {} => counter'[s] = counter[s]
       /\ DOMAIN K # {} => counter'[s] = counter[s] + Len(Asked[r].items)
  BY <1>2, <1>3, <1>7, <1>9
<1> QED
  BY <1>2, <1>5, <1>10, <1>11, <1>12 DEF Counts

LEMMA CommitMatch ==
  ASSUME NumbersIInv, NEW r \in DOMAIN Asked, CommitCreate(r)
  PROVE  NumbersMatch'
<1> DEFINE s == SchemaAsked(r)
           K == kept[r]
           c == counter[s]
           n == Len(Asked[r].items)
<1>1. Creates(r) /\ s \in Schemas /\ counter \in [Schemas -> Nat] /\ n \in Nat
  BY ItemsFacts DEF CommitCreate, NumbersIInv, NumbersShape
<1>2. /\ \A x \in DOMAIN number : number[x] \in 1..counter[SchemaOf[x]]
      /\ \A x, y \in DOMAIN number : SchemaOf[x] = SchemaOf[y] /\ number[x] = number[y] => x = y
      /\ \A u \in Schemas : \A i \in 1..counter[u] : \E x \in DOMAIN number : SchemaOf[x] = u /\ number[x] = i
      /\ DOMAIN number \subseteq Ids
  BY DEF NumbersIInv, NumbersMatch, NumbersShape
<1>3. \A x \in DOMAIN number : SchemaOf[x] \in Schemas
  BY <1>2, ReferencesAssumption DEF Schemas, Range
<1>4. /\ DOMAIN number' = DOMAIN number \cup DOMAIN K
      /\ \A x \in DOMAIN number : number'[x] = number[x]
      /\ \A u \in Schemas : u # s => counter'[u] = counter[u]
      /\ DOMAIN K = {} => counter'[s] = c
  BY CommitNumbers
<1>5. CASE DOMAIN K = {}
  <2>1. \A u \in Schemas : counter'[u] = counter[u]
    BY <1>4, <1>5
  <2> QED
    BY <1>2, <1>3, <1>4, <1>5, <2>1 DEF NumbersMatch
<1>6. CASE DOMAIN K # {}
  <2>1. /\ DOMAIN K = RefItems(r) /\ counter'[s] = c + n
        /\ \A x \in DOMAIN K : SchemaOf[x] = s /\ number'[x] = c + Place(r, x)
    BY <1>6, CommitNumbers
  <2>2. /\ \A x \in DOMAIN K : Place(r, x) \in 1..n
        /\ \A x, y \in DOMAIN K : Place(r, x) = Place(r, y) => x = y
        /\ \A i \in 1..n : Asked[r].items[i] \in DOMAIN K /\ Place(r, Asked[r].items[i]) = i
    BY <1>1, <2>1, ItemsFacts, ItemsCount
  <2> HIDE DEF s, K, c, n
  <2>3. \A x \in DOMAIN number' : number'[x] \in 1..counter'[SchemaOf[x]]
    <3>1. ASSUME NEW x \in DOMAIN number
          PROVE  number'[x] \in 1..counter'[SchemaOf[x]]
      <4>1. number'[x] = number[x] /\ number[x] \in 1..counter[SchemaOf[x]] /\ SchemaOf[x] \in Schemas
        BY <1>2, <1>3, <1>4
      <4>2. counter[SchemaOf[x]] \in Nat /\ counter'[SchemaOf[x]] \in Nat /\ counter[SchemaOf[x]] <= counter'[SchemaOf[x]]
        BY <1>1, <1>4, <2>1, <4>1 DEF c
      <4> QED
        BY <4>1, <4>2
    <3>2. ASSUME NEW x \in DOMAIN K
          PROVE  number'[x] \in 1..counter'[SchemaOf[x]]
      BY <1>1, <2>1, <2>2 DEF c
    <3> QED
      BY <1>4, <3>1, <3>2
  <2>4. \A x, y \in DOMAIN number' : SchemaOf[x] = SchemaOf[y] /\ number'[x] = number'[y] => x = y
    <3>1. ASSUME NEW x \in DOMAIN number, NEW y \in DOMAIN K, SchemaOf[x] = SchemaOf[y]
          PROVE  number'[x] # number'[y]
      <4>1. number'[x] \in 1..c
        BY <1>2, <1>4, <2>1, <3>1 DEF c
      <4>2. number'[y] = c + Place(r, y) /\ Place(r, y) \in 1..n /\ c \in Nat
        BY <1>1, <2>1, <2>2 DEF c
      <4> QED
        BY <1>1, <4>1, <4>2
    <3>2. ASSUME NEW x \in DOMAIN K, NEW y \in DOMAIN K, number'[x] = number'[y]
          PROVE  x = y
      <4>1. number'[x] = c + Place(r, x) /\ number'[y] = c + Place(r, y) /\ c \in Nat
            /\ Place(r, x) \in 1..n /\ Place(r, y) \in 1..n
        BY <1>1, <2>1, <2>2 DEF c
      <4>2. Place(r, x) = Place(r, y)
        <5> DEFINE i == Place(r, x)
                   j == Place(r, y)
        <5>1. i \in Nat /\ j \in Nat /\ c \in Nat
          BY <1>1, <4>1
        <5>2. c + i = c + j
          BY <3>2, <4>1
        <5> HIDE DEF i, j
        <5>3. i = j
          BY <5>1, <5>2
        <5> QED
          BY <5>3 DEF i, j
      <4> QED
        BY <2>2, <4>2
    <3> QED
      BY <1>2, <1>4, <3>1, <3>2
  <2>5. \A u \in Schemas : \A i \in 1..counter'[u] : \E x \in DOMAIN number' : SchemaOf[x] = u /\ number'[x] = i
    <3>1. ASSUME NEW u \in Schemas, NEW i \in 1..counter[u]
          PROVE  \E x \in DOMAIN number' : SchemaOf[x] = u /\ number'[x] = i
      BY <1>2, <1>4
    <3>2. ASSUME NEW i \in 1..(c + n), i \notin 1..c
          PROVE  \E x \in DOMAIN number' : SchemaOf[x] = s /\ number'[x] = i
      <4>1. c \in Nat /\ i - c \in 1..n
        BY <1>1, <3>2 DEF c
      <4>2. PICK x \in DOMAIN K : Place(r, x) = i - c
        BY <2>2, <4>1
      <4>3. SchemaOf[x] = s /\ number'[x] = c + (i - c)
        BY <2>1, <4>2
      <4> QED
        BY <1>4, <4>1, <4>3
    <3> QED
      BY <1>4, <2>1, <3>1, <3>2 DEF c
  <2> QED
    BY <2>3, <2>4, <2>5 DEF NumbersMatch
<1> QED
  BY <1>5, <1>6

LEMMA CommitCreateStep ==
  ASSUME NumbersIInv, NEW r \in DOMAIN Asked, CommitCreate(r)
  PROVE  NumbersIInv'
<1> DEFINE s == SchemaAsked(r)
<1>1. NumbersShape /\ HasWritten(r) /\ Creates(r) /\ txn' = Missed(r) /\ UNCHANGED kept
      /\ live' = live \cup RefItems(r)
  BY DEF CommitCreate, HasWritten, NumbersIInv
<1>2. /\ txn' \in [DOMAIN Asked -> Txn] /\ txn'[r].phase = "done"
      /\ \A q \in DOMAIN Asked \ {r} :
           /\ txn'[q].phase = txn[q].phase /\ txn'[q].seq = txn[q].seq /\ txn'[q].writes = txn[q].writes
           /\ txn[q].missed \subseteq txn'[q].missed
           /\ txn[q].phase = "open" => txn[r].writes \subseteq txn'[q].missed
  BY <1>1, MissedFacts
<1>3. /\ DOMAIN number' = DOMAIN number \cup DOMAIN kept[r] /\ counter' \in [Schemas -> Nat]
      /\ \A x \in DOMAIN kept[r] : x \in RefItems(r)
      /\ \A u \in Schemas : u # s \/ ~Counts(r) => counter'[u] = counter[u]
  BY CommitNumbers
<1>4. NumbersShape'
  BY <1>1, <1>2, <1>3, ItemsFacts DEF NumbersShape
<1>5. ASSUME NEW q \in DOMAIN Asked
      PROVE  CreateOK(q)'
  <2>1. CASE q = r
    BY <1>2, <2>1 DEF CreateOK, HasWritten
  <2>2. CASE q # r
    <3>1. CreateOK(q) /\ kept'[q] = kept[q] /\ SchemaAsked(q) \in Schemas
      BY <1>1, ItemsFacts DEF NumbersIInv
    <3>2. CASE counter'[SchemaAsked(q)] = counter[SchemaAsked(q)]
      BY <1>2, <2>2, <3>1, <3>2 DEF CreateOK, HasWritten, Counts
    <3>3. CASE SchemaAsked(q) = s /\ Counts(r)
      <4>1. ~(HasWritten(q) /\ Counts(q))
        BY <1>1, <2>2, <3>3 DEF NumbersIInv, OneCounts
      <4>2. txn[q].phase = "open" => s \in txn'[q].missed
        BY <1>2, <2>2, <3>3 DEF Counts
      <4> QED
        BY <1>2, <2>2, <3>1, <3>3, <4>1, <4>2 DEF CreateOK, HasWritten, Counts
    <3> QED
      BY <1>3, <3>1, <3>2, <3>3
  <2> QED
    BY <2>1, <2>2
<1>6. OneCounts'
  <2>1. \A q \in DOMAIN Asked : (HasWritten(q)' => HasWritten(q)) /\ (HasWritten(q)' /\ Counts(q)' => Counts(q))
    BY <1>2 DEF HasWritten, Counts
  <2> QED
    BY <2>1 DEF NumbersIInv, OneCounts
<1>7. NumberedByCreate'
  <2>1. SUFFICES ASSUME NEW x \in DOMAIN number \cup DOMAIN kept[r]
                 PROVE  \E q \in DOMAIN Asked : Creates(q) /\ txn'[q].phase = "done" /\ x \in RefItems(q)
    BY <1>3 DEF NumberedByCreate
  <2>2. CASE x \in DOMAIN kept[r]
    BY <1>1, <1>2, <1>3, <2>2
  <2>3. CASE x \in DOMAIN number
    <3>1. PICK q \in DOMAIN Asked : Creates(q) /\ txn[q].phase = "done" /\ x \in RefItems(q)
      BY <2>3 DEF NumbersIInv, NumberedByCreate
    <3> QED
      BY <1>2, <3>1
  <2> QED
    BY <2>1, <2>2, <2>3
<1>8. NumbersMatch'
  BY CommitMatch
<1> QED
  BY <1>4, <1>5, <1>6, <1>7, <1>8 DEF NumbersIInv

LEMMA CommitDeleteStep ==
  ASSUME NumbersIInv, NEW r \in DOMAIN Asked, CommitDelete(r)
  PROVE  NumbersIInv'
<1>1. NumbersShape /\ ~Creates(r) /\ txn[r].phase = "written" /\ txn' = Missed(r)
      /\ UNCHANGED <<counter, number, kept>> /\ live' \subseteq live
  BY DEF CommitDelete, Creates, NumbersIInv
<1>2. /\ txn' \in [DOMAIN Asked -> Txn] /\ txn'[r].phase = "done"
      /\ \A q \in DOMAIN Asked \ {r} :
           /\ txn'[q].phase = txn[q].phase /\ txn'[q].seq = txn[q].seq /\ txn'[q].writes = txn[q].writes
           /\ txn[q].missed \subseteq txn'[q].missed
  BY <1>1, MissedFacts
<1>3. NumbersShape'
  BY <1>1, <1>2 DEF NumbersShape
<1>4. ASSUME NEW q \in DOMAIN Asked
      PROVE  CreateOK(q)'
  <2>1. CASE q = r
    BY <1>2, <2>1 DEF CreateOK, HasWritten
  <2>2. CASE q # r
    <3>1. CreateOK(q)
      BY DEF NumbersIInv
    <3> QED
      BY <1>1, <1>2, <2>2, <3>1 DEF CreateOK, HasWritten, Counts
  <2> QED
    BY <2>1, <2>2
<1>5. OneCounts'
  <2>1. \A q \in DOMAIN Asked : (HasWritten(q)' => HasWritten(q)) /\ (HasWritten(q)' /\ Counts(q)' => Counts(q))
    BY <1>2 DEF HasWritten, Counts
  <2> QED
    BY <2>1 DEF NumbersIInv, OneCounts
<1>6. NumberedByCreate'
  <2>1. SUFFICES ASSUME NEW x \in DOMAIN number
                 PROVE  \E q \in DOMAIN Asked : Creates(q) /\ txn'[q].phase = "done" /\ x \in RefItems(q)
    BY <1>1 DEF NumberedByCreate
  <2>2. PICK q \in DOMAIN Asked : Creates(q) /\ txn[q].phase = "done" /\ x \in RefItems(q)
    BY DEF NumbersIInv, NumberedByCreate
  <2> QED
    BY <1>2, <2>2
<1>7. NumbersMatch'
  BY <1>1 DEF NumbersIInv, NumbersMatch
<1> QED
  BY <1>3, <1>4, <1>5, <1>6, <1>7 DEF NumbersIInv

LEMMA NumbersInit == RefInit => NumbersIInv
<1> SUFFICES ASSUME RefInit PROVE NumbersIInv
  OBVIOUS
<1>1. NoTxn \in Txn /\ NoTxn.phase = "new"
  BY DEF NoTxn, Txn
<1> HIDE DEF NoTxn
<1>2. NumbersShape /\ DOMAIN number = {} /\ \A u \in Schemas : counter[u] = 0
  BY <1>1, ReferencesAssumption DEF RefInit, NumbersShape
<1>3. \A r \in DOMAIN Asked : txn[r].phase = "new"
  BY <1>1 DEF RefInit
<1>4. (\A r \in DOMAIN Asked : CreateOK(r)) /\ OneCounts
  BY <1>3 DEF CreateOK, OneCounts, HasWritten
<1>5. NumberedByCreate /\ NumbersMatch
  BY <1>2 DEF NumberedByCreate, NumbersMatch
<1> QED
  BY <1>2, <1>4, <1>5 DEF NumbersIInv

LEMMA NumbersStep == NumbersIInv /\ [RefNext]_refVars => NumbersIInv'
<1> SUFFICES ASSUME NumbersIInv, [RefNext]_refVars PROVE NumbersIInv'
  OBVIOUS
<1>1. ASSUME NEW r \in DOMAIN Asked, Transient(r)
      PROVE  NumbersIInv'
  BY <1>1, RunAgainStep DEF Transient
<1>2. CASE UNCHANGED refVars
  <2>1. UNCHANGED <<live, counter, number, txn, kept>>
    BY <1>2 DEF refVars
  <2> QED
    BY <2>1 DEF NumbersIInv, NumbersShape, CreateOK, OneCounts, NumberedByCreate, NumbersMatch, HasWritten, Counts
<1> QED
  BY <1>1, <1>2, BeginWorkStep, CreateRecordsStep, CommitCreateStep, DeleteRecordsStep, CommitDeleteStep DEF RefNext

(* A number is given to one record of a container, and the counter tells how *)
(* many were given, however many creates run at once, or again: one that has *)
(* written the counter keeps every other from writing it, and one that read  *)
(* it before can no longer write.                                            *)
THEOREM RecordReferencesNumbers == RefSpec => []NumbersOnce
<1>1. RefInit => NumbersIInv
  BY NumbersInit
<1>2. NumbersIInv /\ [RefNext]_refVars => NumbersIInv'
  BY NumbersStep
<1>3. NumbersIInv => NumbersOnce
  BY NumbersAreOnce DEF NumbersIInv
<1> QED
  BY <1>1, <1>2, <1>3, PTL DEF RefSpec

-----------------------------------------------------------------------------
(* Deletions. A set of numbers has a least one, so what holds of 0 and is    *)
(* handed on holds of all: the induction over the items of a request.        *)
LEMMA LeastNumber ==
  ASSUME NEW T, T \subseteq Nat, T # {}
  PROVE  \E m \in T : \A k \in T : m <= k
<1>1. IsWellFoundedOn(OpToRel(<, Nat), Nat)
  BY NatLessThanWellFounded
<1>2. PICK x \in T : \A y \in T : ~ (<<y, x>> \in OpToRel(<, Nat))
  BY <1>1, WFMin
<1>3. \A y \in T : ~ (y < x)
  BY <1>2 DEF OpToRel
<1> QED
  BY <1>3

LEMMA HandedOn ==
  ASSUME NEW S, S \subseteq Nat, 0 \in S, \A n \in Nat : n \in S => n + 1 \in S
  PROVE  S = Nat
<1> SUFFICES ASSUME Nat \ S # {} PROVE FALSE
  OBVIOUS
<1>1. PICK m \in Nat \ S : \A k \in Nat \ S : m <= k
  BY LeastNumber
<1>2. m # 0 /\ m - 1 \in Nat /\ m - 1 \in S
  BY <1>1
<1> QED
  BY <1>2

(* What is left after each of the items, as the recursion says.              *)
IsLeft(f, k, S, items) ==
  f = [i \in 0..k |-> IF i = 0 THEN S ELSE DeleteOne(f[i - 1], items[i])]

LEMMA LeftExists ==
  ASSUME NEW S, NEW items, NEW n \in Nat
  PROVE  \E f : IsLeft(f, n, S, items)
<1> DEFINE T == {k \in Nat : \E f : IsLeft(f, k, S, items)}
<1>1. 0 \in T
  <2>1. IsLeft([i \in 0..0 |-> S], 0, S, items)
    BY DEF IsLeft
  <2> QED
    BY <2>1
<1>2. ASSUME NEW k \in Nat, k \in T
      PROVE  k + 1 \in T
  <2>1. PICK f : IsLeft(f, k, S, items)
    BY <1>2
  <2> DEFINE g == [i \in 0..(k + 1) |-> IF i = k + 1 THEN DeleteOne(f[k], items[k + 1]) ELSE f[i]]
  <2>2. ASSUME NEW i \in 0..(k + 1)
        PROVE  g[i] = IF i = 0 THEN S ELSE DeleteOne(g[i - 1], items[i])
    <3>1. CASE i = k + 1
      <4>1. g[i] = DeleteOne(f[k], items[k + 1]) /\ g[i - 1] = f[k] /\ i # 0
        BY <3>1
      <4> QED
        BY <3>1, <4>1
    <3>2. CASE i # k + 1
      <4>1. i \in 0..k /\ g[i] = f[i] /\ (i # 0 => g[i - 1] = f[i - 1])
        BY <3>2
      <4>2. f[i] = IF i = 0 THEN S ELSE DeleteOne(f[i - 1], items[i])
        BY <2>1, <4>1 DEF IsLeft
      <4> QED
        BY <4>1, <4>2
    <3> QED
      BY <3>1, <3>2
  <2>3. IsLeft(g, k + 1, S, items)
    BY <2>2 DEF IsLeft
  <2> QED
    BY <2>3
<1> HIDE DEF T
<1>3. T = Nat
  BY <1>1, <1>2, HandedOn DEF T
<1> QED
  BY <1>3 DEF T

(* Nothing is added; and an item that is gone is referred to by none of what *)
(* is left: the records that were, were deleted by force with it, and none of*)
(* them is itself an item, since all items are of one container.             *)
LEMMA RemainingFacts ==
  ASSUME NEW S, NEW items \in Seq(Ids), \A x, y \in Range(items) : SchemaOf[x] = SchemaOf[y]
  PROVE  /\ RemainingOf(S, items) \subseteq S
         /\ \A x \in S \ RemainingOf(S, items) : x \in Range(items) => Referring(RemainingOf(S, items), x) = {}
<1> DEFINE n == Len(items)
           left == CHOOSE f : f = [i \in 0..n |-> IF i = 0 THEN S ELSE DeleteOne(f[i - 1], items[i])]
           LeftAs(i) == /\ left[i] \subseteq S
                       /\ \A x \in S \ left[i] : x \in Range(items) => Referring(left[i], x) = {}
           T == {i \in Nat : i <= n => LeftAs(i)}
<1>1. n \in Nat
  OBVIOUS
<1>2. RemainingOf(S, items) = left[n]
  BY DEF RemainingOf
<1> HIDE DEF n
<1>3. left = [i \in 0..n |-> IF i = 0 THEN S ELSE DeleteOne(left[i - 1], items[i])]
  <2>1. PICK f : IsLeft(f, n, S, items)
    BY <1>1, LeftExists
  <2>2. f = [i \in 0..n |-> IF i = 0 THEN S ELSE DeleteOne(f[i - 1], items[i])]
    BY <2>1 DEF IsLeft
  <2> QED
    BY <2>2, Zenon
<1> HIDE DEF left
<1>4. 0 \in T
  <2>1. left[0] = S
    BY <1>1, <1>3
  <2> QED
    BY <2>1
<1>5. ASSUME NEW i \in Nat, i \in T
      PROVE  i + 1 \in T
  <2> SUFFICES ASSUME i + 1 <= n PROVE LeftAs(i + 1)
    OBVIOUS
  <2>1. LeftAs(i)
    BY <1>1, <1>5
  <2>2. left[i + 1] = DeleteOne(left[i], items[i + 1])
    BY <1>1, <1>3
  <2>3. i + 1 \in DOMAIN items /\ items[i + 1] \in Range(items)
    BY <1>1 DEF n, Range
  <2>4. PICK z : z = items[i + 1]
    OBVIOUS
  <2>5. CASE left[i + 1] = left[i]
    BY <2>1, <2>5
  <2>6. CASE left[i + 1] = left[i] \ ({z} \cup ForceDeleteReferences(left[i], z)) /\ EnsureDeleteReferences(left[i], z)
    <3>1. left[i + 1] \subseteq left[i]
      BY <2>6
    <3>2. ASSUME NEW x \in S \ left[i + 1], x \in Range(items)
          PROVE  Referring(left[i + 1], x) = {}
      <4>1. CASE x \notin left[i]
        BY <2>1, <3>1, <3>2, <4>1 DEF Referring
      <4>2. CASE x = z
        BY <2>6, <4>2 DEF Referring, ForceDeleteReferences, EnsureDeleteReferences
      <4>3. CASE x \in left[i] /\ x # z
        <5>1. x \in ForceDeleteReferences(left[i], z)
          BY <2>6, <3>2, <4>3
        <5>2. SchemaOf[x] # SchemaOf[z]
          BY <5>1 DEF ForceDeleteReferences, Referring
        <5> QED
          BY <2>3, <2>4, <3>2, <5>2
      <4> QED
        BY <4>1, <4>2, <4>3
    <3> QED
      BY <2>1, <3>1, <3>2
  <2> QED
    BY <2>2, <2>4, <2>5, <2>6 DEF DeleteOne
<1> HIDE DEF T
<1>6. T = Nat
  BY <1>4, <1>5, HandedOn DEF T
<1>7. LeftAs(n)
  <2> HIDE DEF LeftAs
  <2>1. n \in T
    BY <1>1, <1>6
  <2> QED
    BY <1>1, <2>1 DEF T
<1> QED
  BY <1>2, <1>7

(* A delete writes what its items took away from its snapshot; what a delete *)
(* that is done was asked to remove was free in what it left.                *)
Deletes(r) == Asked[r].op \in {"delete", "deleteMany"}

FreeIInv ==
  /\ txn \in [DOMAIN Asked -> Txn]
  /\ \A r \in DOMAIN Asked : Deletes(r) /\ txn[r].phase = "written" => txn[r].writes = txn[r].snap \ Remaining(r)
  /\ \A x \in DOMAIN gone : ~gone[x].forced => Referring(gone[x].saw, x) = {}

\* A transaction that has written keeps its snapshot and its writes.
WritesLast(r) ==
  Deletes(r) /\ txn'[r].phase = "written" =>
    \/ txn'[r].writes = txn'[r].snap \ RemainingOf(txn'[r].snap, Asked[r].items)
    \/ txn[r].phase = "written" /\ txn'[r].writes = txn[r].writes /\ txn'[r].snap = txn[r].snap

LEMMA SnapshotsKept ==
  ASSUME FreeIInv, gone' = gone, txn' \in [DOMAIN Asked -> Txn], \A r \in DOMAIN Asked : WritesLast(r)
  PROVE  FreeIInv'
<1>1. ASSUME NEW r \in DOMAIN Asked, Deletes(r), txn'[r].phase = "written"
      PROVE  txn'[r].writes = txn'[r].snap \ RemainingOf(txn'[r].snap, Asked[r].items)
  <2>1. CASE txn[r].phase = "written" /\ txn'[r].writes = txn[r].writes /\ txn'[r].snap = txn[r].snap
    <3>1. txn[r].writes = txn[r].snap \ RemainingOf(txn[r].snap, Asked[r].items)
      BY <1>1, <2>1 DEF FreeIInv, Remaining
    <3> QED
      BY <2>1, <3>1
  <2> QED
    BY <1>1, <2>1 DEF WritesLast
<1>2. \A r \in DOMAIN Asked : Deletes(r)' /\ txn'[r].phase = "written" => (txn[r].writes = txn[r].snap \ Remaining(r))'
  BY <1>1 DEF Remaining, Deletes
<1>3. (\A x \in DOMAIN gone : ~gone[x].forced => Referring(gone[x].saw, x) = {})'
  BY DEF FreeIInv
<1> QED
  BY <1>2, <1>3 DEF FreeIInv

LEMMA FreeStep ==
  ASSUME FreeIInv, NumbersIInv, [RefNext]_refVars
  PROVE  FreeIInv'
<1>1. txn \in [DOMAIN Asked -> Txn] /\ txn' \in [DOMAIN Asked -> Txn]
  BY NumbersStep DEF FreeIInv, NumbersIInv, NumbersShape
<1>2. ASSUME NEW r \in DOMAIN Asked, BeginWork(r) \/ Fail(r) \/ RunAgain(r)
      PROVE  FreeIInv'
  <2>1. gone' = gone
    BY <1>2 DEF BeginWork, Fail, RunAgain
  <2>2. txn'[r].phase # "written" /\ \A q \in DOMAIN Asked \ {r} : txn'[q] = txn[q]
    BY <1>1, <1>2 DEF BeginWork, Fail, RunAgain, Txn
  <2> QED
    BY <1>1, <2>1, <2>2, SnapshotsKept DEF WritesLast
<1>3. ASSUME NEW r \in DOMAIN Asked, Create(r)
      PROVE  FreeIInv'
  <2>1. CASE Fail(r) \/ RunAgain(r)
    BY <1>2, <2>1
  <2>2. CASE ~(Fail(r) \/ RunAgain(r))
    <3>1. PICK w : txn' = [txn EXCEPT ![r].phase = "written", ![r].writes = w] /\ gone' = gone /\ Creates(r)
      BY <1>3, <2>2 DEF Create
    <3>2. (\A q \in DOMAIN Asked \ {r} : txn'[q] = txn[q]) /\ ~Deletes(r)
      BY <1>1, <3>1 DEF Creates, Deletes
    <3> QED
      BY <1>1, <3>1, <3>2, SnapshotsKept DEF WritesLast
  <2> QED
    BY <2>1, <2>2
<1>4. ASSUME NEW r \in DOMAIN Asked, Delete(r)
      PROVE  FreeIInv'
  <2>1. CASE Fail(r) \/ RunAgain(r)
    BY <1>2, <2>1
  <2>2. CASE ~(Fail(r) \/ RunAgain(r))
    <3>1. PICK w : w = txn[r].snap \ RemainingOf(txn[r].snap, Asked[r].items)
      OBVIOUS
    <3>2. txn' = [txn EXCEPT ![r].phase = "written", ![r].writes = w] /\ gone' = gone
      BY <1>4, <2>2, <3>1 DEF Delete, Remaining
    <3>3. /\ \A q \in DOMAIN Asked \ {r} : txn'[q] = txn[q]
          /\ txn'[r].writes = w /\ txn'[r].snap = txn[r].snap
      BY <1>1, <3>2 DEF Txn
    <3>4. txn'[r].writes = txn'[r].snap \ RemainingOf(txn'[r].snap, Asked[r].items)
      BY <3>1, <3>3
    <3> QED
      BY <1>1, <3>2, <3>3, <3>4, SnapshotsKept DEF WritesLast
  <2> QED
    BY <2>1, <2>2
<1>5. \A r \in DOMAIN Asked : txn' = Missed(r) =>
        \A q \in DOMAIN Asked : txn'[q].phase = "written" =>
          txn[q].phase = "written" /\ txn'[q].writes = txn[q].writes /\ txn'[q].snap = txn[q].snap
  BY <1>1 DEF Missed, Txn
<1>6. ASSUME NEW r \in DOMAIN Asked, CommitCreate(r)
      PROVE  FreeIInv'
  <2>1. gone' = gone /\ txn' = Missed(r)
    BY <1>6 DEF CommitCreate
  <2> QED
    BY <1>1, <1>5, <2>1, SnapshotsKept DEF WritesLast
<1>7. ASSUME NEW r \in DOMAIN Asked, CommitDelete(r)
      PROVE  FreeIInv'
  <2>1. PICK saw : saw = RemainingOf(txn[r].snap, Asked[r].items)
    OBVIOUS
  <2>2. /\ txn' = Missed(r) /\ txn[r].writes = txn[r].snap \ saw
        /\ gone' = Overlay([x \in txn[r].writes |-> [forced |-> x \notin RefItems(r), saw |-> saw]], gone)
    BY <1>7, <2>1 DEF CommitDelete, Remaining, FreeIInv, Deletes
  <2>3. \A x \in txn[r].writes : x \in RefItems(r) => Referring(saw, x) = {}
    BY <2>1, <2>2, RemainingFacts, ReferencesAssumption DEF RefItems
  <2>4. ASSUME NEW x \in DOMAIN gone', ~gone'[x].forced
        PROVE  Referring(gone'[x].saw, x) = {}
    <3>1. CASE x \in txn[r].writes
      <4>1. gone'[x].forced = (x \notin RefItems(r)) /\ gone'[x].saw = saw
        BY <2>2, <3>1 DEF Overlay
      <4>2. x \in RefItems(r)
        BY <2>4, <4>1
      <4> QED
        BY <2>3, <3>1, <4>1, <4>2
    <3>2. CASE x \notin txn[r].writes
      <4>1. x \in DOMAIN gone /\ gone'[x] = gone[x]
        BY <2>2, <3>2 DEF Overlay
      <4> QED
        BY <2>4, <4>1 DEF FreeIInv
    <3> QED
      BY <3>1, <3>2
  <2>5. ASSUME NEW q \in DOMAIN Asked, Deletes(q), txn'[q].phase = "written"
        PROVE  txn'[q].writes = txn'[q].snap \ RemainingOf(txn'[q].snap, Asked[q].items)
    <3>1. txn[q].phase = "written" /\ txn'[q].writes = txn[q].writes /\ txn'[q].snap = txn[q].snap
      BY <1>5, <2>2, <2>5
    <3>2. txn[q].writes = txn[q].snap \ RemainingOf(txn[q].snap, Asked[q].items)
      BY <2>5, <3>1 DEF FreeIInv, Remaining
    <3> QED
      BY <3>1, <3>2
  <2>6. \A q \in DOMAIN Asked : Deletes(q) /\ txn'[q].phase = "written" => (txn[q].writes = txn[q].snap \ Remaining(q))'
    BY <2>5 DEF Remaining
  <2> QED
    BY <1>1, <2>4, <2>6 DEF FreeIInv, Deletes
<1>8. CASE UNCHANGED refVars
  BY <1>1, <1>8, SnapshotsKept DEF WritesLast, refVars
<1>9. \A r \in DOMAIN Asked : Transient(r) => RunAgain(r)
  BY DEF Transient
<1> QED
  BY <1>2, <1>3, <1>4, <1>6, <1>7, <1>8, <1>9 DEF RefNext

(* A record somebody asked to delete was referred to by nothing that is left *)
(* of what the transaction saw: the check before each item, and the forced   *)
(* deletions with it, leave no reference, whatever the other items remove.   *)
THEOREM RecordReferencesFree == RefSpec => []DeletedWasFree
<1>1. RefInit => FreeIInv /\ NumbersIInv
  <2>1. RefInit => \A r \in DOMAIN Asked : txn[r].phase = "new"
    BY DEF RefInit, NoTxn
  <2>2. RefInit => gone = <<>>
    BY DEF RefInit
  <2> QED
    BY <2>1, <2>2, NumbersInit DEF FreeIInv, NumbersIInv, NumbersShape
<1>2. (FreeIInv /\ NumbersIInv) /\ [RefNext]_refVars => (FreeIInv /\ NumbersIInv)'
  BY FreeStep, NumbersStep
<1>3. FreeIInv => DeletedWasFree
  <2> SUFFICES ASSUME FreeIInv, NEW x \in DOMAIN gone, ~gone[x].forced
               PROVE  Referring(live, x) \cap gone[x].saw = {}
    BY DEF DeletedWasFree
  <2>1. Referring(gone[x].saw, x) = {}
    BY DEF FreeIInv
  <2> QED
    BY <2>1 DEF Referring
<1> QED
  BY <1>1, <1>2, <1>3, PTL DEF RefSpec
=============================================================================
