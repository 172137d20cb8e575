---------------------------- MODULE WorkflowProofs ----------------------------
(* Theorems about WorkflowEngine, for any definitions, executions,           *)
(* processors and bounds.                                                    *)
EXTENDS WorkflowEngine, FiniteSetTheorems, SequenceTheorems, WellFoundedInduction, TLAPS

-----------------------------------------------------------------------------
(* Recursion on the natural numbers: a set of numbers has a least one, what  *)
(* holds of 0 and is handed on holds of all, and what is said of one value   *)
(* from the one before it is a function.                                     *)
LEMMA LeastNumber ==
  ASSUME NEW T, T \subseteq Nat, T # {}
  PROVE  \E m \in T : \A k \in T : m <= k
<1>1. IsWellFoundedOn(OpToRel(<, Nat), Nat)
  BY NatLessThanWellFounded
<1>2. PICK x \in T : \A y \in T : ~ (<<y, x>> \in OpToRel(<, Nat))
  BY <1>1, WFMin
<1>3. \A y \in T : ~ (y < x)
  BY <1>2 DEF OpToRel
<1> QED
  BY <1>3

LEMMA HandedOn ==
  ASSUME NEW S, S \subseteq Nat, 0 \in S, \A n \in Nat : n \in S => n + 1 \in S
  PROVE  S = Nat
<1> SUFFICES ASSUME Nat \ S # {} PROVE FALSE
  OBVIOUS
<1>1. PICK m \in Nat \ S : \A k \in Nat \ S : m <= k
  BY LeastNumber
<1>2. m # 0 /\ m - 1 \in Nat /\ m - 1 \in S
  BY <1>1
<1> QED
  BY <1>2

Iterated(f, k, x0, F) == f[0] = x0 /\ \A n \in Nat : n < k => f[n + 1] = F[<<n, f[n]>>]

LEMMA IteratedOnce ==
  ASSUME NEW x0, NEW F, NEW f, NEW g, NEW k \in Nat, NEW l \in Nat, Iterated(f, k, x0, F), Iterated(g, l, x0, F)
  PROVE  \A n \in Nat : n <= k /\ n <= l => f[n] = g[n]
<1> DEFINE T == {n \in Nat : n <= k /\ n <= l => f[n] = g[n]}
<1>1. 0 \in T
  BY DEF Iterated
<1>2. ASSUME NEW n \in Nat, n \in T PROVE n + 1 \in T
  <2> SUFFICES ASSUME n + 1 <= k, n + 1 <= l PROVE f[n + 1] = g[n + 1]
    OBVIOUS
  <2>1. f[n] = g[n]
    BY <1>2
  <2>2. f[n + 1] = F[<<n, f[n]>>] /\ g[n + 1] = F[<<n, g[n]>>]
    BY DEF Iterated
  <2> QED
    BY <2>1, <2>2
<1> HIDE DEF T
<1>3. T = Nat
  BY <1>1, <1>2, HandedOn DEF T
<1> QED
  BY <1>3 DEF T

LEMMA IteratedUpTo ==
  ASSUME NEW S, NEW x0 \in S, NEW F \in [Nat \X S -> S], NEW k \in Nat
  PROVE  \E f \in [0..k -> S] : Iterated(f, k, x0, F)
<1> DEFINE T == {j \in Nat : \E f \in [0..j -> S] : Iterated(f, j, x0, F)}
<1>1. 0 \in T
  <2>1. Iterated([i \in 0..0 |-> x0], 0, x0, F)
    BY DEF Iterated
  <2>2. [i \in 0..0 |-> x0] \in [0..0 -> S]
    OBVIOUS
  <2> QED
    BY <2>1, <2>2
<1>2. ASSUME NEW j \in Nat, j \in T PROVE j + 1 \in T
  <2>1. PICK f \in [0..j -> S] : Iterated(f, j, x0, F)
    BY <1>2
  <2> DEFINE g == [i \in 0..j + 1 |-> IF i = j + 1 THEN F[<<j, f[j]>>] ELSE f[i]]
  <2>2. F[<<j, f[j]>>] \in S
    BY <2>1
  <2>3. g \in [0..j + 1 -> S]
    BY <2>2
  <2>4. \A i \in 0..j : g[i] = f[i]
    OBVIOUS
  <2>5. g[j + 1] = F[<<j, f[j]>>]
    OBVIOUS
  <2> HIDE DEF g
  <2>6. Iterated(g, j + 1, x0, F)
    <3>1. g[0] = x0
      BY <2>1, <2>4 DEF Iterated
    <3>2. ASSUME NEW n \in Nat, n < j + 1 PROVE g[n + 1] = F[<<n, g[n]>>]
      <4>1. CASE n = j
        BY <2>4, <2>5, <4>1
      <4>2. CASE n < j
        <5>1. g[n] = f[n] /\ g[n + 1] = f[n + 1]
          BY <2>4, <4>2
        <5>2. f[n + 1] = F[<<n, f[n]>>]
          BY <2>1, <4>2 DEF Iterated
        <5> QED
          BY <5>1, <5>2
      <4> QED
        BY <3>2, <4>1, <4>2
    <3> QED
      BY <3>1, <3>2 DEF Iterated
  <2> QED
    BY <2>3, <2>6
<1> HIDE DEF T
<1>3. T = Nat
  BY <1>1, <1>2, HandedOn DEF T
<1> QED
  BY <1>3 DEF T

IsIterate(f, S, x0, F) == f \in [Nat -> S] /\ f[0] = x0 /\ \A n \in Nat : f[n + 1] = F[<<n, f[n]>>]

LEMMA Iterates ==
  ASSUME NEW S, NEW x0, NEW F, x0 \in S, F \in [Nat \X S -> S]
  PROVE  \E f : IsIterate(f, S, x0, F)
<1> DEFINE Good(k) == {g \in [0..k -> S] : Iterated(g, k, x0, F)}
           h == [k \in Nat |-> CHOOSE g : g \in Good(k)]
           f == [k \in Nat |-> h[k][k]]
<1>1. ASSUME NEW k \in Nat PROVE h[k] \in [0..k -> S] /\ Iterated(h[k], k, x0, F)
  <2>1. \E g : g \in Good(k)
    BY IteratedUpTo
  <2>2. h[k] \in Good(k)
    BY <2>1
  <2> QED
    BY <2>2
<1> HIDE DEF h, Good
<1>2. f \in [Nat -> S]
  BY <1>1
<1>3. f[0] = x0
  BY <1>1 DEF Iterated
<1>4. ASSUME NEW n \in Nat PROVE f[n + 1] = F[<<n, f[n]>>]
  <2>1. h[n + 1][n] = h[n][n]
    BY <1>1, IteratedOnce
  <2>2. h[n + 1][n + 1] = F[<<n, h[n + 1][n]>>]
    BY <1>1 DEF Iterated
  <2> QED
    BY <2>1, <2>2
<1>5. IsIterate(f, S, x0, F)
  BY <1>2, <1>3, <1>4 DEF IsIterate
<1> QED
  BY <1>5

(* A set of Steps, or of pairs of them, that grows from nothing.             *)
IsGrowth(f, A, Phi) == f \in [Nat -> SUBSET A] /\ f = [n \in Nat |-> IF n = 0 THEN {} ELSE Phi[f[n - 1]]]

LEMMA Grows ==
  ASSUME NEW A, NEW Phi, Phi \in [SUBSET A -> SUBSET A]
  PROVE  \E f : IsGrowth(f, A, Phi)
<1> DEFINE S == SUBSET A
           F == [y \in Nat \X S |-> Phi[y[2]]]
<1>1. F \in [Nat \X S -> S] /\ {} \in S
  OBVIOUS
<1>2. \A y \in Nat \X S : F[y] = Phi[y[2]]
  OBVIOUS
<1>3. S = SUBSET A
  OBVIOUS
<1> HIDE DEF F, S
<1>4. PICK f : IsIterate(f, S, {}, F)
  BY <1>1, Iterates
<1>5. ASSUME NEW n \in Nat
      PROVE  f[n] = IF n = 0 THEN {} ELSE Phi[f[n - 1]]
  <2>1. CASE n = 0
    BY <1>4, <2>1 DEF IsIterate
  <2>2. CASE n # 0
    <3>1. n - 1 \in Nat /\ n = (n - 1) + 1 /\ f[n - 1] \in S
      BY <1>4, <2>2 DEF IsIterate
    <3>2. f[n] = F[<<n - 1, f[n - 1]>>]
      BY <1>4, <3>1 DEF IsIterate
    <3> QED
      BY <1>2, <2>2, <3>1, <3>2
  <2> QED
    BY <2>1, <2>2
<1>6. f = [n \in Nat |-> IF n = 0 THEN {} ELSE Phi[f[n - 1]]]
  BY <1>4, <1>5 DEF IsIterate
<1>7. IsGrowth(f, A, Phi)
  BY <1>3, <1>4, <1>6 DEF IsGrowth, IsIterate
<1> QED
  BY <1>7

-----------------------------------------------------------------------------
(* Walks over the trees of steps.                                            *)

(* What needs no transaction.                                                *)
LEMMA WithoutTransactionIs ==
  /\ withoutTransaction[0] = {}
  /\ \A n \in Nat : withoutTransaction[n + 1] = {x \in Steps \X Modes : NeedsNone(x[1], x[2], withoutTransaction[n])}
<1> DEFINE A == Steps \X Modes
           Phi == [below \in SUBSET A |-> {x \in Steps \X Modes : NeedsNone(x[1], x[2], below)}]
           Is(g) == g = [n \in Nat |-> IF n = 0 THEN {} ELSE {x \in Steps \X Modes : NeedsNone(x[1], x[2], g[n - 1])}]
<1>1. Phi \in [SUBSET A -> SUBSET A]
  OBVIOUS
<1>2. PICK f : IsGrowth(f, A, Phi)
  <2> HIDE DEF A, Phi
  <2> QED
    BY <1>1, Grows
<1>7. f \in [Nat -> SUBSET A] /\ \A n \in Nat : f[n] = IF n = 0 THEN {} ELSE Phi[f[n - 1]]
  <2> HIDE DEF A, Phi
  <2> QED
    BY <1>2 DEF IsGrowth
<1>3. Is(f)
  <2>1. ASSUME NEW n \in Nat, n # 0 PROVE Phi[f[n - 1]] = {x \in Steps \X Modes : NeedsNone(x[1], x[2], f[n - 1])}
    <3>1. f[n - 1] \in SUBSET A
      BY <1>7, <2>1
    <3> QED
      BY <3>1
  <2> HIDE DEF Phi, A
  <2>3. ASSUME NEW n \in Nat PROVE f[n] = IF n = 0 THEN {} ELSE {x \in Steps \X Modes : NeedsNone(x[1], x[2], f[n - 1])}
    BY <1>7, <2>1
  <2>4. f = [n \in Nat |-> f[n]]
    BY <1>7
  <2> QED
    BY <2>3, <2>4, Zenon
<1>4. withoutTransaction = CHOOSE g : Is(g)
  BY DEF withoutTransaction
<1>5. Is(withoutTransaction)
  BY <1>3, <1>4, Zenon
<1>6. ASSUME NEW n \in Nat
      PROVE  withoutTransaction[n + 1] = {x \in Steps \X Modes : NeedsNone(x[1], x[2], withoutTransaction[n])}
  <2>1. n + 1 \in Nat /\ n + 1 # 0 /\ (n + 1) - 1 = n
    OBVIOUS
  <2> QED
    BY <1>5, <2>1
<1> QED
  BY <1>5, <1>6

(* What stays in the database.                                               *)
LEMMA StaysInsideIs ==
  /\ staysInside[0] = {}
  /\ \A n \in Nat : staysInside[n + 1] = {s \in Steps : StaysInside(s, staysInside[n])}
<1> DEFINE A == Steps
           Phi == [below \in SUBSET A |-> {s \in Steps : StaysInside(s, below)}]
           Is(g) == g = [n \in Nat |-> IF n = 0 THEN {} ELSE {s \in Steps : StaysInside(s, g[n - 1])}]
<1>1. Phi \in [SUBSET A -> SUBSET A]
  OBVIOUS
<1>2. PICK f : IsGrowth(f, A, Phi)
  <2> HIDE DEF A, Phi
  <2> QED
    BY <1>1, Grows
<1>7. f \in [Nat -> SUBSET A] /\ \A n \in Nat : f[n] = IF n = 0 THEN {} ELSE Phi[f[n - 1]]
  <2> HIDE DEF A, Phi
  <2> QED
    BY <1>2 DEF IsGrowth
<1>3. Is(f)
  <2>1. ASSUME NEW n \in Nat, n # 0 PROVE Phi[f[n - 1]] = {s \in Steps : StaysInside(s, f[n - 1])}
    <3>1. f[n - 1] \in SUBSET A
      BY <1>7, <2>1
    <3> QED
      BY <3>1
  <2> HIDE DEF Phi, A
  <2>3. ASSUME NEW n \in Nat PROVE f[n] = IF n = 0 THEN {} ELSE {s \in Steps : StaysInside(s, f[n - 1])}
    BY <1>7, <2>1
  <2>4. f = [n \in Nat |-> f[n]]
    BY <1>7
  <2> QED
    BY <2>3, <2>4, Zenon
<1>4. staysInside = CHOOSE g : Is(g)
  BY DEF staysInside
<1>5. Is(staysInside)
  BY <1>3, <1>4, Zenon
<1>6. ASSUME NEW n \in Nat
      PROVE  staysInside[n + 1] = {s \in Steps : StaysInside(s, staysInside[n])}
  <2>1. n + 1 \in Nat /\ n + 1 # 0 /\ (n + 1) - 1 = n
    OBVIOUS
  <2> QED
    BY <1>5, <2>1
<1> QED
  BY <1>5, <1>6

(* What has valid steps below it.                                            *)
ValidOver(below) == {x \in Steps \X Modes : \A list \in Lists(x[1]) : ValidList(list, x[2], below)}

LEMMA ValidStepsIs ==
  /\ validSteps[0] = {}
  /\ \A n \in Nat : validSteps[n + 1] = ValidOver(validSteps[n])
<1> DEFINE A == Steps \X Modes
           Phi == [below \in SUBSET A |-> {x \in Steps \X Modes : \A list \in Lists(x[1]) : ValidList(list, x[2], below)}]
           Is(g) == g = [n \in Nat |-> IF n = 0 THEN {} ELSE {x \in Steps \X Modes : \A list \in Lists(x[1]) : ValidList(list, x[2], g[n - 1])}]
<1>1. Phi \in [SUBSET A -> SUBSET A]
  OBVIOUS
<1>2. PICK f : IsGrowth(f, A, Phi)
  <2> HIDE DEF A, Phi
  <2> QED
    BY <1>1, Grows
<1>7. f \in [Nat -> SUBSET A] /\ \A n \in Nat : f[n] = IF n = 0 THEN {} ELSE Phi[f[n - 1]]
  <2> HIDE DEF A, Phi
  <2> QED
    BY <1>2 DEF IsGrowth
<1>3. Is(f)
  <2>1. ASSUME NEW n \in Nat, n # 0 PROVE Phi[f[n - 1]] = {x \in Steps \X Modes : \A list \in Lists(x[1]) : ValidList(list, x[2], f[n - 1])}
    <3>1. f[n - 1] \in SUBSET A
      BY <1>7, <2>1
    <3> QED
      BY <3>1
  <2> HIDE DEF Phi, A
  <2>3. ASSUME NEW n \in Nat PROVE f[n] = IF n = 0 THEN {} ELSE {x \in Steps \X Modes : \A list \in Lists(x[1]) : ValidList(list, x[2], f[n - 1])}
    BY <1>7, <2>1
  <2>4. f = [n \in Nat |-> f[n]]
    BY <1>7
  <2> QED
    BY <2>3, <2>4, Zenon
<1>4. validSteps = CHOOSE g : Is(g)
  BY DEF validSteps
<1>5. Is(validSteps)
  BY <1>3, <1>4, Zenon
<1>6. ASSUME NEW n \in Nat
      PROVE  validSteps[n + 1] = {x \in Steps \X Modes : \A list \in Lists(x[1]) : ValidList(list, x[2], validSteps[n])}
  <2>1. n + 1 \in Nat /\ n + 1 # 0 /\ (n + 1) - 1 = n
    OBVIOUS
  <2> QED
    BY <1>5, <2>1
<1>8. \A n \in Nat : validSteps[n + 1] = ValidOver(validSteps[n])
  BY <1>6, Zenon DEF ValidOver
<1> QED
  BY <1>5, <1>8

(* The sets grow with the height, so what they ask of the children of a step *)
(* is what they ask of the step.                                             *)
LEMMA WithoutTransactionGrows ==
  \A n \in Nat : withoutTransaction[n] \subseteq withoutTransaction[n + 1]
<1> DEFINE T == {n \in Nat : withoutTransaction[n] \subseteq withoutTransaction[n + 1]}
<1>1. 0 \in T
  BY WithoutTransactionIs
<1>2. ASSUME NEW n \in Nat, n \in T PROVE n + 1 \in T
  <2>1. withoutTransaction[n] \subseteq withoutTransaction[n + 1]
    BY <1>2
  <2>2. withoutTransaction[n + 1] = {x \in Steps \X Modes : NeedsNone(x[1], x[2], withoutTransaction[n])} /\ withoutTransaction[n + 1 + 1] = {x \in Steps \X Modes : NeedsNone(x[1], x[2], withoutTransaction[n + 1])}
    BY WithoutTransactionIs
  <2>3. ASSUME NEW x, x \in withoutTransaction[n + 1] PROVE x \in withoutTransaction[n + 1 + 1]
    BY <2>1, <2>2, <2>3 DEF NeedsNone
  <2> QED
    BY <2>3
<1> HIDE DEF T
<1>3. T = Nat
  BY <1>1, <1>2, HandedOn DEF T
<1> QED
  BY <1>3 DEF T

LEMMA StaysInsideGrows ==
  \A n \in Nat : staysInside[n] \subseteq staysInside[n + 1]
<1> DEFINE T == {n \in Nat : staysInside[n] \subseteq staysInside[n + 1]}
<1>1. 0 \in T
  BY StaysInsideIs
<1>2. ASSUME NEW n \in Nat, n \in T PROVE n + 1 \in T
  <2>1. staysInside[n] \subseteq staysInside[n + 1]
    BY <1>2
  <2>2. staysInside[n + 1] = {s \in Steps : StaysInside(s, staysInside[n])} /\ staysInside[n + 1 + 1] = {s \in Steps : StaysInside(s, staysInside[n + 1])}
    BY StaysInsideIs
  <2>3. ASSUME NEW x, x \in staysInside[n + 1] PROVE x \in staysInside[n + 1 + 1]
    BY <2>1, <2>2, <2>3 DEF StaysInside
  <2> QED
    BY <2>3
<1> HIDE DEF T
<1>3. T = Nat
  BY <1>1, <1>2, HandedOn DEF T
<1> QED
  BY <1>3 DEF T

LEMMA ValidStepsGrows ==
  \A n \in Nat : validSteps[n] \subseteq validSteps[n + 1]
<1> DEFINE T == {n \in Nat : validSteps[n] \subseteq validSteps[n + 1]}
<1>1. 0 \in T
  <2>1. validSteps[0] = {}
    BY ValidStepsIs, Zenon
  <2> QED
    BY <2>1
<1>2. ASSUME NEW n \in Nat, n \in T PROVE n + 1 \in T
  <2>1. validSteps[n] \subseteq validSteps[n + 1]
    BY <1>2
  <2>2. validSteps[n + 1] = ValidOver(validSteps[n]) /\ validSteps[n + 1 + 1] = ValidOver(validSteps[n + 1])
    BY ValidStepsIs
  <2>3. ASSUME NEW x, x \in validSteps[n + 1] PROVE x \in validSteps[n + 1 + 1]
    BY <2>1, <2>2, <2>3 DEF ValidList, ValidOver
  <2> QED
    BY <2>3
<1> HIDE DEF T
<1>3. T = Nat
  BY <1>1, <1>2, HandedOn DEF T
<1> QED
  BY <1>3 DEF T

LEMMA HeightNat == Cardinality(Steps) \in Nat
  BY FS_CardinalityType, WorkflowEngineAssumption

LEMMA WithoutTransactionBelow ==
  ASSUME NEW s, NEW mode, <<s, mode>> \in WithoutTransaction, s.active
  PROVE  /\ ModeOf(s, mode) # OutboxMode /\ ~WritesTransactionally(s)
         /\ \A c \in Children(s) : <<c, mode>> \in WithoutTransaction
<1> DEFINE h == Cardinality(Steps)
<1>1. h \in Nat /\ h # 0
  BY HeightNat, WithoutTransactionIs DEF WithoutTransaction
<1>2. h - 1 \in Nat /\ h = (h - 1) + 1
  BY <1>1
<1> HIDE DEF h
<1>3. WithoutTransaction = withoutTransaction[h]
  BY DEF h, WithoutTransaction
<1>4. WithoutTransaction = {x \in Steps \X Modes : NeedsNone(x[1], x[2], withoutTransaction[h - 1])}
  BY <1>2, <1>3, WithoutTransactionIs
<1>5. withoutTransaction[h - 1] \subseteq WithoutTransaction
  BY <1>2, <1>3, WithoutTransactionGrows
<1>6. NeedsNone(s, mode, withoutTransaction[h - 1])
  BY <1>4
<1> QED
  BY <1>5, <1>6 DEF NeedsNone

LEMMA InsideBelow ==
  ASSUME NEW s, s \in Steps, ~TreeHasExternalEffects(s), s.active
  PROVE  /\ ~External(s) /\ s.type # "execute_workflow"
         /\ \A c \in Children(s) : c \in Steps /\ ~TreeHasExternalEffects(c)
<1> DEFINE h == Cardinality(Steps)
<1>1. s \in staysInside[h]
  BY DEF TreeHasExternalEffects
<1>2. h \in Nat /\ h # 0
  BY <1>1, HeightNat, StaysInsideIs
<1>3. h - 1 \in Nat /\ h = (h - 1) + 1
  BY <1>2
<1>4. \A c : c \in staysInside[h] => c \in Steps /\ ~TreeHasExternalEffects(c)
  BY <1>3, StaysInsideIs DEF TreeHasExternalEffects
<1> HIDE DEF h
<1>5. s \in {x \in Steps : StaysInside(x, staysInside[h - 1])}
  BY <1>1, <1>3, StaysInsideIs
<1>6. staysInside[h - 1] \subseteq staysInside[h]
  BY <1>3, StaysInsideGrows
<1> QED
  BY <1>4, <1>5, <1>6 DEF StaysInside

LEMMA ValidBelow ==
  ASSUME NEW s, NEW mode, <<s, mode>> \in ValidSteps, NEW list \in Lists(s)
  PROVE  ValidList(list, mode, ValidSteps)
<1> DEFINE h == Cardinality(Steps)
<1>1. h \in Nat /\ h # 0
  BY HeightNat, ValidStepsIs DEF ValidSteps
<1>2. h - 1 \in Nat /\ h = (h - 1) + 1
  BY <1>1
<1> HIDE DEF h
<1>3. ValidSteps = validSteps[h]
  BY DEF h, ValidSteps
<1>4. ValidSteps = ValidOver(validSteps[h - 1])
  BY <1>2, <1>3, ValidStepsIs
<1>5. validSteps[h - 1] \subseteq ValidSteps
  BY <1>2, <1>3, ValidStepsGrows
<1>6. ValidList(list, mode, validSteps[h - 1])
  BY <1>4 DEF ValidOver
<1> QED
  BY <1>5, <1>6 DEF ValidList

(* The steps and lists of steps of a definition.                             *)
LEMMA StepShapes ==
  ASSUME NEW s \in Steps
  PROVE  /\ s.id \in STRING /\ s.type \in STRING /\ s.mode \in STRING /\ s.active \in BOOLEAN
         /\ s.continueOnError \in BOOLEAN /\ s.items \in Nat /\ s.target \in STRING
         /\ s.steps \in Seq(Steps) /\ s.elseSteps \in Seq(Steps) /\ s.branches \in Seq(Branch)
<1>1. s \in StepShape
  BY WorkflowEngineAssumption
<1> QED
  BY <1>1 DEF StepShape

LEMMA BranchesAre ==
  ASSUME NEW s \in Steps
  PROVE  /\ Branches(s) \in Seq(Branch)
         /\ \A b \in DOMAIN Branches(s) : /\ b \in Nat \ {0}
                                          /\ Branches(s)[b].steps \in Seq(Steps)
                                          /\ Branches(s)[b].steps \in Lists(s)
<1> DEFINE one == [when |-> s.when, steps |-> s.steps]
           two == [when |-> "always", steps |-> s.elseSteps]
<1>1. s.steps \in Seq(Steps) /\ s.elseSteps \in Seq(Steps) /\ s.branches \in Seq(Branch)
  BY StepShapes
<1>2. one \in Branch /\ two \in Branch
  <2>1. s \in StepShape
    BY WorkflowEngineAssumption
  <2>2. s.when \in Conditions
    BY <2>1 DEF StepShape
  <2>3. \A w \in Conditions, l \in Seq(Steps) : [when |-> w, steps |-> l] \in Branch
    BY DEF Branch
  <2>4. "always" \in Conditions
    BY DEF Conditions
  <2> QED
    BY <1>1, <2>2, <2>3, <2>4
<1>3. one.steps \in Lists(s) /\ two.steps \in Lists(s)
  BY DEF Lists
<1>4. \A b \in Branch : b.steps \in Seq(Steps)
  BY DEF Branch
<1> HIDE DEF one, two
<1>5. CASE s.branches # <<>>
  <2>1. Branches(s) = s.branches
    BY <1>5 DEF Branches
  <2>2. \A b \in DOMAIN s.branches : b \in Nat \ {0} /\ s.branches[b] \in Branch /\ s.branches[b] \in Range(s.branches)
    BY <1>1 DEF Range
  <2>3. \A x \in Range(s.branches) : x.steps \in Lists(s)
    BY DEF Lists
  <2> QED
    BY <1>1, <1>4, <2>1, <2>2, <2>3
<1>6. CASE s.branches = <<>> /\ s.elseSteps = <<>>
  <2>1. Branches(s) = <<one>>
    BY <1>6 DEF Branches, one
  <2> QED
    BY <1>2, <1>3, <1>4, <2>1
<1>7. CASE s.branches = <<>> /\ s.elseSteps # <<>>
  <2>1. Branches(s) = <<one, two>>
    BY <1>7 DEF Branches, one, two
  <2> QED
    BY <1>2, <1>3, <1>4, <2>1
<1> QED
  BY <1>5, <1>6, <1>7

LEMMA ListsAre ==
  ASSUME NEW s \in Steps, NEW list \in Lists(s)
  PROVE  list \in Seq(Steps) /\ Range(list) \subseteq Children(s)
<1>1. s.steps \in Seq(Steps) /\ s.elseSteps \in Seq(Steps) /\ s.branches \in Seq(Branch)
  BY StepShapes
<1>2. \A b \in Branch : b.steps \in Seq(Steps)
  BY DEF Branch
<1>3. Range(s.branches) \subseteq Branch
  BY <1>1 DEF Range
<1> QED
  BY <1>1, <1>2, <1>3 DEF Lists, Children

-----------------------------------------------------------------------------
(* Types: contexts, keys and effects of the steps of a run.                  *)
LEMMA KeyTypes ==
  ASSUME NEW key \in Keys, NEW i \in Nat
  PROVE  /\ LoopKey(key, i) \in Keys /\ BranchKey(key, i) \in Keys
         /\ \A wf \in Scopes, s \in Steps : ScopedKey(key, wf, s, i) \in Keys
<1>1. <<"loop", i>> \in KeyParts /\ <<"branch", i, "name">> \in KeyParts
  BY DEF KeyParts
<1>2. ASSUME NEW wf \in Scopes, NEW s \in Steps PROVE <<"step", i, wf, s.id>> \in KeyParts
  BY StepShapes DEF KeyParts
<1>3. \A part \in KeyParts : Append(key, part) \in Keys
  BY DEF Keys
<1> QED
  BY <1>1, <1>2, <1>3 DEF LoopKey, BranchKey, ScopedKey

Keeps(q, p) ==
  /\ q.wf = p.wf /\ q.mode = p.mode /\ q.exec = p.exec /\ q.stop = p.stop
  /\ q.depth = p.depth /\ q.hops = p.hops /\ q.named = p.named /\ q.fault = p.fault

LEMMA DeeperType ==
  ASSUME NEW p \in Contexts, NEW key \in Keys, NEW item \in Places
  PROVE  /\ Deeper(p, key, item) \in Contexts
         /\ Deeper(p, key, item).path = Append(p.path, item) /\ Deeper(p, key, item).key = key
         /\ Keeps(Deeper(p, key, item), p)
<1>1. Append(p.path, item) \in Paths
  BY DEF Contexts, Paths
<1> QED
  BY <1>1 DEF Deeper, Contexts, Keeps

LEMMA StepEventType ==
  ASSUME NEW p \in Contexts, NEW s \in Steps, s.active
  PROVE  StepEvent(s, p) \in Events
<1>1. p.key \in Keys /\ p.wf \in Scopes /\ p.path \in Paths /\ p.stop \in BOOLEAN /\ p.first \in BOOLEAN /\ p.depth \in Nat /\ p.hops \in Nat
  BY DEF Contexts
<1>2. << <<"event", p.path>> >> \in Keys
  <2>1. <<"event", p.path>> \in KeyParts
    BY <1>1 DEF KeyParts
  <2> QED
    BY <2>1 DEF Keys
<1>3. EventKey(p, s) \in Keys
  BY <1>1, <1>2, KeyTypes DEF EventKey
<1>4. MaxDeliveries \in Nat
  BY WorkflowEngineAssumption
<1> QED
  BY <1>1, <1>3, <1>4 DEF StepEvent, Events

LEMMA OperationType ==
  ASSUME NEW p \in Contexts, NEW st \in Runs, NEW fx \in Seq(Effects)
  PROVE  Operation(p, st, fx) \in Runs
<1> DEFINE hit == p.fault.at = st.ops + 1
           f == IF hit THEN st.fx ELSE fx
           n == st.ops + 1
           e == IF ~hit THEN st.end ELSE IF p.fault.kind = "error" THEN "error" ELSE "stop"
<1>1. f \in Seq(Effects) /\ n \in Nat /\ e \in {"ok", "error", "stop"}
  BY DEF Runs
<1>2. Operation(p, st, fx) = [st EXCEPT !.ops = n, !.fx = f, !.end = e]
  BY DEF Operation
<1> HIDE DEF f, n, e
<1> QED
  BY <1>1, <1>2 DEF Runs

LEMMA EffectType ==
  ASSUME NEW p \in Contexts, NEW op \in {"create", "update", "call"}
  PROVE  Effect(op, p) \in Effects
BY DEF Effect, Effects, Contexts

LEMMA OperationsType ==
  ASSUME NEW p \in Contexts, NEW st \in Runs
  PROVE  /\ CreateRecord(p, st) \in Runs /\ UpdateRecord(p, st) \in Runs
         /\ ReadRecords(p, st) \in Runs /\ CallAPI(p, st) \in Runs /\ Error(st) \in Runs
<1>1. st.fx \in Seq(Effects) /\ \A e \in Effects : Append(st.fx, e) \in Seq(Effects)
  BY DEF Runs
<1>2. CreateRecord(p, st) \in Runs /\ UpdateRecord(p, st) \in Runs /\ ReadRecords(p, st) \in Runs
  BY <1>1, EffectType, OperationType DEF CreateRecord, UpdateRecord, ReadRecords
<1>3. Error(st) \in Runs
  BY DEF Error, Runs
<1>4. CallAPI(p, st) \in Runs
  BY <1>1, <1>3, EffectType, OperationType DEF CallAPI
<1> QED
  BY <1>2, <1>3, <1>4

-----------------------------------------------------------------------------
(* What a run leaves. The effects a call adds come from the steps it takes    *)
(* itself (Makes) and from the calls it makes (Does, SubCall): a bound on     *)
(* them that agrees with both is one on every run.                           *)
Enters(wf, p, y) ==
  /\ ValidateWorkflow(wf) /\ p.depth <= MaxDepth
  /\ \E exec \in {Transactional, OutboxMode} : y = List(Definition[wf].steps, Entered(wf, exec, p), y.st)

Branching(s, p, b) == Deeper(p, BranchKey(p.key, b - 1), <<"branch", b - 1>>)

Does(s, p, y) ==
  \/ /\ s.type = "if"
     /\ \E b \in DOMAIN Branches(s) : y = List(Branches(s)[b].steps, Branching(s, p, b), y.st)
  \/ s.type = "for_each" /\ y = Loop(s, p, y.st)
  \/ /\ s.type = "execute_workflow" /\ s.target \in Names /\ p.depth < MaxDepth
     /\ Enters(s.target, [p EXCEPT !.depth = @ + 1], y)

Makes(s, p, e) ==
  \/ s.type = "create" /\ e = Effect("create", p)
  \/ s.type \in {"update", "audit"} /\ e = Effect("update", p)
  \/ s.type = "call" /\ p.named /\ e = Effect("call", p)

Queued(s, p) == [op |-> "queue", path |-> p.path, key |-> StepEvent(s, p).key, event |-> StepEvent(s, p)]

Fits(r, st, B) == r \in Runs /\ Range(r.fx) \subseteq Range(st.fx) \cup B
Fitting(run, A) == run \in [Calls -> Runs] /\ \A y \in Calls : Fits(run[y], y.st, A[y])

LEMMA FitsOn ==
  ASSUME NEW q, NEW r, NEW st, NEW B, NEW C, Fits(r, st, B), Fits(q, r, C), C \subseteq B
  PROVE  Fits(q, st, B)
BY DEF Fits

LEMMA FitsSame ==
  ASSUME NEW st \in Runs, NEW r \in Runs, NEW B, r.fx = st.fx
  PROVE  Fits(r, st, B)
BY DEF Fits

LEMMA OperationFits ==
  ASSUME NEW p \in Contexts, NEW st \in Runs, NEW q \in Runs, q.fx = st.fx, NEW e \in Effects, NEW B, e \in B
  PROVE  Fits(Operation(p, q, Append(st.fx, e)), st, B)
<1>1. st.fx \in Seq(Effects) /\ Append(st.fx, e) \in Seq(Effects)
  BY DEF Runs
<1>2. Operation(p, q, Append(st.fx, e)) \in Runs
  BY <1>1, OperationType
<1>3. Operation(p, q, Append(st.fx, e)).fx \in {st.fx, Append(st.fx, e)}
  BY DEF Operation, Runs
<1>4. Range(Append(st.fx, e)) \subseteq Range(st.fx) \cup B
  BY <1>1 DEF Range
<1> QED
  BY <1>2, <1>3, <1>4 DEF Fits

LEMMA EnqueueFits ==
  ASSUME NEW p \in Contexts, NEW st \in Runs, NEW s \in Steps, s.active, NEW B, s.type # "emit" => Queued(s, p) \in B
  PROVE  Fits(EnqueueWorkflowStep(s, p, st), st, B)
<1>1. CASE s.type = "emit" \/ st.count = MaxEvents
  <2>1. EnqueueWorkflowStep(s, p, st) = Error(st)
    BY <1>1 DEF EnqueueWorkflowStep
  <2> QED
    BY <2>1, OperationsType, FitsSame DEF Error, Runs
<1>2. CASE ~(s.type = "emit" \/ st.count = MaxEvents)
  <2> DEFINE c == IF st.count = -1 THEN -1 ELSE st.count + 1
             counted == [st EXCEPT !.count = c]
  <2>1. c \in -1..MaxEvents
    BY <1>2, WorkflowEngineAssumption DEF Runs
  <2>2. EnqueueWorkflowStep(s, p, st) = Operation(p, counted, Append(st.fx, Queued(s, p)))
    BY <1>2 DEF EnqueueWorkflowStep, Queued
  <2> HIDE DEF c
  <2>3. counted \in Runs /\ counted.fx = st.fx
    BY <2>1 DEF Runs
  <2>4. Queued(s, p) \in Effects
    BY StepEventType DEF Queued, Effects, Events, Contexts
  <2> HIDE DEF counted
  <2> QED
    BY <1>2, <2>2, <2>3, <2>4, OperationFits
<1> QED
  BY <1>1, <1>2

LEMMA EnteredType ==
  ASSUME NEW wf \in Names, NEW p \in Contexts, NEW exec \in {Transactional, OutboxMode}
  PROVE  Entered(wf, exec, p) \in Contexts
<1>1. Definition[wf] \in Workflow /\ wf \in Scopes
  BY WorkflowEngineAssumption DEF Scopes
<1>2. Definition[wf].mode \in Modes /\ Definition[wf].stopOnError \in BOOLEAN
  BY <1>1 DEF Workflow
<1> QED
  BY <1>1, <1>2 DEF Entered, Contexts

LEMMA ListType ==
  ASSUME NEW steps \in Seq(Steps), NEW p \in Contexts, NEW st \in Runs
  PROVE  /\ List(steps, p, st) \in Calls
         /\ List(steps, p, st).st = st /\ List(steps, p, st).p = p /\ List(steps, p, st).steps = steps
         /\ ~List(steps, p, st).loop /\ List(steps, p, st).i = 0
BY DEF List, Calls

LEMMA PassFits ==
  ASSUME NEW wf \in Names, NEW p \in Contexts, NEW st \in Runs, NEW run, NEW A, Fitting(run, A),
         NEW exec \in {Transactional, OutboxMode}, NEW B,
         ValidateWorkflow(wf), p.depth <= MaxDepth, \A y \in Calls : Enters(wf, p, y) => A[y] \subseteq B
  PROVE  Fits(Pass(wf, exec, p, st, run), st, B)
<1> DEFINE y == List(Definition[wf].steps, Entered(wf, exec, p), st)
<1>1. y \in Calls /\ y.st = st
  <2>1. Definition[wf].steps \in Seq(Steps)
    BY WorkflowEngineAssumption DEF Workflow
  <2> QED
    BY <2>1, EnteredType, ListType
<1>2. Enters(wf, p, y)
  BY <1>1, Zenon DEF Enters
<1> HIDE DEF y
<1>3. Fits(run[y], st, B)
  BY <1>1, <1>2 DEF Fitting, Fits
<1>4. Pass(wf, exec, p, st, run) \in {run[y], st}
  BY DEF Pass, y
<1> QED
  BY <1>3, <1>4, FitsSame

LEMMA CountingType ==
  ASSUME NEW st \in Runs
  PROVE  Counting(st) \in Runs /\ Counting(st).fx = st.fx
<1> DEFINE c == IF st.count = -1 THEN 0 ELSE st.count
<1>1. c \in -1..MaxEvents
  BY WorkflowEngineAssumption DEF Runs
<1>2. Counting(st) = [st EXCEPT !.count = c]
  BY DEF Counting
<1> HIDE DEF c
<1> QED
  BY <1>1, <1>2 DEF Runs

LEMMA RunDefinitionFits ==
  ASSUME NEW wf \in Names, NEW p \in Contexts, NEW st \in Runs, NEW run, NEW A, Fitting(run, A), NEW B,
         \A y \in Calls : Enters(wf, p, y) => A[y] \subseteq B
  PROVE  Fits(RunDefinition(wf, p, st, run), st, B)
<1>1. CASE ~ValidateWorkflow(wf) \/ p.depth > MaxDepth
  <2>1. RunDefinition(wf, p, st, run) = Error(st)
    BY <1>1 DEF RunDefinition
  <2> QED
    BY <2>1, OperationsType, FitsSame DEF Error, Runs
<1>2. CASE ~(~ValidateWorkflow(wf) \/ p.depth > MaxDepth) /\ ~Matches(Definition[wf].when, p)
  <2>1. RunDefinition(wf, p, st, run) = Counting(st)
    BY <1>2 DEF RunDefinition
  <2> QED
    BY <2>1, CountingType, FitsSame
<1>3. CASE ~(~ValidateWorkflow(wf) \/ p.depth > MaxDepth) /\ Matches(Definition[wf].when, p)
  <2> DEFINE first == Pass(wf, Transactional, p, Counting(st), run)
             begun == [first EXCEPT !.ret = FALSE]
             second == Pass(wf, OutboxMode, p, begun, run)
             ended == [second EXCEPT !.ret = first.ret]
  <2>1. ValidateWorkflow(wf) /\ p.depth <= MaxDepth
    BY <1>3, WorkflowEngineAssumption DEF Contexts
  <2>2. Fits(first, Counting(st), B)
    BY <2>1, CountingType, PassFits
  <2>3. Fits(first, st, B)
    BY <2>2, CountingType DEF Fits
  <2> HIDE DEF first
  <2>4. begun \in Runs /\ begun.fx = first.fx
    BY <2>3 DEF Fits, Runs
  <2> HIDE DEF begun
  <2>5. Fits(second, begun, B)
    BY <2>1, <2>4, PassFits
  <2> HIDE DEF second
  <2>6. ended \in Runs /\ ended.fx = second.fx
    BY <2>3, <2>5 DEF Fits, Runs
  <2> HIDE DEF ended
  <2>7. Fits(ended, st, B)
    BY <2>3, <2>4, <2>5, <2>6 DEF Fits
  <2>8. RunDefinition(wf, p, st, run) = IF first.end # "ok" THEN first ELSE ended
    BY <1>3 DEF RunDefinition, OutboxPass, first, begun, second, ended
  <2> QED
    BY <2>3, <2>7, <2>8
<1> QED
  BY <1>1, <1>2, <1>3

LEMMA ExecuteWorkflowFits ==
  ASSUME NEW s \in Steps, NEW p \in Contexts, NEW st \in Runs, NEW run, NEW A, Fitting(run, A), NEW B,
         s.type = "execute_workflow", \A y \in Calls : Does(s, p, y) => A[y] \subseteq B
  PROVE  Fits(ExecuteWorkflow(s, p, st, run), st, B)
<1> DEFINE q == [p EXCEPT !.depth = @ + 1]
           child == RunDefinition(s.target, q, st, run)
           counted == IF st.count = -1 THEN -1 ELSE child.count
           ended == [child EXCEPT !.ret = st.ret, !.count = counted]
<1>1. Fits(Error(st), st, B)
  BY OperationsType, FitsSame DEF Error, Runs
<1>2. CASE p.depth >= MaxDepth \/ s.target \notin Names \/ ~Definition[s.target].active
  <2>1. ExecuteWorkflow(s, p, st, run) = Error(st)
    BY <1>2 DEF ExecuteWorkflow
  <2> QED
    BY <1>1, <2>1
<1>3. CASE ~(p.depth >= MaxDepth \/ s.target \notin Names \/ ~Definition[s.target].active)
  <2>1. s.target \in Names /\ p.depth < MaxDepth
    BY <1>3, WorkflowEngineAssumption DEF Contexts
  <2>2. q \in Contexts
    BY DEF Contexts
  <2>3. \A y \in Calls : Enters(s.target, q, y) => A[y] \subseteq B
    BY <2>1 DEF Does
  <2> HIDE DEF q
  <2>4. Fits(child, st, B)
    BY <2>1, <2>2, <2>3, RunDefinitionFits
  <2> HIDE DEF child
  <2>5. counted \in -1..MaxEvents
    BY <2>4, WorkflowEngineAssumption DEF Fits, Runs
  <2> HIDE DEF counted
  <2>6. ended \in Runs /\ ended.fx = child.fx
    BY <2>4, <2>5 DEF Fits, Runs
  <2>7. ExecuteWorkflow(s, p, st, run) = ended
    BY <1>3 DEF ExecuteWorkflow, child, q, counted
  <2> HIDE DEF ended
  <2> QED
    BY <2>4, <2>6, <2>7 DEF Fits
<1> QED
  BY <1>2, <1>3

LEMMA IfFits ==
  ASSUME NEW s \in Steps, NEW p \in Contexts, NEW st \in Runs, NEW run, NEW A, Fitting(run, A), NEW B,
         s.type = "if", \A y \in Calls : Does(s, p, y) => A[y] \subseteq B
  PROVE  Fits(If(s, p, st, run), st, B)
<1> DEFINE taken == {b \in DOMAIN Branches(s) : Matches(Branches(s)[b].when, p)}
           b == CHOOSE x \in taken : \A y \in taken : x <= y
           y == List(Branches(s)[b].steps, Branching(s, p, b), st)
<1>1. CASE taken = {}
  BY <1>1, FitsSame DEF If
<1>2. CASE taken # {}
  <2>1. taken \subseteq Nat
    BY BranchesAre
  <2>2. \E x \in taken : \A z \in taken : x <= z
    BY <1>2, <2>1, LeastNumber
  <2>3. b \in taken
    BY <2>2
  <2>4. b \in DOMAIN Branches(s)
    BY <2>3
  <2>5. If(s, p, st, run) = run[y]
    BY <1>2 DEF If, Branching
  <2> HIDE DEF b, taken
  <2>6. Branches(s)[b].steps \in Seq(Steps) /\ b - 1 \in Nat
    BY <2>4, BranchesAre
  <2>7. BranchKey(p.key, b - 1) \in Keys /\ <<"branch", b - 1>> \in Places
    BY <2>6, KeyTypes DEF Contexts, Places
  <2>8. y \in Calls /\ y.st = st
    BY <2>6, <2>7, DeeperType, ListType DEF Branching
  <2>9. Does(s, p, y)
    BY <2>4, <2>8 DEF Does
  <2> HIDE DEF y
  <2> QED
    BY <2>5, <2>8, <2>9 DEF Fitting, Fits
<1> QED
  BY <1>1, <1>2

LEMMA ProcessStepFits ==
  ASSUME NEW s \in Steps, NEW p \in Contexts, NEW st \in Runs, NEW run, NEW A, Fitting(run, A), NEW B,
         \A y \in Calls : Does(s, p, y) => A[y] \subseteq B,
         \A e \in Effects : Makes(s, p, e) => e \in B
  PROVE  Fits(ProcessStep(s, p, st, run), st, B)
<1>0. Effect("create", p) \in Effects /\ Effect("update", p) \in Effects /\ Effect("call", p) \in Effects
  BY EffectType
<1>1. CASE s.type = "create"
  <2>1. ProcessStep(s, p, st, run) = CreateRecord(p, st)
    BY <1>1 DEF ProcessStep
  <2>2. Effect("create", p) \in B
    BY <1>0, <1>1 DEF Makes
  <2> QED
    BY <1>0, <2>1, <2>2, OperationFits DEF CreateRecord
<1>2. CASE s.type \in {"update", "audit"}
  <2>1. ProcessStep(s, p, st, run) = UpdateRecord(p, st)
    BY <1>2 DEF ProcessStep
  <2>2. Effect("update", p) \in B
    BY <1>0, <1>2 DEF Makes
  <2> QED
    BY <1>0, <2>1, <2>2, OperationFits DEF UpdateRecord
<1>3. CASE s.type = "read"
  <2>1. ProcessStep(s, p, st, run) = ReadRecords(p, st)
    BY <1>3 DEF ProcessStep
  <2>2. ReadRecords(p, st).fx = st.fx
    BY DEF ReadRecords, Operation, Runs
  <2> QED
    BY <2>1, <2>2, OperationsType, FitsSame
<1>4. CASE s.type = "call"
  <2>1. ProcessStep(s, p, st, run) = CallAPI(p, st)
    BY <1>4 DEF ProcessStep
  <2>2. CASE p.named
    <3>1. Effect("call", p) \in B
      BY <1>0, <1>4, <2>2 DEF Makes
    <3> QED
      BY <1>0, <2>1, <2>2, <3>1, OperationFits DEF CallAPI
  <2>3. CASE ~p.named
    BY <2>1, <2>3, OperationsType, FitsSame DEF CallAPI, Error, Runs
  <2> QED
    BY <2>2, <2>3
<1>5. CASE s.type = "if"
  <2>1. ProcessStep(s, p, st, run) = If(s, p, st, run)
    BY <1>5 DEF ProcessStep
  <2> QED
    BY <1>5, <2>1, IfFits
<1>6. CASE s.type = "for_each"
  <2> DEFINE y == Loop(s, p, st)
  <2>1. ProcessStep(s, p, st, run) = run[y]
    BY <1>6 DEF ProcessStep
  <2>2. y \in Calls /\ y.st = st
    BY StepShapes DEF Loop, Calls
  <2>3. Does(s, p, y)
    BY <1>6, <2>2 DEF Does
  <2> HIDE DEF y
  <2> QED
    BY <2>1, <2>2, <2>3 DEF Fitting, Fits
<1>7. CASE s.type = "execute_workflow"
  <2>1. ProcessStep(s, p, st, run) = ExecuteWorkflow(s, p, st, run)
    BY <1>7 DEF ProcessStep
  <2> QED
    BY <1>7, <2>1, ExecuteWorkflowFits
<1>8. CASE s.type = "return"
  <2>1. ProcessStep(s, p, st, run) = [st EXCEPT !.ret = TRUE]
    BY <1>8 DEF ProcessStep
  <2>2. [st EXCEPT !.ret = TRUE] \in Runs
    BY DEF Runs
  <2> QED
    BY <2>1, <2>2, FitsSame DEF Runs
<1>9. CASE s.type \notin {"create", "audit", "update", "read", "call", "if", "for_each", "execute_workflow", "return"}
  <2>1. ProcessStep(s, p, st, run) = Error(st)
    BY <1>9 DEF ProcessStep
  <2> QED
    BY <2>1, OperationsType, FitsSame DEF Error, Runs
<1> QED
  BY <1>1, <1>2, <1>3, <1>4, <1>5, <1>6, <1>7, <1>8, <1>9

(* The calls and the effects of a turn.                                      *)
Stepping(x) == Deeper(x.p, ScopedKey(x.p.key, x.p.wf, x.steps[x.i + 1], x.i), <<"step", x.p.wf, x.i>>)
Item(x) == [Deeper(x.p, LoopKey(x.p.key, x.i), <<"loop", x.i>>) EXCEPT !.first = (x.i = 0)]
Taken(x) == ~x.loop /\ x.i < Len(x.steps) /\ ~Skipped(x.steps[x.i + 1], x.p)

SubCall(x, y) ==
  \/ y = Onward(x, y.st)
  \/ Taken(x) /\ x.p.exec # OutboxMode /\ Does(x.steps[x.i + 1], Stepping(x), y)
  \/ x.loop /\ y = List(x.steps, Item(x), y.st)

Emits(x, e) ==
  LET s == x.steps[x.i + 1]
  IN /\ Taken(x)
     /\ IF x.p.exec = OutboxMode THEN s.type # "emit" /\ e = Queued(s, Stepping(x)) ELSE Makes(s, Stepping(x), e)

LEMMA SteppingType ==
  ASSUME NEW x \in Calls, ~x.loop, x.i < Len(x.steps)
  PROVE  /\ x.steps[x.i + 1] \in Steps /\ x.i + 1 \in DOMAIN x.steps /\ x.steps[x.i + 1] \in Range(x.steps)
         /\ Stepping(x) \in Contexts
         /\ ScopedKey(x.p.key, x.p.wf, x.steps[x.i + 1], x.i) \in Keys /\ <<"step", x.p.wf, x.i>> \in Places
<1>1. x.steps \in Seq(Steps) /\ x.i \in Nat /\ x.p \in Contexts
  BY DEF Calls
<1>2. x.steps[x.i + 1] \in Steps /\ x.i + 1 \in DOMAIN x.steps
  BY <1>1
<1>3. x.p.wf \in Scopes /\ x.p.key \in Keys
  BY <1>1 DEF Contexts
<1>4. <<"step", x.p.wf, x.i>> \in Places
  BY <1>1, <1>3 DEF Places
<1>5. ScopedKey(x.p.key, x.p.wf, x.steps[x.i + 1], x.i) \in Keys
  BY <1>1, <1>2, <1>3, KeyTypes
<1> QED
  BY <1>1, <1>2, <1>4, <1>5, DeeperType DEF Stepping, Range

LEMMA ItemType ==
  ASSUME NEW x \in Calls
  PROVE  /\ Item(x) \in Contexts
         /\ Item(x).path = Append(x.p.path, <<"loop", x.i>>) /\ Item(x).key = LoopKey(x.p.key, x.i)
         /\ Keeps(Item(x), x.p)
<1>1. x.i \in Nat /\ x.p \in Contexts /\ x.p.key \in Keys
  BY DEF Calls, Contexts
<1>2. LoopKey(x.p.key, x.i) \in Keys /\ <<"loop", x.i>> \in Places
  BY <1>1, KeyTypes DEF Places
<1> DEFINE d == Deeper(x.p, LoopKey(x.p.key, x.i), <<"loop", x.i>>)
<1>3. /\ d \in Contexts
      /\ d.path = Append(x.p.path, <<"loop", x.i>>) /\ d.key = LoopKey(x.p.key, x.i)
      /\ Keeps(d, x.p)
  BY <1>1, <1>2, DeeperType
<1>4. Item(x) = [d EXCEPT !.first = (x.i = 0)]
  BY DEF Item
<1> HIDE DEF d
<1> QED
  BY <1>3, <1>4 DEF Contexts, Keeps

LEMMA OnwardType ==
  ASSUME NEW x \in Calls, NEW st \in Runs
  PROVE  Onward(x, st) \in Calls /\ Onward(x, st).st = st /\ SubCall(x, Onward(x, st))
<1>1. x.i + 1 \in Nat
  BY DEF Calls
<1>2. Onward(x, st) \in Calls /\ Onward(x, st).st = st
  BY <1>1 DEF Onward, Calls
<1> QED
  BY <1>2 DEF SubCall

LEMMA PassedOverType ==
  ASSUME NEW st \in Runs
  PROVE  PassedOver(st) \in Runs /\ PassedOver(st).fx = st.fx
<1>1. (st.passed \/ st.end = "error") \in BOOLEAN
  BY DEF Runs
<1> QED
  BY <1>1 DEF PassedOver, Runs

LEMMA TurnFits ==
  ASSUME NEW x \in Calls, NEW run, NEW A, Fitting(run, A),
         \A y \in Calls : SubCall(x, y) => A[y] \subseteq A[x],
         \A e \in Effects : Emits(x, e) => e \in A[x]
  PROVE  Fits(Turn(x, run), x.st, A[x])
<1>0. x.st \in Runs /\ x.p \in Contexts /\ x.steps \in Seq(Steps) /\ x.i \in Nat /\ x.items \in Nat
  BY DEF Calls
<1>1. ASSUME NEW st \in Runs, NEW r, Fits(st, x.st, A[x]), r = run[Onward(x, st)]
      PROVE  Fits(r, x.st, A[x])
  <2>1. Fits(run[Onward(x, st)], st, A[Onward(x, st)]) /\ A[Onward(x, st)] \subseteq A[x]
    BY OnwardType DEF Fitting
  <2> QED
    BY <1>1, <2>1, FitsOn
<1>2. Fits(x.st, x.st, A[x])
  BY <1>0, FitsSame
<1>3. CASE x.loop
  <2> DEFINE y == List(x.steps, Item(x), x.st)
  <2>1. CASE x.i >= x.items \/ x.st.end # "ok" \/ (x.i > 0 /\ x.st.ret)
    BY <1>2, <1>3, <2>1 DEF Turn, ForEach
  <2>2. CASE ~(x.i >= x.items \/ x.st.end # "ok" \/ (x.i > 0 /\ x.st.ret))
    <3>1. y \in Calls /\ y.st = x.st
      BY <1>0, ItemType, ListType
    <3>2. SubCall(x, y)
      BY <1>3, <3>1 DEF SubCall
    <3>3. Turn(x, run) = run[Onward(x, run[y])]
      BY <1>3, <2>2 DEF Turn, ForEach, Item
    <3> HIDE DEF y
    <3>4. Fits(run[y], x.st, A[x])
      BY <3>1, <3>2 DEF Fitting, Fits
    <3> QED
      BY <1>1, <3>3, <3>4 DEF Fits
  <2> QED
    BY <2>1, <2>2
<1>4. CASE ~x.loop
  <2> DEFINE s == x.steps[x.i + 1]
             done == RunStep(s, Stepping(x), x.st, run)
  <2>0. Turn(x, run) = IF x.i >= Len(x.steps) THEN x.st
                       ELSE IF Skipped(s, x.p) THEN run[Onward(x, x.st)] ELSE AfterStep(x, s, done, run)
    BY <1>4 DEF Turn, RunStepList, Stepping
  <2>1. CASE x.i >= Len(x.steps)
    BY <1>2, <2>0, <2>1
  <2>2. CASE ~(x.i >= Len(x.steps)) /\ Skipped(s, x.p)
    BY <1>0, <1>1, <1>2, <2>0, <2>2
  <2>3. CASE ~(x.i >= Len(x.steps)) /\ ~Skipped(s, x.p)
    <3>1. x.i < Len(x.steps)
      BY <1>0, <2>3
    <3>2. Taken(x)
      BY <1>4, <2>3, <3>1 DEF Taken
    <3>3. s \in Steps /\ s.active /\ Stepping(x) \in Contexts /\ Keeps(Stepping(x), x.p)
      BY <1>0, <1>4, <2>3, <3>1, SteppingType, DeeperType, StepShapes DEF Stepping, Skipped
    <3>4. Fits(done, x.st, A[x])
      <4>1. CASE x.p.exec = OutboxMode
        <5>1. s.type # "emit" => Queued(s, Stepping(x)) \in A[x]
          <6>1. Queued(s, Stepping(x)) \in Effects
            BY <3>3, StepEventType DEF Queued, Effects, Events, Contexts
          <6> QED
            BY <3>2, <4>1, <6>1 DEF Emits
        <5>2. done = EnqueueWorkflowStep(s, Stepping(x), x.st)
          BY <3>3, <4>1 DEF RunStep, Keeps
        <5> QED
          BY <1>0, <3>3, <5>1, <5>2, EnqueueFits
      <4>2. CASE x.p.exec # OutboxMode
        <5>1. \A y \in Calls : Does(s, Stepping(x), y) => A[y] \subseteq A[x]
          BY <3>2, <4>2 DEF SubCall
        <5>2. \A e \in Effects : Makes(s, Stepping(x), e) => e \in A[x]
          BY <3>2, <4>2 DEF Emits
        <5>3. done = ProcessStep(s, Stepping(x), x.st, run)
          BY <3>3, <4>2 DEF RunStep, Keeps
        <5> HIDE DEF s, done
        <5> QED
          BY <1>0, <3>3, <5>1, <5>2, <5>3, ProcessStepFits
      <4> QED
        BY <4>1, <4>2
    <3>5. Turn(x, run) = AfterStep(x, s, done, run)
      BY <2>0, <2>3
    <3> HIDE DEF done, s
    <3>6. Turn(x, run) \in {done, PassedOver(done), run[Onward(x, PassedOver(done))]}
      BY <3>5 DEF AfterStep
    <3>7. Fits(PassedOver(done), x.st, A[x])
      BY <3>4, PassedOverType DEF Fits
    <3>8. Fits(run[Onward(x, PassedOver(done))], x.st, A[x])
      BY <1>1, <3>4, <3>7, PassedOverType DEF Fits
    <3> QED
      BY <3>4, <3>6, <3>7, <3>8
  <2> QED
    BY <2>1, <2>2, <2>3
<1> QED
  BY <1>3, <1>4

(* A run of any length is a function on the calls.                           *)
LEMMA TurnType ==
  ASSUME NEW x \in Calls, NEW run \in [Calls -> Runs]
  PROVE  Turn(x, run) \in Runs
<1> DEFINE A == [y \in Calls |-> Effects]
<1>1. Fitting(run, A)
  <2>1. \A st \in Runs : Range(st.fx) \subseteq Effects
    BY DEF Runs, Range
  <2> QED
    BY <2>1 DEF Fitting, Fits
<1>2. \A y \in Calls : A[y] = Effects
  OBVIOUS
<1> HIDE DEF A
<1>3. Fits(Turn(x, run), x.st, A[x])
  BY <1>1, <1>2, TurnFits
<1> QED
  BY <1>3 DEF Fits

IsRun(f) == f = [n \in Nat |-> [x \in Calls |-> IF n = 0 THEN Error(x.st) ELSE Turn(x, f[n - 1])]]

LEMMA RunIs ==
  /\ Run[0] = [x \in Calls |-> Error(x.st)]
  /\ \A n \in Nat : Run[n] \in [Calls -> Runs] /\ Run[n + 1] = [x \in Calls |-> Turn(x, Run[n])]
<1> DEFINE S == [Calls -> Runs]
           none == [x \in Calls |-> Error(x.st)]
           F == [y \in Nat \X S |-> [x \in Calls |-> Turn(x, y[2])]]
<1>1. none \in S
  BY OperationsType DEF Calls
<1>2. F \in [Nat \X S -> S]
  BY TurnType
<1>3. \A y \in Nat \X S : F[y] = [x \in Calls |-> Turn(x, y[2])]
  OBVIOUS
<1> HIDE DEF F, none
<1>4. PICK f : IsIterate(f, S, none, F)
  BY <1>1, <1>2, Iterates
<1>5. f \in [Nat -> S] /\ f[0] = none /\ \A n \in Nat : f[n + 1] = F[<<n, f[n]>>]
  BY <1>4 DEF IsIterate
<1> HIDE DEF S
<1>6. ASSUME NEW n \in Nat
      PROVE  f[n] = [x \in Calls |-> IF n = 0 THEN Error(x.st) ELSE Turn(x, f[n - 1])]
  <2>1. CASE n = 0
    <3>1. f[0] = [x \in Calls |-> Error(x.st)]
      BY <1>5 DEF none
    <3> QED
      BY <2>1, <3>1
  <2>2. CASE n # 0
    <3>1. n - 1 \in Nat /\ (n - 1) + 1 = n
      BY <2>2
    <3>2. f[n] = F[<<n - 1, f[n - 1]>>] /\ <<n - 1, f[n - 1]>> \in Nat \X S
      BY <1>5, <3>1
    <3>3. f[n] = [x \in Calls |-> Turn(x, f[n - 1])]
      BY <1>3, <3>2
    <3> QED
      BY <2>2, <3>3
  <2> QED
    BY <2>1, <2>2
<1>7. IsRun(f)
  <2>1. f = [n \in Nat |-> f[n]]
    BY <1>5
  <2> QED
    BY <1>6, <2>1, Zenon DEF IsRun
<1>8. Run = CHOOSE g : IsRun(g)
  BY DEF Run, IsRun
<1>9. IsRun(Run)
  BY <1>7, <1>8, Zenon
<1>10. \A n \in Nat : Run[n] = [x \in Calls |-> IF n = 0 THEN Error(x.st) ELSE Turn(x, Run[n - 1])]
  <2>1. Run = [n \in Nat |-> [x \in Calls |-> IF n = 0 THEN Error(x.st) ELSE Turn(x, Run[n - 1])]]
    BY <1>9 DEF IsRun
  <2> QED
    BY <2>1, Zenon
<1>11. Run[0] = [x \in Calls |-> Error(x.st)]
  BY <1>10
<1>12. ASSUME NEW n \in Nat PROVE Run[n + 1] = [x \in Calls |-> Turn(x, Run[n])]
  <2>1. n + 1 \in Nat /\ n + 1 # 0 /\ (n + 1) - 1 = n
    OBVIOUS
  <2> QED
    BY <1>10, <2>1
<1> DEFINE T == {n \in Nat : Run[n] \in [Calls -> Runs]}
<1>13. 0 \in T
  BY <1>1, <1>11 DEF S, none
<1>14. ASSUME NEW n \in Nat, n \in T PROVE n + 1 \in T
  <2>1. \A x \in Calls : Turn(x, Run[n]) \in Runs
    BY <1>14, TurnType
  <2>2. [x \in Calls |-> Turn(x, Run[n])] \in [Calls -> Runs]
    BY <2>1
  <2>3. Run[n + 1] \in [Calls -> Runs]
    BY <1>12, <2>2, Zenon
  <2> QED
    BY <2>3
<1> HIDE DEF T
<1>15. T = Nat
  BY <1>13, <1>14, HandedOn DEF T
<1> QED
  BY <1>11, <1>12, <1>15 DEF T

Closed(A) ==
  /\ \A x, y \in Calls : SubCall(x, y) => A[y] \subseteq A[x]
  /\ \A x \in Calls, e \in Effects : Emits(x, e) => e \in A[x]

LEMMA EvaluateFits ==
  ASSUME NEW A, Closed(A)
  PROVE  Fitting(Evaluate, A)
<1> DEFINE T == {n \in Nat : Fitting(Run[n], A)}
<1>1. 0 \in T
  <2>1. Run[0] \in [Calls -> Runs]
    BY RunIs
  <2>2. ASSUME NEW y \in Calls PROVE Fits(Run[0][y], y.st, A[y])
    <3>1. Run[0][y] = Error(y.st) /\ y.st \in Runs
      BY RunIs DEF Calls
    <3> QED
      BY <3>1, OperationsType, FitsSame DEF Error, Runs
  <2> QED
    BY <2>1, <2>2 DEF Fitting
<1>2. ASSUME NEW n \in Nat, n \in T PROVE n + 1 \in T
  <2>1. Fitting(Run[n], A)
    BY <1>2
  <2>2. ASSUME NEW y \in Calls PROVE Fits(Run[n + 1][y], y.st, A[y])
    <3>0. Run[n + 1] = [x \in Calls |-> Turn(x, Run[n])]
      BY RunIs, Zenon
    <3>1. Run[n + 1][y] = Turn(y, Run[n])
      BY <3>0
    <3> QED
      BY <2>1, <3>1, TurnFits DEF Closed
  <2>3. Run[n + 1] \in [Calls -> Runs]
    <3>1. n + 1 \in Nat
      OBVIOUS
    <3> QED
      BY <3>1, RunIs, Zenon
  <2> QED
    BY <2>2, <2>3 DEF Fitting
<1> HIDE DEF T
<1>3. T = Nat
  BY <1>1, <1>2, HandedOn DEF T
<1>4. MaxTurns \in Nat
  BY WorkflowEngineAssumption
<1> QED
  BY <1>3, <1>4 DEF T, Evaluate

-----------------------------------------------------------------------------
(* The runs of a request: of a workflow, or of those a write triggers.       *)

(* The calls of the workflows that a trigger starts.                         *)
Starts(trigger, p, y) ==
  \E wf \in Names : Definition[wf].trigger = trigger /\ Enters(wf, p, y)

Opens(wf, p, y) ==
  IF wf = Triggered THEN Starts("before_create", p, y) \/ Starts("after_create", p, y) ELSE Enters(wf, p, y)

LEMMA RunListedFits ==
  ASSUME NEW wf \in Names, NEW trigger, NEW exec \in {Transactional, OutboxMode}, NEW p \in Contexts, NEW st \in Runs,
         NEW A, Fitting(Evaluate, A), NEW B, \A y \in Calls : Starts(trigger, p, y) => A[y] \subseteq B
  PROVE  Fits(RunListed(wf, trigger, exec, p, st), st, B)
<1> DEFINE y == List(Definition[wf].steps, Entered(wf, exec, p), st)
           ended == [Evaluate[y] EXCEPT !.ret = st.ret]
<1>1. y \in Calls /\ y.st = st
  <2>1. Definition[wf].steps \in Seq(Steps)
    BY WorkflowEngineAssumption DEF Workflow
  <2> QED
    BY <2>1, EnteredType, ListType
<1>2. Enters(wf, p, y) \/ ~ValidateWorkflow(wf) \/ p.depth > MaxDepth
  BY <1>1, WorkflowEngineAssumption DEF Enters, Contexts
<1>3. RunListed(wf, trigger, exec, p, st) \in {st, Error(st)}
        \/ (RunListed(wf, trigger, exec, p, st) = ended /\ ValidateWorkflow(wf) /\ ~(p.depth > MaxDepth)
              /\ Definition[wf].trigger = trigger)
  BY DEF RunListed
<1> HIDE DEF y
<1>4. Fits(st, st, B) /\ Fits(Error(st), st, B)
  BY OperationsType, FitsSame DEF Error, Runs
<1>5. CASE RunListed(wf, trigger, exec, p, st) = ended /\ Starts(trigger, p, y)
  <2>1. Fits(Evaluate[y], st, B)
    BY <1>1, <1>5 DEF Fitting, Fits
  <2>2. ended \in Runs /\ ended.fx = Evaluate[y].fx
    BY <2>1 DEF Fits, Runs
  <2> QED
    BY <1>5, <2>1, <2>2 DEF Fits
<1> QED
  BY <1>2, <1>3, <1>4, <1>5 DEF Starts

IsAfter(f, n, trigger, exec, p, st) ==
  f = [i \in 0..n |-> IF i = 0 THEN [st EXCEPT !.count = 0] ELSE RunListed(Listed[i], trigger, exec, p, f[i - 1])]

LEMMA AfterExists ==
  ASSUME NEW n \in Nat, n = Len(Listed), NEW trigger, NEW exec \in {Transactional, OutboxMode}, NEW p \in Contexts,
         NEW st \in Runs
  PROVE  \E f : IsAfter(f, n, trigger, exec, p, st) /\ f \in [0..n -> Runs]
<1> DEFINE x0 == [st EXCEPT !.count = 0]
           Next(i, s) == IF i + 1 <= n THEN RunListed(Listed[i + 1], trigger, exec, p, s) ELSE s
           F == [y \in Nat \X Runs |-> Next(y[1], y[2])]
<1>1. x0 \in Runs
  <2>1. 0 \in -1..MaxEvents
    BY WorkflowEngineAssumption
  <2> QED
    BY <2>1 DEF Runs
<1>2. ASSUME NEW i \in Nat, NEW s \in Runs PROVE Next(i, s) \in Runs
  <2>1. CASE ~(i + 1 <= n)
    BY <2>1
  <2>2. CASE i + 1 <= n
    <3>1. Listed[i + 1] \in Names
      BY <2>2, WorkflowEngineAssumption
    <3> DEFINE A == [y \in Calls |-> Effects]
    <3>2. \A y \in Calls : A[y] \subseteq Effects
      OBVIOUS
    <3>3. Closed(A)
      BY DEF Closed
    <3> HIDE DEF A
    <3>4. Fitting(Evaluate, A)
      BY <3>3, EvaluateFits
    <3>5. Fits(RunListed(Listed[i + 1], trigger, exec, p, s), s, Effects)
      BY <3>1, <3>2, <3>4, RunListedFits
    <3> QED
      BY <2>2, <3>5 DEF Fits
  <2> QED
    BY <2>1, <2>2
<1>3. F \in [Nat \X Runs -> Runs]
  BY <1>2
<1>4. \A i \in Nat, s \in Runs : F[<<i, s>>] = Next(i, s)
  OBVIOUS
<1> HIDE DEF F, x0
<1>5. PICK g : IsIterate(g, Runs, x0, F)
  BY <1>1, <1>3, Iterates
<1>6. g \in [Nat -> Runs] /\ g[0] = x0 /\ \A i \in Nat : g[i + 1] = Next(i, g[i])
  BY <1>4, <1>5 DEF IsIterate
<1> DEFINE f == [i \in 0..n |-> g[i]]
<1>7. f \in [0..n -> Runs]
  BY <1>6
<1>8. ASSUME NEW i \in 0..n
      PROVE  f[i] = IF i = 0 THEN [st EXCEPT !.count = 0] ELSE RunListed(Listed[i], trigger, exec, p, f[i - 1])
  <2>1. CASE i = 0
    BY <1>6, <2>1 DEF x0
  <2>2. CASE i # 0
    <3>1. i - 1 \in Nat /\ (i - 1) + 1 = i /\ i <= n /\ i - 1 \in 0..n
      BY <2>2
    <3>2. g[i] = Next(i - 1, g[i - 1])
      BY <1>6, <3>1
    <3>3. Next(i - 1, g[i - 1]) = RunListed(Listed[i], trigger, exec, p, g[i - 1])
      BY <3>1
    <3> QED
      BY <2>2, <3>1, <3>2, <3>3
  <2> QED
    BY <2>1, <2>2
<1>9. f = [i \in 0..n |-> IF i = 0 THEN [st EXCEPT !.count = 0] ELSE RunListed(Listed[i], trigger, exec, p, f[i - 1])]
  <2>1. f = [i \in 0..n |-> f[i]]
    OBVIOUS
  <2> HIDE DEF f
  <2> QED
    BY <1>8, <2>1, Zenon
<1> QED
  BY <1>7, <1>9 DEF IsAfter

LEMMA RunWorkflowsFits ==
  ASSUME NEW trigger, NEW exec \in {Transactional, OutboxMode}, NEW p \in Contexts, NEW st \in Runs,
         NEW A, Fitting(Evaluate, A), NEW B, \A y \in Calls : Starts(trigger, p, y) => A[y] \subseteq B
  PROVE  Fits(RunWorkflows(trigger, exec, p, st), st, B)
<1> DEFINE n == Len(Listed)
           after == CHOOSE f : f = [i \in 0..n |-> IF i = 0 THEN [st EXCEPT !.count = 0]
                                                   ELSE RunListed(Listed[i], trigger, exec, p, f[i - 1])]
           T == {i \in Nat : i <= n => Fits(after[i], st, B)}
<1>1. n \in Nat
  BY WorkflowEngineAssumption
<1>2. RunWorkflows(trigger, exec, p, st) = after[n]
  BY DEF RunWorkflows
<1>3. \A i \in 1..n : Listed[i] \in Names
  BY WorkflowEngineAssumption
<1>4. n = Len(Listed)
  OBVIOUS
<1> HIDE DEF n
<1>5. after = [i \in 0..n |-> IF i = 0 THEN [st EXCEPT !.count = 0] ELSE RunListed(Listed[i], trigger, exec, p, after[i - 1])]
  <2>1. PICK f : IsAfter(f, n, trigger, exec, p, st)
    BY <1>1, <1>4, AfterExists
  <2>2. f = [i \in 0..n |-> IF i = 0 THEN [st EXCEPT !.count = 0] ELSE RunListed(Listed[i], trigger, exec, p, f[i - 1])]
    BY <2>1 DEF IsAfter
  <2> QED
    BY <2>2, Zenon
<1> HIDE DEF after
<1>6. 0 \in T
  <2>1. after[0] = [st EXCEPT !.count = 0]
    BY <1>1, <1>5
  <2>2. after[0] \in Runs /\ after[0].fx = st.fx
    BY <2>1, WorkflowEngineAssumption DEF Runs
  <2> QED
    BY <2>2, FitsSame
<1>7. ASSUME NEW i \in Nat, i \in T PROVE i + 1 \in T
  <2> SUFFICES ASSUME i + 1 <= n PROVE Fits(after[i + 1], st, B)
    OBVIOUS
  <2>1. Fits(after[i], st, B)
    BY <1>1, <1>7
  <2>2. after[i + 1] = RunListed(Listed[i + 1], trigger, exec, p, after[i])
    BY <1>1, <1>5
  <2>3. Listed[i + 1] \in Names
    BY <1>1, <1>3
  <2>4. Fits(after[i + 1], after[i], B)
    <3>1. after[i] \in Runs
      BY <2>1 DEF Fits
    <3>2. Fits(RunListed(Listed[i + 1], trigger, exec, p, after[i]), after[i], B)
      BY <2>3, <3>1, RunListedFits
    <3> QED
      BY <2>2, <3>2
  <2> QED
    BY <2>1, <2>4, FitsOn
<1> HIDE DEF T
<1>8. T = Nat
  BY <1>6, <1>7, HandedOn DEF T
<1> QED
  BY <1>1, <1>2, <1>8 DEF T

LEMMA RunWriteFits ==
  ASSUME NEW p \in Contexts, NEW st \in Runs, NEW A, Fitting(Evaluate, A), NEW B, Effect("create", p) \in B,
         \A y \in Calls : Starts("before_create", p, y) \/ Starts("after_create", p, y) => A[y] \subseteq B
  PROVE  Fits(RunWrite(p, st), st, B)
<1> DEFINE before == RunWorkflows("before_create", Transactional, p, st)
           saved == Saved(p, before)
           after == RunWorkflows("after_create", Transactional, p, saved)
<1>1. Fits(before, st, B)
  BY RunWorkflowsFits
<1> HIDE DEF before
<1>2. Fits(saved, st, B)
  <2>1. Fits(CreateRecord(p, before), before, B)
    BY <1>1, EffectType, OperationFits DEF Fits, CreateRecord
  <2> QED
    BY <1>1, <2>1 DEF Fits, Saved
<1> HIDE DEF saved
<1>3. Fits(after, saved, B)
  BY <1>2, RunWorkflowsFits DEF Fits
<1>4. Fits(after, st, B)
  BY <1>2, <1>3, FitsOn
<1> HIDE DEF after
<1>5. Fits(RunWorkflows("after_create", OutboxMode, p, after), after, B)
  BY <1>4, RunWorkflowsFits DEF Fits
<1>6. Fits(RunWorkflows("after_create", OutboxMode, p, after), st, B)
  BY <1>4, <1>5, FitsOn
<1> QED
  BY <1>6 DEF RunWrite, after, saved, before

RequestContext(r, wf, fault) ==
  RunContext(<< <<"request", r>> >>, IF IsRoot(wf) THEN << <<"root", r>> >> ELSE <<>>, IsRoot(wf), fault)

ReplayContext(e, fault) ==
  [RunContext(e.path, e.key, TRUE, fault) EXCEPT
     !.wf = e.wf, !.mode = Captured, !.stop = e.stop, !.first = e.first, !.depth = e.depth, !.hops = e.hops]

LEMMA StartType ==
  ASSUME NEW left \in Left
  PROVE  Start(left) \in Runs /\ Range(Start(left).fx) = {}
<1>1. <<>> \in Seq(Effects)
  OBVIOUS
<1>2. Start(left) \in Runs
  BY <1>1 DEF Start, Left, Runs
<1> QED
  BY <1>2 DEF Start, Range

LEMMA RequestContextType ==
  ASSUME NEW r \in Executions, NEW wf, NEW fault \in Faults
  PROVE  /\ RequestContext(r, wf, fault) \in Contexts
         /\ RequestContext(r, wf, fault).path = << <<"request", r>> >>
         /\ RequestContext(r, wf, fault).key = IF IsRoot(wf) THEN << <<"root", r>> >> ELSE <<>>
         /\ RequestContext(r, wf, fault).depth = 0 /\ RequestContext(r, wf, fault).hops = 0
         /\ RequestContext(r, wf, fault).mode = ""
<1>1. << <<"request", r>> >> \in Paths
  <2>1. <<"request", r>> \in Places
    BY DEF Places
  <2> QED
    BY <2>1 DEF Paths
<1>2. << <<"root", r>> >> \in Keys /\ <<>> \in Keys
  <2>1. <<"root", r>> \in KeyParts
    BY DEF KeyParts
  <2> QED
    BY <2>1 DEF Keys
<1>3. IsRoot(wf) \in BOOLEAN
  BY DEF IsRoot
<1>4. "" \in Scopes /\ "" \in Modes
  BY DEF Scopes, Modes
<1> QED
  BY <1>1, <1>2, <1>3, <1>4 DEF RequestContext, RunContext, Contexts

LEMMA ReplayContextType ==
  ASSUME NEW e \in Events, NEW fault \in Faults
  PROVE  /\ ReplayContext(e, fault) \in Contexts
         /\ ReplayContext(e, fault).path = e.path /\ ReplayContext(e, fault).key = e.key
         /\ ReplayContext(e, fault).depth = e.depth /\ ReplayContext(e, fault).hops = e.hops
         /\ ReplayContext(e, fault).mode = Captured /\ ReplayContext(e, fault).exec = Transactional
<1>1. "" \in Modes /\ Captured \in Modes
  BY DEF Modes
<1> QED
  BY <1>1 DEF ReplayContext, RunContext, Events, Contexts

LEMMA RunRequestFits ==
  ASSUME NEW r \in Executions, NEW fault \in Faults, NEW left \in Left, NEW A, Closed(A), NEW B,
         NEW wf, wf = request[r].wf, wf # Triggered => wf \in Names,
         wf = Triggered => Effect("create", RequestContext(r, wf, fault)) \in B,
         \A y \in Calls : Opens(wf, RequestContext(r, wf, fault), y) => A[y] \subseteq B
  PROVE  RunRequest(r, fault, left) \in Runs /\ Range(RunRequest(r, fault, left).fx) \subseteq B
<1> DEFINE p == RequestContext(r, wf, fault)
<1>1. RunRequest(r, fault, left) =
        IF wf = Triggered THEN RunWrite(p, Start(left)) ELSE RunDefinition(wf, p, Start(left), Evaluate)
  BY DEF RunRequest, RequestContext
<1>2. p \in Contexts
  BY RequestContextType
<1> HIDE DEF p
<1>3. Fitting(Evaluate, A)
  BY EvaluateFits
<1>4. CASE wf = Triggered
  <2>1. Fits(RunWrite(p, Start(left)), Start(left), B)
    BY <1>2, <1>3, <1>4, StartType, RunWriteFits DEF p, Opens
  <2> QED
    BY <1>1, <1>4, <2>1, StartType DEF Fits
<1>5. CASE wf # Triggered
  <2>1. Fits(RunDefinition(wf, p, Start(left), Evaluate), Start(left), B)
    BY <1>2, <1>3, <1>5, StartType, RunDefinitionFits DEF p, Opens
  <2> QED
    BY <1>1, <1>5, <2>1, StartType DEF Fits
<1> QED
  BY <1>4, <1>5

LEMMA RunReplayFits ==
  ASSUME NEW e \in Events, NEW fault \in Faults, NEW left \in Left, NEW A, Closed(A), NEW B,
         \A y \in Calls : Does(e.step, ReplayContext(e, fault), y) => A[y] \subseteq B,
         \A f \in Effects : Makes(e.step, ReplayContext(e, fault), f) => f \in B
  PROVE  RunReplay(e, fault, left) \in Runs /\ Range(RunReplay(e, fault, left).fx) \subseteq B
<1> DEFINE p == ReplayContext(e, fault)
<1>1. RunReplay(e, fault, left) = ProcessStep(e.step, p, Start(left), Evaluate)
  BY DEF RunReplay, ReplayContext
<1>2. p \in Contexts /\ e.step \in Steps
  BY ReplayContextType DEF Events
<1> HIDE DEF p
<1>3. Fitting(Evaluate, A)
  BY EvaluateFits
<1>4. Fits(ProcessStep(e.step, p, Start(left), Evaluate), Start(left), B)
  BY <1>2, <1>3, StartType, ProcessStepFits DEF p
<1> QED
  BY <1>1, <1>4, StartType DEF Fits

-----------------------------------------------------------------------------
(* What the calls of a step and of a turn have from it.                      *)
LEMMA EnteredFields ==
  ASSUME NEW wf \in Names, NEW p \in Contexts, NEW y \in Calls, Enters(wf, p, y)
  PROVE  /\ ValidateWorkflow(wf) /\ p.depth <= MaxDepth
         /\ y.steps = Definition[wf].steps /\ ~y.loop /\ y.i = 0
         /\ y.p.wf = wf /\ y.p.mode = Definition[wf].mode /\ y.p.mode # Captured
         /\ y.p.path = p.path /\ y.p.key = p.key /\ y.p.depth = p.depth /\ y.p.hops = p.hops
         /\ y.p.named = p.named /\ y.p.first = p.first /\ y.p.fault = p.fault
<1>1. PICK exec \in {Transactional, OutboxMode} : y = List(Definition[wf].steps, Entered(wf, exec, p), y.st)
  BY DEF Enters
<1>2. Definition[wf].steps \in Seq(Steps) /\ y.st \in Runs /\ Definition[wf].mode \in Modes \ {Captured}
  BY WorkflowEngineAssumption DEF Workflow, Calls
<1>3. y.p = Entered(wf, exec, p) /\ y.steps = Definition[wf].steps /\ ~y.loop /\ y.i = 0
  BY <1>1 DEF List
<1> QED
  BY <1>2, <1>3 DEF Enters, Entered, Contexts

LEMMA DoesFields ==
  ASSUME NEW s \in Steps, NEW p \in Contexts, NEW y \in Calls, Does(s, p, y)
  PROVE  \/ /\ s.type = "if" /\ ~y.loop /\ y.i = 0
            /\ \E b \in DOMAIN Branches(s) : y.steps = Branches(s)[b].steps /\ y.p = Branching(s, p, b)
         \/ s.type = "for_each" /\ y.loop /\ y.i = 0 /\ y.steps = s.steps /\ y.items = s.items /\ y.p = p
         \/ /\ s.type = "execute_workflow" /\ s.target \in Names /\ p.depth < MaxDepth
            /\ ValidateWorkflow(s.target)
            /\ y.steps = Definition[s.target].steps /\ ~y.loop /\ y.i = 0
            /\ y.p.wf = s.target /\ y.p.mode = Definition[s.target].mode /\ y.p.mode # Captured
            /\ y.p.path = p.path /\ y.p.key = p.key /\ y.p.depth = p.depth + 1 /\ y.p.hops = p.hops
            /\ y.p.named = p.named /\ y.p.first = p.first /\ y.p.fault = p.fault
<1>1. CASE s.type = "if"
  <2>1. PICK b \in DOMAIN Branches(s) : y = List(Branches(s)[b].steps, Branching(s, p, b), y.st)
    BY <1>1 DEF Does
  <2>2. y.steps = Branches(s)[b].steps /\ y.p = Branching(s, p, b) /\ ~y.loop /\ y.i = 0
    BY <2>1 DEF List
  <2> QED
    BY <1>1, <2>2
<1>2. CASE s.type = "for_each"
  <2>1. y = Loop(s, p, y.st)
    BY <1>2 DEF Does
  <2> QED
    BY <1>2, <2>1 DEF Loop
<1>3. CASE s.type \notin {"if", "for_each"}
  <2> DEFINE q == [p EXCEPT !.depth = @ + 1]
  <2>1. s.type = "execute_workflow" /\ s.target \in Names /\ p.depth < MaxDepth /\ Enters(s.target, q, y)
    BY <1>3 DEF Does
  <2>2. q \in Contexts /\ q.path = p.path /\ q.key = p.key /\ q.depth = p.depth + 1 /\ q.hops = p.hops
          /\ q.named = p.named /\ q.first = p.first /\ q.fault = p.fault
    BY DEF Contexts
  <2> HIDE DEF q
  <2> QED
    BY <2>1, <2>2, EnteredFields
<1> QED
  BY <1>1, <1>2, <1>3

LEMMA BranchingFields ==
  ASSUME NEW s \in Steps, NEW p \in Contexts, NEW b \in DOMAIN Branches(s)
  PROVE  /\ Branching(s, p, b) \in Contexts /\ Keeps(Branching(s, p, b), p)
         /\ Branching(s, p, b).path = Append(p.path, <<"branch", b - 1>>)
         /\ Branching(s, p, b).key = BranchKey(p.key, b - 1)
<1>1. b - 1 \in Nat
  BY BranchesAre
<1>2. BranchKey(p.key, b - 1) \in Keys /\ <<"branch", b - 1>> \in Places
  BY <1>1, KeyTypes DEF Contexts, Places
<1> QED
  BY <1>2, DeeperType DEF Branching

(* The steps below an "if" and a "for_each".                                 *)
LEMMA GroupFields ==
  ASSUME NEW s \in Steps, NEW p \in Contexts, NEW y \in Calls, Does(s, p, y), s.type # "execute_workflow"
  PROVE  /\ s.type \in {"if", "for_each"} /\ y.steps \in Lists(s) /\ Range(y.steps) \subseteq Children(s)
         /\ Keeps(y.p, p)
         /\ y.p.path = p.path \/ \E item \in Places : y.p.path = Append(p.path, item)
<1>1. CASE s.type = "if"
  <2>1. PICK b \in DOMAIN Branches(s) : y.steps = Branches(s)[b].steps /\ y.p = Branching(s, p, b)
    BY <1>1, DoesFields
  <2>2. y.steps \in Lists(s) /\ <<"branch", b - 1>> \in Places
    BY <2>1, BranchesAre DEF Places
  <2> QED
    BY <1>1, <2>1, <2>2, BranchingFields, ListsAre
<1>2. CASE s.type = "for_each"
  <2>1. y.steps = s.steps /\ y.p = p
    BY <1>2, DoesFields
  <2>2. s.steps \in Lists(s)
    BY DEF Lists
  <2> QED
    BY <1>2, <2>1, <2>2, ListsAre DEF Keeps
<1> QED
  BY <1>1, <1>2, DoesFields

LEMMA SubCallFields ==
  ASSUME NEW x \in Calls, NEW y \in Calls, SubCall(x, y)
  PROVE  \/ y.p = x.p /\ y.steps = x.steps /\ y.loop = x.loop /\ y.i = x.i + 1 /\ y.items = x.items
         \/ Taken(x) /\ x.p.exec # OutboxMode /\ Does(x.steps[x.i + 1], Stepping(x), y)
         \/ x.loop /\ ~y.loop /\ y.i = 0 /\ y.p = Item(x) /\ y.steps = x.steps
<1>1. CASE y = Onward(x, y.st)
  BY <1>1 DEF Onward, Calls
<1>2. CASE x.loop /\ y = List(x.steps, Item(x), y.st)
  <2>1. y.p = Item(x) /\ y.steps = x.steps /\ ~y.loop /\ y.i = 0
    BY <1>2 DEF List
  <2> QED
    BY <1>2, <2>1
<1> QED
  BY <1>1, <1>2 DEF SubCall

LEMMA TakenFields ==
  ASSUME NEW x \in Calls, Taken(x)
  PROVE  LET s == x.steps[x.i + 1]
         IN /\ s \in Steps /\ s \in Range(x.steps) /\ x.i + 1 \in DOMAIN x.steps
            /\ s.active /\ ModeOf(s, x.p.mode) = x.p.exec /\ (s.type = "if" \/ Matches(s.when, x.p))
            /\ Stepping(x) \in Contexts /\ Keeps(Stepping(x), x.p)
            /\ Stepping(x).path = Append(x.p.path, <<"step", x.p.wf, x.i>>)
            /\ Stepping(x).key = ScopedKey(x.p.key, x.p.wf, s, x.i)
<1>1. ~x.loop /\ x.i < Len(x.steps) /\ ~Skipped(x.steps[x.i + 1], x.p)
  BY DEF Taken
<1>2. x.p \in Contexts
  BY DEF Calls
<1>3. /\ x.steps[x.i + 1] \in Steps /\ x.i + 1 \in DOMAIN x.steps /\ x.steps[x.i + 1] \in Range(x.steps)
      /\ ScopedKey(x.p.key, x.p.wf, x.steps[x.i + 1], x.i) \in Keys /\ <<"step", x.p.wf, x.i>> \in Places
  BY <1>1, SteppingType
<1>4. /\ Stepping(x) \in Contexts /\ Keeps(Stepping(x), x.p)
      /\ Stepping(x).path = Append(x.p.path, <<"step", x.p.wf, x.i>>)
      /\ Stepping(x).key = ScopedKey(x.p.key, x.p.wf, x.steps[x.i + 1], x.i)
  BY <1>2, <1>3, DeeperType DEF Stepping
<1>5. x.steps[x.i + 1].active /\ ModeOf(x.steps[x.i + 1], x.p.mode) = x.p.exec
        /\ (x.steps[x.i + 1].type = "if" \/ Matches(x.steps[x.i + 1].when, x.p))
  BY <1>1 DEF Skipped
<1> QED
  BY <1>3, <1>4, <1>5

-----------------------------------------------------------------------------
(* Bounds on what a call adds.                                               *)

(* The event of a queued step has its key and its path.                      *)
Formed ==
  {e \in Effects : e.op = "queue" => e.event \in Events /\ e.event.key = e.key /\ e.event.path = e.path /\ e.key # <<>>}

LEMMA EventKeyed ==
  ASSUME NEW p \in Contexts, NEW s
  PROVE  EventKey(p, s) # <<>>
<1>1. p.key \in Seq(KeyParts)
  BY DEF Contexts, Keys
<1>2. \A part : Append(p.key, part) # <<>>
  BY <1>1
<1> QED
  BY <1>2 DEF EventKey, ScopedKey

LEMMA EmitsFormed ==
  ASSUME NEW x \in Calls, NEW e \in Effects, Emits(x, e)
  PROVE  e \in Formed
<1>1. /\ Stepping(x) \in Contexts /\ x.steps[x.i + 1] \in Steps /\ x.steps[x.i + 1].active
  BY TakenFields DEF Emits
<1>2. CASE x.p.exec = OutboxMode
  <2>1. e = Queued(x.steps[x.i + 1], Stepping(x))
    BY <1>2 DEF Emits
  <2>2. StepEvent(x.steps[x.i + 1], Stepping(x)) \in Events
    BY <1>1, StepEventType
  <2>3. StepEvent(x.steps[x.i + 1], Stepping(x)).key # <<>>
    BY <1>1, EventKeyed DEF StepEvent
  <2> QED
    BY <2>1, <2>2, <2>3 DEF Queued, Formed, StepEvent
<1>3. CASE x.p.exec # OutboxMode
  BY <1>3 DEF Emits, Makes, Effect, Formed
<1> QED
  BY <1>2, <1>3

LEMMA FormedClosed == Closed([x \in Calls |-> Formed])
<1> DEFINE A == [x \in Calls |-> Formed]
<1>1. \A x \in Calls : A[x] = Formed
  OBVIOUS
<1> HIDE DEF A
<1>2. Closed(A)
  BY <1>1, EmitsFormed DEF Closed
<1> QED
  BY <1>2 DEF A

(* Where calls are only queued: in the lists of a valid definition, and in    *)
(* what is captured of a group that stays in the database.                   *)
Quiet(x) ==
  IF x.p.mode = Captured THEN \A s \in Range(x.steps) : ~TreeHasExternalEffects(s)
  ELSE ValidList(x.steps, x.p.mode, ValidSteps)

LEMMA QuietOn ==
  ASSUME NEW x \in Calls, NEW y \in Calls, SubCall(x, y), Quiet(x)
  PROVE  Quiet(y)
<1>1. CASE y.p = x.p /\ y.steps = x.steps
  BY <1>1 DEF Quiet
<1>2. CASE y.p = Item(x) /\ y.steps = x.steps
  <2>1. y.p.mode = x.p.mode
    BY <1>2, ItemType DEF Keeps
  <2> QED
    BY <1>2, <2>1 DEF Quiet
<1>3. CASE Taken(x) /\ Does(x.steps[x.i + 1], Stepping(x), y)
  <2> DEFINE s == x.steps[x.i + 1]
  <2>1. /\ s \in Steps /\ s \in Range(x.steps) /\ x.i + 1 \in DOMAIN x.steps /\ s.active
        /\ Stepping(x) \in Contexts /\ Stepping(x).mode = x.p.mode
    BY <1>3, TakenFields DEF Keeps
  <2> HIDE DEF s
  <2>2. Does(s, Stepping(x), y)
    BY <1>3 DEF s
  <2>3. CASE s.type = "execute_workflow" /\ x.p.mode = Captured
    BY <2>1, <2>3, InsideBelow DEF Quiet
  <2>4. CASE s.type = "execute_workflow" /\ x.p.mode # Captured
    BY <2>1, <2>2, <2>4, DoesFields DEF ValidateWorkflow, Quiet
  <2>5. CASE s.type # "execute_workflow"
    <3>1. y.steps \in Lists(s) /\ Range(y.steps) \subseteq Children(s) /\ y.p.mode = x.p.mode
      BY <2>1, <2>2, <2>5, GroupFields DEF Keeps
    <3>2. CASE x.p.mode = Captured
      BY <2>1, <3>1, <3>2, InsideBelow DEF Quiet
    <3>3. CASE x.p.mode # Captured
      <4>1. <<s, x.p.mode>> \in ValidSteps
        BY <2>1, <3>3 DEF Quiet, ValidList, s
      <4>2. ValidList(y.steps, x.p.mode, ValidSteps)
        BY <3>1, <4>1, ValidBelow
      <4> QED
        BY <3>1, <3>3, <4>2 DEF Quiet
    <3> QED
      BY <3>2, <3>3
  <2> QED
    BY <2>3, <2>4, <2>5
<1> QED
  BY <1>1, <1>2, <1>3, SubCallFields

Uncalled(x) == {e \in Effects : Quiet(x) => e.op # "call"}

LEMMA UncalledClosed == Closed([x \in Calls |-> Uncalled(x)])
<1> DEFINE A == [x \in Calls |-> Uncalled(x)]
<1>1. ASSUME NEW x \in Calls, NEW e \in Effects, Emits(x, e), Quiet(x) PROVE e.op # "call"
  <2> DEFINE s == x.steps[x.i + 1]
  <2>1. /\ s \in Steps /\ s \in Range(x.steps) /\ x.i + 1 \in DOMAIN x.steps /\ s.active
        /\ ModeOf(s, x.p.mode) = x.p.exec
    BY <1>1, TakenFields DEF Emits
  <2>2. CASE x.p.exec = OutboxMode
    BY <1>1, <2>2 DEF Emits, Queued
  <2>3. CASE x.p.exec # OutboxMode
    <3>1. Makes(s, Stepping(x), e)
      BY <1>1, <2>3 DEF Emits
    <3>2. s.type # "call"
      <4>1. CASE x.p.mode = Captured
        BY <1>1, <2>1, <4>1, InsideBelow DEF Quiet, External
      <4>2. CASE x.p.mode # Captured
        <5>1. ValidStep(x.steps, x.i + 1, x.p.mode)
          BY <1>1, <2>1, <4>2 DEF Quiet, ValidList
        <5> QED
          BY <2>1, <2>3, <5>1 DEF ValidStep, External
      <4> QED
        BY <4>1, <4>2
    <3> QED
      BY <3>1, <3>2 DEF Makes, Effect
  <2> QED
    BY <2>2, <2>3
<1>2. \A x, y \in Calls : SubCall(x, y) => Uncalled(y) \subseteq Uncalled(x)
  BY QuietOn DEF Uncalled
<1>3. \A x \in Calls, e \in Effects : Emits(x, e) => e \in Uncalled(x)
  BY <1>1 DEF Uncalled
<1>4. \A x \in Calls : A[x] = Uncalled(x)
  OBVIOUS
<1> HIDE DEF A
<1>5. Closed(A)
  BY <1>2, <1>3, <1>4 DEF Closed
<1> QED
  BY <1>5 DEF A

(* How deep events are queued: what is captured queues only from the           *)
(* workflows it runs.                                                          *)
Shallow(x) == x.p.mode = Captured \/ x.p.depth <= MaxDepth
Least(x) == x.p.depth + (IF x.p.mode = Captured THEN 2 ELSE 1)
Within(x) ==
  {e \in Formed : Shallow(x) /\ e.op = "queue" =>
     e.event.hops = x.p.hops + 1 /\ Least(x) <= e.event.depth /\ e.event.depth <= MaxDepth + 1}

LEMMA ShallowOn ==
  ASSUME NEW x \in Calls, NEW y \in Calls, SubCall(x, y), Shallow(x)
  PROVE  Shallow(y) /\ y.p.hops = x.p.hops /\ Least(x) <= Least(y)
<1>0. x.p.depth \in Nat /\ y.p.depth \in Nat /\ MaxDepth \in Nat
  BY WorkflowEngineAssumption DEF Calls, Contexts
<1>1. CASE y.p = x.p
  BY <1>0, <1>1 DEF Shallow, Least
<1>2. CASE y.p = Item(x)
  BY <1>0, <1>2, ItemType DEF Keeps, Shallow, Least
<1>3. CASE Taken(x) /\ Does(x.steps[x.i + 1], Stepping(x), y)
  <2> DEFINE s == x.steps[x.i + 1]
  <2>1. s \in Steps /\ Stepping(x) \in Contexts /\ Keeps(Stepping(x), x.p)
    BY <1>3, TakenFields
  <2> HIDE DEF s
  <2>2. Does(s, Stepping(x), y)
    BY <1>3 DEF s
  <2>3. CASE s.type = "execute_workflow"
    <3>1. y.p.mode # Captured /\ y.p.depth = x.p.depth + 1 /\ y.p.hops = x.p.hops /\ x.p.depth < MaxDepth
      BY <2>1, <2>2, <2>3, DoesFields DEF Keeps
    <3> QED
      BY <1>0, <3>1 DEF Shallow, Least
  <2>4. CASE s.type # "execute_workflow"
    <3>1. y.p.mode = x.p.mode /\ y.p.depth = x.p.depth /\ y.p.hops = x.p.hops
      BY <2>1, <2>2, <2>4, GroupFields DEF Keeps
    <3> QED
      BY <1>0, <3>1 DEF Shallow, Least
  <2> QED
    BY <2>3, <2>4
<1> QED
  BY <1>1, <1>2, <1>3, SubCallFields

LEMMA WithinClosed == Closed([x \in Calls |-> Within(x)])
<1> DEFINE A == [x \in Calls |-> Within(x)]
<1>1. ASSUME NEW x \in Calls, NEW e \in Effects, Emits(x, e), Shallow(x), e.op = "queue"
      PROVE  e.event.hops = x.p.hops + 1 /\ Least(x) <= e.event.depth /\ e.event.depth <= MaxDepth + 1
  <2> DEFINE s == x.steps[x.i + 1]
  <2>1. ModeOf(s, x.p.mode) = x.p.exec /\ Keeps(Stepping(x), x.p)
    BY <1>1, TakenFields DEF Emits
  <2>2. x.p.depth \in Nat /\ MaxDepth \in Nat
    BY WorkflowEngineAssumption DEF Calls, Contexts
  <2>3. CASE x.p.exec = OutboxMode
    <3>1. x.p.mode # Captured
      BY <2>1, <2>3 DEF ModeOf, OutboxMode, Transactional
    <3>2. e.event = StepEvent(s, Stepping(x))
      BY <1>1, <2>3 DEF Emits, Queued
    <3>3. e.event.depth = x.p.depth + 1 /\ e.event.hops = x.p.hops + 1
      BY <2>1, <3>2 DEF StepEvent, Keeps
    <3> QED
      BY <1>1, <2>2, <3>1, <3>3 DEF Shallow, Least
  <2>4. CASE x.p.exec # OutboxMode
    BY <1>1, <2>4 DEF Emits, Makes, Effect
  <2> QED
    BY <2>3, <2>4
<1>2. ASSUME NEW x \in Calls, NEW y \in Calls, SubCall(x, y) PROVE Within(y) \subseteq Within(x)
  <2> SUFFICES ASSUME NEW e \in Within(y), Shallow(x), e.op = "queue"
               PROVE  e.event.hops = x.p.hops + 1 /\ Least(x) <= e.event.depth /\ e.event.depth <= MaxDepth + 1
    BY DEF Within
  <2>1. Shallow(y) /\ y.p.hops = x.p.hops /\ Least(x) <= Least(y)
    BY <1>2, ShallowOn
  <2>2. e.event.hops = y.p.hops + 1 /\ Least(y) <= e.event.depth /\ e.event.depth <= MaxDepth + 1
    BY <2>1 DEF Within
  <2>3. e.event.depth \in Nat /\ MaxDepth \in Nat
    BY WorkflowEngineAssumption DEF Within, Formed, Events
  <2>4. Least(x) \in Nat /\ Least(y) \in Nat
    BY DEF Least, Calls, Contexts
  <2> QED
    BY <2>1, <2>2, <2>3, <2>4
<1>3. \A x \in Calls, e \in Effects : Emits(x, e) => e \in Within(x)
  BY <1>1, EmitsFormed DEF Within
<1>4. \A x \in Calls : A[x] = Within(x)
  OBVIOUS
<1> HIDE DEF A
<1>5. Closed(A)
  BY <1>2, <1>3, <1>4 DEF Closed
<1> QED
  BY <1>5 DEF A

(* Every effect is of the request its path begins with.                      *)
Of(path) == {e \in Effects : e.path # <<>> /\ e.path[1] = path[1]}
Own(x) == {e \in Effects : x.p.path # <<>> => e \in Of(x.p.path)}

LEMMA FirstKept ==
  ASSUME NEW path \in Paths, path # <<>>, NEW item
  PROVE  Append(path, item) # <<>> /\ Append(path, item)[1] = path[1]
BY DEF Paths

LEMMA OwnOn ==
  ASSUME NEW x \in Calls, NEW y \in Calls, SubCall(x, y), x.p.path # <<>>
  PROVE  y.p.path # <<>> /\ y.p.path[1] = x.p.path[1]
<1>0. x.p.path \in Paths
  BY DEF Calls, Contexts
<1>1. CASE y.p = x.p
  BY <1>1
<1>2. CASE y.p = Item(x)
  BY <1>0, <1>2, ItemType, FirstKept
<1>3. CASE Taken(x) /\ Does(x.steps[x.i + 1], Stepping(x), y)
  <2> DEFINE s == x.steps[x.i + 1]
  <2>1. s \in Steps /\ Stepping(x) \in Contexts /\ Stepping(x).path = Append(x.p.path, <<"step", x.p.wf, x.i>>)
    BY <1>3, TakenFields
  <2> HIDE DEF s
  <2>2. Does(s, Stepping(x), y)
    BY <1>3 DEF s
  <2>3. Stepping(x).path \in Paths /\ Stepping(x).path # <<>> /\ Stepping(x).path[1] = x.p.path[1]
    BY <1>0, <2>1, FirstKept DEF Contexts
  <2>4. CASE s.type = "execute_workflow"
    BY <2>1, <2>2, <2>3, <2>4, DoesFields
  <2>5. CASE s.type # "execute_workflow"
    BY <2>1, <2>2, <2>3, <2>5, GroupFields, FirstKept
  <2> QED
    BY <2>4, <2>5
<1> QED
  BY <1>1, <1>2, <1>3, SubCallFields

LEMMA OwnClosed == Closed([x \in Calls |-> Own(x)])
<1> DEFINE A == [x \in Calls |-> Own(x)]
<1>1. ASSUME NEW x \in Calls, NEW e \in Effects, Emits(x, e), x.p.path # <<>> PROVE e \in Of(x.p.path)
  <2>1. Stepping(x).path = Append(x.p.path, <<"step", x.p.wf, x.i>>)
    BY <1>1, TakenFields DEF Emits
  <2>2. e.path = Stepping(x).path
    BY <1>1 DEF Emits, Makes, Effect, Queued
  <2>3. x.p.path \in Paths
    BY DEF Calls, Contexts
  <2> QED
    BY <1>1, <2>1, <2>2, <2>3, FirstKept DEF Of
<1>2. \A x, y \in Calls : SubCall(x, y) => Own(y) \subseteq Own(x)
  BY OwnOn DEF Own, Of
<1>3. \A x \in Calls, e \in Effects : Emits(x, e) => e \in Own(x)
  BY <1>1 DEF Own
<1>4. \A x \in Calls : A[x] = Own(x)
  OBVIOUS
<1> HIDE DEF A
<1>5. Closed(A)
  BY <1>2, <1>3, <1>4 DEF Closed
<1> QED
  BY <1>5 DEF A

(* Steps that need no transaction leave nothing one would have held back.    *)
Light(x) == \A s \in Range(x.steps) : <<s, x.p.mode>> \in WithoutTransaction
Weightless(x) == {e \in Effects : Light(x) => e.op = "call"}

LEMMA LightOn ==
  ASSUME NEW x \in Calls, NEW y \in Calls, SubCall(x, y), Light(x)
  PROVE  Light(y)
<1>1. CASE y.p = x.p /\ y.steps = x.steps
  BY <1>1 DEF Light
<1>2. CASE y.p = Item(x) /\ y.steps = x.steps
  BY <1>2, ItemType DEF Keeps, Light
<1>3. CASE Taken(x) /\ Does(x.steps[x.i + 1], Stepping(x), y)
  <2> DEFINE s == x.steps[x.i + 1]
  <2>1. /\ s \in Steps /\ s \in Range(x.steps) /\ s.active /\ Stepping(x) \in Contexts /\ Stepping(x).mode = x.p.mode
    BY <1>3, TakenFields DEF Keeps
  <2> HIDE DEF s
  <2>2. Does(s, Stepping(x), y)
    BY <1>3 DEF s
  <2>3. ~WritesTransactionally(s) /\ \A c \in Children(s) : <<c, x.p.mode>> \in WithoutTransaction
    BY <2>1, WithoutTransactionBelow DEF Light
  <2>4. s.type # "execute_workflow"
    BY <2>3 DEF WritesTransactionally
  <2> QED
    BY <2>1, <2>2, <2>3, <2>4, GroupFields DEF Light, Keeps
<1> QED
  BY <1>1, <1>2, <1>3, SubCallFields

LEMMA WeightlessClosed == Closed([x \in Calls |-> Weightless(x)])
<1> DEFINE A == [x \in Calls |-> Weightless(x)]
<1>1. ASSUME NEW x \in Calls, NEW e \in Effects, Emits(x, e), Light(x) PROVE e.op = "call"
  <2> DEFINE s == x.steps[x.i + 1]
  <2>1. s \in Range(x.steps) /\ s.active /\ ModeOf(s, x.p.mode) = x.p.exec
    BY <1>1, TakenFields DEF Emits
  <2>2. ModeOf(s, x.p.mode) # OutboxMode /\ ~WritesTransactionally(s)
    BY <1>1, <2>1, WithoutTransactionBelow DEF Light
  <2> QED
    BY <1>1, <2>1, <2>2 DEF Emits, Makes, Effect, WritesTransactionally
<1>2. \A x, y \in Calls : SubCall(x, y) => Weightless(y) \subseteq Weightless(x)
  BY LightOn DEF Weightless
<1>3. \A x \in Calls, e \in Effects : Emits(x, e) => e \in Weightless(x)
  BY <1>1 DEF Weightless
<1>4. \A x \in Calls : A[x] = Weightless(x)
  OBVIOUS
<1> HIDE DEF A
<1>5. Closed(A)
  BY <1>2, <1>3, <1>4 DEF Closed
<1> QED
  BY <1>5 DEF A

-----------------------------------------------------------------------------
(* What is known of the effects of a request, and of a replay.               *)
LEMMA OpensFields ==
  ASSUME NEW r \in Executions, NEW wf, wf # Triggered => wf \in Names, NEW fault \in Faults, NEW y \in Calls,
         Opens(wf, RequestContext(r, wf, fault), y)
  PROVE  /\ Quiet(y) /\ Shallow(y) /\ Least(y) = 1 /\ y.p.hops = 0
         /\ y.p.path = << <<"request", r>> >>
         /\ wf # Triggered => y.steps = Definition[wf].steps /\ y.p.mode = Definition[wf].mode
<1> DEFINE p == RequestContext(r, wf, fault)
<1>1. p \in Contexts /\ p.path = << <<"request", r>> >> /\ p.depth = 0 /\ p.hops = 0
  BY RequestContextType
<1> HIDE DEF p
<1>2. PICK v \in Names : Enters(v, p, y) /\ (wf # Triggered => v = wf)
  BY DEF Opens, Starts, p
<1>3. MaxDepth \in Nat
  BY WorkflowEngineAssumption
<1> QED
  BY <1>1, <1>2, <1>3, EnteredFields DEF Quiet, Shallow, Least, ValidateWorkflow

LEMMA RequestEffects ==
  ASSUME NEW r \in Executions, NEW fault \in Faults, NEW left \in Left, request[r].wf \in Wanted
  PROVE  LET st == RunRequest(r, fault, left)
         IN /\ st \in Runs
            /\ \A e \in Range(st.fx) :
                 /\ e \in Formed /\ e.op # "call"
                 /\ e.path # <<>> /\ e.path[1] = <<"request", r>>
                 /\ e.op = "queue" => e.event.hops = 1 /\ 1 <= e.event.depth /\ e.event.depth <= MaxDepth + 1
                 /\ RunsInTransaction(request[r].wf)
<1> DEFINE wf == request[r].wf
           p == RequestContext(r, wf, fault)
           st == RunRequest(r, fault, left)
           saved == Effect("create", p)
<1>1. wf # Triggered => wf \in Names
  BY DEF Wanted
<1>2. saved \in Effects /\ saved.op = "create" /\ saved.path = << <<"request", r>> >>
  BY RequestContextType, EffectType DEF Effect
<1>3. st \in Runs /\ Range(st.fx) \subseteq Formed
  <2> DEFINE A == [x \in Calls |-> Formed]
  <2>1. saved \in Formed
    BY <1>2 DEF Formed
  <2>2. \A y \in Calls : A[y] \subseteq Formed
    OBVIOUS
  <2>3. Closed(A)
    BY FormedClosed
  <2> HIDE DEF A
  <2> QED
    BY <1>1, <2>1, <2>2, <2>3, RunRequestFits
<1>4. Range(st.fx) \subseteq {e \in Effects : e.op # "call"}
  <2> DEFINE A == [x \in Calls |-> Uncalled(x)]
             B == {e \in Effects : e.op # "call"}
  <2>1. saved \in B
    BY <1>2
  <2>2. ASSUME NEW y \in Calls, Opens(wf, p, y) PROVE A[y] \subseteq B
    BY <1>1, <2>2, OpensFields DEF Uncalled
  <2>3. Closed(A)
    BY UncalledClosed
  <2> HIDE DEF A, B
  <2>4. Range(st.fx) \subseteq B
    BY <1>1, <2>1, <2>2, <2>3, RunRequestFits
  <2> QED
    BY <2>4 DEF B
<1>5. Range(st.fx) \subseteq Of(<< <<"request", r>> >>)
  <2> DEFINE A == [x \in Calls |-> Own(x)]
             B == Of(<< <<"request", r>> >>)
  <2>1. saved \in B
    BY <1>2 DEF Of
  <2>2. ASSUME NEW y \in Calls, Opens(wf, p, y) PROVE A[y] \subseteq B
    <3>1. y.p.path = << <<"request", r>> >>
      BY <1>1, <2>2, OpensFields
    <3>2. A[y] = Own(y)
      OBVIOUS
    <3> QED
      BY <3>1, <3>2 DEF Own
  <2>3. Closed(A)
    BY OwnClosed
  <2> HIDE DEF A, B
  <2>4. Range(st.fx) \subseteq B
    BY <1>1, <2>1, <2>2, <2>3, RunRequestFits
  <2> QED
    BY <2>4 DEF B
<1>6. Range(st.fx) \subseteq {e \in Effects : e.op = "queue" =>
                                 e.event.hops = 1 /\ 1 <= e.event.depth /\ e.event.depth <= MaxDepth + 1}
  <2> DEFINE A == [x \in Calls |-> Within(x)]
             B == {e \in Effects : e.op = "queue" => e.event.hops = 1 /\ 1 <= e.event.depth /\ e.event.depth <= MaxDepth + 1}
  <2>1. saved \in B
    BY <1>2
  <2>2. ASSUME NEW y \in Calls, Opens(wf, p, y) PROVE A[y] \subseteq B
    <3>1. Shallow(y) /\ Least(y) = 1 /\ y.p.hops = 0
      BY <1>1, <2>2, OpensFields
    <3>2. A[y] = Within(y)
      OBVIOUS
    <3> QED
      BY <3>1, <3>2 DEF Within, Formed
  <2>3. Closed(A)
    BY WithinClosed
  <2> HIDE DEF A, B
  <2>4. Range(st.fx) \subseteq B
    BY <1>1, <2>1, <2>2, <2>3, RunRequestFits
  <2> QED
    BY <2>4 DEF B
<1>7. ASSUME ~RunsInTransaction(wf) PROVE Range(st.fx) = {}
  <2> DEFINE A == [x \in Calls |-> Weightless(x)]
             B == {e \in Effects : e.op = "call"}
  <2>0. wf # Triggered /\ ~StepsRequireTransaction(Range(Definition[wf].steps), Definition[wf].mode)
    BY <1>7 DEF RunsInTransaction, RequiresTransaction
  <2>2. ASSUME NEW y \in Calls, Opens(wf, p, y) PROVE A[y] \subseteq B
    <3>1. Light(y)
      BY <1>1, <2>0, <2>2, OpensFields DEF Light, StepsRequireTransaction
    <3>2. A[y] = Weightless(y)
      OBVIOUS
    <3> QED
      BY <3>1, <3>2 DEF Weightless
  <2>3. Closed(A)
    BY WeightlessClosed
  <2> HIDE DEF A, B
  <2>4. Range(st.fx) \subseteq B
    BY <1>1, <2>0, <2>2, <2>3, RunRequestFits
  <2> QED
    BY <1>4, <2>4 DEF B
<1> HIDE DEF st, p, wf, saved
<1>8. ASSUME NEW e \in Range(st.fx)
      PROVE  /\ e \in Formed /\ e.op # "call"
             /\ e.path # <<>> /\ e.path[1] = <<"request", r>>
             /\ e.op = "queue" => e.event.hops = 1 /\ 1 <= e.event.depth /\ e.event.depth <= MaxDepth + 1
             /\ RunsInTransaction(wf)
  <2>1. e \in Formed
    BY <1>3
  <2>2. e.op # "call"
    BY <1>4
  <2>3. e.path # <<>> /\ e.path[1] = <<"request", r>>
    BY <1>5 DEF Of
  <2>4. e.op = "queue" => e.event.hops = 1 /\ 1 <= e.event.depth /\ e.event.depth <= MaxDepth + 1
    BY <1>6
  <2>5. RunsInTransaction(wf)
    BY <1>7
  <2> QED
    BY <2>1, <2>2, <2>3, <2>4, <2>5
<1> QED
  BY <1>3, <1>8 DEF st, wf

LEMMA ReplayEffects ==
  ASSUME NEW e \in Events, NEW fault \in Faults, NEW left \in Left
  PROVE  LET st == RunReplay(e, fault, left)
         IN /\ st \in Runs
            /\ \A f \in Range(st.fx) :
                 /\ f \in Formed
                 /\ ReplayRequiresTransaction(e.step) => f.op # "call"
                 /\ e.path # <<>> => f.path # <<>> /\ f.path[1] = e.path[1]
                 /\ f.op = "queue" => /\ f.event.hops = e.hops + 1
                                      /\ e.depth + 2 <= f.event.depth /\ f.event.depth <= MaxDepth + 1
<1> DEFINE p == ReplayContext(e, fault)
           s == e.step
           st == RunReplay(e, fault, left)
<1>1. /\ p \in Contexts /\ p.path = e.path /\ p.key = e.key /\ p.depth = e.depth /\ p.hops = e.hops
      /\ p.mode = Captured /\ p.exec = Transactional
  BY ReplayContextType
<1>2. s \in Steps /\ s.active /\ e.depth \in Nat /\ e.hops \in Nat /\ e.path \in Paths
  BY DEF Events
<1>3. MaxDepth \in Nat
  BY WorkflowEngineAssumption
<1>4. \A f \in Effects : Makes(s, p, f) => f.path = e.path /\ f.op \in {"create", "update", "call"}
  BY <1>1 DEF Makes, Effect
<1>5. \A y \in Calls : Does(s, p, y) /\ s.type = "execute_workflow" =>
        /\ y.p.mode # Captured /\ y.p.depth = e.depth + 1 /\ e.depth < MaxDepth /\ y.p.hops = e.hops /\ y.p.path = e.path
        /\ ValidList(y.steps, y.p.mode, ValidSteps)
  BY <1>1, <1>2, DoesFields DEF ValidateWorkflow
<1>6. \A y \in Calls : Does(s, p, y) /\ s.type # "execute_workflow" =>
        /\ s.type \in {"if", "for_each"} /\ Range(y.steps) \subseteq Children(s)
        /\ y.p.mode = Captured /\ y.p.depth = e.depth /\ y.p.hops = e.hops
        /\ y.p.path = e.path \/ \E item \in Places : y.p.path = Append(e.path, item)
  BY <1>1, <1>2, GroupFields DEF Keeps
<1> HIDE DEF p, s
<1>7. st \in Runs /\ Range(st.fx) \subseteq Formed
  <2> DEFINE A == [x \in Calls |-> Formed]
  <2>1. \A f \in Effects : Makes(s, p, f) => f \in Formed
    BY <1>4 DEF Formed
  <2>2. \A y \in Calls : A[y] \subseteq Formed
    OBVIOUS
  <2>3. Closed(A)
    BY FormedClosed
  <2> HIDE DEF A
  <2> QED
    BY <2>1, <2>2, <2>3, RunReplayFits DEF p, s
<1>8. ASSUME ReplayRequiresTransaction(s) PROVE Range(st.fx) \subseteq {f \in Effects : f.op # "call"}
  <2> DEFINE A == [x \in Calls |-> Uncalled(x)]
             B == {f \in Effects : f.op # "call"}
  <2>0. WritesTransactionally(s) \/ (s.type \in {"if", "for_each"} /\ ~TreeHasExternalEffects(s))
    BY <1>8 DEF ReplayRequiresTransaction
  <2>1. \A f \in Effects : Makes(s, p, f) => f \in B
    BY <2>0 DEF Makes, Effect, WritesTransactionally
  <2>2. ASSUME NEW y \in Calls, Does(s, p, y) PROVE A[y] \subseteq B
    <3>1. Quiet(y)
      <4>1. CASE s.type = "execute_workflow"
        BY <1>5, <2>2, <4>1 DEF Quiet
      <4>2. CASE s.type # "execute_workflow"
        <5>1. s.type \in {"if", "for_each"} /\ Range(y.steps) \subseteq Children(s) /\ y.p.mode = Captured
          BY <1>6, <2>2, <4>2
        <5>2. ~TreeHasExternalEffects(s)
          BY <2>0, <5>1 DEF WritesTransactionally
        <5>3. \A c \in Children(s) : ~TreeHasExternalEffects(c)
          BY <1>2, <5>2, InsideBelow
        <5> QED
          BY <5>1, <5>3 DEF Quiet
      <4> QED
        BY <4>1, <4>2
    <3>2. A[y] = Uncalled(y)
      OBVIOUS
    <3> QED
      BY <3>1, <3>2 DEF Uncalled
  <2>3. Closed(A)
    BY UncalledClosed
  <2> HIDE DEF A, B
  <2>4. Range(st.fx) \subseteq B
    BY <2>1, <2>2, <2>3, RunReplayFits DEF p, s
  <2> QED
    BY <2>4 DEF B
<1>9. ASSUME e.path # <<>> PROVE Range(st.fx) \subseteq Of(e.path)
  <2> DEFINE A == [x \in Calls |-> Own(x)]
             B == Of(e.path)
  <2>1. \A f \in Effects : Makes(s, p, f) => f \in B
    BY <1>4, <1>9 DEF Of
  <2>2. ASSUME NEW y \in Calls, Does(s, p, y) PROVE A[y] \subseteq B
    <3>1. y.p.path # <<>> /\ y.p.path[1] = e.path[1]
      <4>1. CASE y.p.path = e.path
        BY <1>9, <4>1
      <4>2. CASE \E item \in Places : y.p.path = Append(e.path, item)
        BY <1>2, <1>9, <4>2, FirstKept
      <4> QED
        BY <1>5, <1>6, <2>2, <4>1, <4>2
    <3>2. A[y] = Own(y)
      OBVIOUS
    <3> QED
      BY <3>1, <3>2 DEF Own, Of
  <2>3. Closed(A)
    BY OwnClosed
  <2> HIDE DEF A, B
  <2>4. Range(st.fx) \subseteq B
    BY <2>1, <2>2, <2>3, RunReplayFits DEF p, s
  <2> QED
    BY <2>4 DEF B
<1>10. Range(st.fx) \subseteq {f \in Effects : f.op = "queue" =>
         f.event.hops = e.hops + 1 /\ e.depth + 2 <= f.event.depth /\ f.event.depth <= MaxDepth + 1}
  <2> DEFINE A == [x \in Calls |-> Within(x)]
             B == {f \in Effects : f.op = "queue" =>
                     f.event.hops = e.hops + 1 /\ e.depth + 2 <= f.event.depth /\ f.event.depth <= MaxDepth + 1}
  <2>1. \A f \in Effects : Makes(s, p, f) => f \in B
    BY <1>4
  <2>2. ASSUME NEW y \in Calls, Does(s, p, y) PROVE A[y] \subseteq B
    <3>1. Shallow(y) /\ Least(y) = e.depth + 2 /\ y.p.hops = e.hops
      <4>1. CASE s.type = "execute_workflow"
        BY <1>2, <1>3, <1>5, <2>2, <4>1 DEF Shallow, Least
      <4>2. CASE s.type # "execute_workflow"
        BY <1>6, <2>2, <4>2 DEF Shallow, Least
      <4> QED
        BY <4>1, <4>2
    <3>2. A[y] = Within(y)
      OBVIOUS
    <3> QED
      BY <3>1, <3>2 DEF Within, Formed
  <2>3. Closed(A)
    BY WithinClosed
  <2> HIDE DEF A, B
  <2>4. Range(st.fx) \subseteq B
    BY <2>1, <2>2, <2>3, RunReplayFits DEF p, s
  <2> QED
    BY <2>4 DEF B
<1> HIDE DEF st
<1>11. ASSUME NEW f \in Range(st.fx)
       PROVE  /\ f \in Formed
              /\ ReplayRequiresTransaction(e.step) => f.op # "call"
              /\ e.path # <<>> => f.path # <<>> /\ f.path[1] = e.path[1]
              /\ f.op = "queue" => /\ f.event.hops = e.hops + 1
                                   /\ e.depth + 2 <= f.event.depth /\ f.event.depth <= MaxDepth + 1
  <2>1. f \in Formed
    BY <1>7
  <2>2. ReplayRequiresTransaction(e.step) => f.op # "call"
    BY <1>8 DEF s
  <2>3. e.path # <<>> => f.path # <<>> /\ f.path[1] = e.path[1]
    BY <1>9 DEF Of
  <2>4. f.op = "queue" => f.event.hops = e.hops + 1 /\ e.depth + 2 <= f.event.depth /\ f.event.depth <= MaxDepth + 1
    BY <1>10
  <2> QED
    BY <2>1, <2>2, <2>3, <2>4
<1> QED
  BY <1>7, <1>11 DEF st

-----------------------------------------------------------------------------
(* What runs at a path: the steps of its list or the step itself, the mode    *)
(* they run in, and the key of its effects. It follows from the path alone.  *)
Frames == [kind : {"none", "top", "list", "step"}, steps : Seq(Steps), mode : Modes, key : Keys]
Frame(kind, steps, mode, key) == [kind |-> kind, steps |-> steps, mode |-> mode, key |-> key]
NoFrame == Frame("none", <<>>, "", <<>>)

StepsFrom(f, wf) == IF f.kind = "list" THEN f.steps ELSE Definition[wf].steps
ModeFrom(f, wf) == IF f.kind = "list" THEN f.mode ELSE Definition[wf].mode
KeyFrom(f, wf, path) == IF f.kind = "top" /\ IsRoot(wf) THEN << <<"root", path[1][2]>> >> ELSE f.key

StepFrame(f, wf, i, path) ==
  LET s == StepsFrom(f, wf)[i + 1]
      mode == ModeFrom(f, wf)
      key == ScopedKey(KeyFrom(f, wf, path), wf, s, i)
  IN IF ModeOf(s, mode) = OutboxMode
     THEN Frame("step", <<s>>, Captured, IF key = <<>> THEN << <<"event", path>> >> ELSE ScopedKey(key, wf, s, 0))
     ELSE Frame("step", <<s>>, mode, key)

NextFrame(f, item, path) ==
  CASE item[1] = "request" -> IF Len(path) = 1 THEN Frame("top", <<>>, "", <<>>) ELSE NoFrame
    [] item[1] = "step"    -> StepFrame(f, item[2], item[3], path)
    [] item[1] = "loop"    -> Frame("list", f.steps[1].steps, f.mode, LoopKey(f.key, item[2]))
    [] OTHER               -> Frame("list", Branches(f.steps[1])[item[2] + 1].steps, f.mode, BranchKey(f.key, item[2]))

Framed(f) == IF f \in Frames THEN f ELSE NoFrame

Before(path) == CHOOSE q \in Paths : \E item \in Places : path = Append(q, item)
Final(path) == CHOOSE item \in Places : \E q \in Paths : path = Append(q, item)

Longer ==
  [x \in Nat \X [Paths -> Frames] |->
     [path \in Paths |-> IF path = <<>> THEN NoFrame ELSE Framed(NextFrame(x[2][Before(path)], Final(path), path))]]

AllFrames == CHOOSE f : IsIterate(f, [Paths -> Frames], [path \in Paths |-> NoFrame], Longer)
FrameAt(path) == AllFrames[Len(path)][path]

LEMMA BeforeFinal ==
  ASSUME NEW path \in Paths, NEW item \in Places
  PROVE  /\ Append(path, item) \in Paths /\ Append(path, item) # <<>>
         /\ Len(Append(path, item)) = Len(path) + 1
         /\ Before(Append(path, item)) = path /\ Final(Append(path, item)) = item
<1>1. path \in Seq(Places)
  BY DEF Paths
<1>2. Append(path, item) \in Paths /\ Append(path, item) # <<>> /\ Len(Append(path, item)) = Len(path) + 1
  BY <1>1, AppendProperties DEF Paths
<1>3. \A q \in Paths, other \in Places : Append(path, item) = Append(q, other) => q = path /\ other = item
  BY <1>1, AppendInjective DEF Paths
<1>4. Before(Append(path, item)) = path
  BY <1>3 DEF Before
<1>5. Final(Append(path, item)) = item
  BY <1>3 DEF Final
<1> QED
  BY <1>2, <1>4, <1>5

LEMMA NoFrameType == NoFrame \in Frames
<1>1. <<>> \in Seq(Steps) /\ "" \in Modes /\ <<>> \in Keys
  BY DEF Modes, Keys
<1> QED
  BY <1>1 DEF NoFrame, Frame, Frames

LEMMA FramedType == ASSUME NEW f PROVE Framed(f) \in Frames
BY NoFrameType DEF Framed

LEMMA AllFramesAre == IsIterate(AllFrames, [Paths -> Frames], [path \in Paths |-> NoFrame], Longer)
<1>1. [path \in Paths |-> NoFrame] \in [Paths -> Frames]
  BY NoFrameType
<1>2. Longer \in [Nat \X [Paths -> Frames] -> [Paths -> Frames]]
  <2>1. ASSUME NEW x \in Nat \X [Paths -> Frames]
        PROVE  [path \in Paths |-> IF path = <<>> THEN NoFrame ELSE Framed(NextFrame(x[2][Before(path)], Final(path), path))]
                 \in [Paths -> Frames]
    BY NoFrameType, FramedType
  <2> QED
    BY <2>1 DEF Longer
<1>3. \E f : IsIterate(f, [Paths -> Frames], [path \in Paths |-> NoFrame], Longer)
  BY <1>1, <1>2, Iterates
<1> QED
  BY <1>3 DEF AllFrames

LEMMA FrameAtIs ==
  /\ FrameAt(<<>>) = NoFrame
  /\ \A path \in Paths : FrameAt(path) \in Frames
  /\ \A path \in Paths, item \in Places :
       FrameAt(Append(path, item)) = Framed(NextFrame(FrameAt(path), item, Append(path, item)))
<1>1. /\ AllFrames \in [Nat -> [Paths -> Frames]] /\ AllFrames[0] = [path \in Paths |-> NoFrame]
      /\ \A n \in Nat : AllFrames[n + 1] = Longer[<<n, AllFrames[n]>>]
  BY AllFramesAre DEF IsIterate
<1>2. <<>> \in Paths /\ Len(<<>>) = 0
  BY DEF Paths
<1>3. FrameAt(<<>>) = NoFrame
  BY <1>1, <1>2 DEF FrameAt
<1>4. \A path \in Paths : FrameAt(path) \in Frames
  BY <1>1 DEF FrameAt, Paths
<1>5. ASSUME NEW path \in Paths, NEW item \in Places
      PROVE  FrameAt(Append(path, item)) = Framed(NextFrame(FrameAt(path), item, Append(path, item)))
  <2> DEFINE n == Len(path)
             longer == Append(path, item)
  <2>1. n \in Nat /\ longer \in Paths /\ longer # <<>> /\ Len(longer) = n + 1 /\ Before(longer) = path /\ Final(longer) = item
    BY BeforeFinal DEF Paths
  <2>2. AllFrames[n] \in [Paths -> Frames]
    BY <1>1, <2>1
  <2>3. AllFrames[n + 1] = Longer[<<n, AllFrames[n]>>]
    BY <1>1, <2>1
  <2>4. Longer[<<n, AllFrames[n]>>] =
          [q \in Paths |-> IF q = <<>> THEN NoFrame ELSE Framed(NextFrame(AllFrames[n][Before(q)], Final(q), q))]
    BY <2>1, <2>2 DEF Longer
  <2> HIDE DEF longer
  <2>5. AllFrames[n + 1][longer] = Framed(NextFrame(AllFrames[n][path], item, longer))
    BY <2>1, <2>3, <2>4
  <2> QED
    BY <2>1, <2>5 DEF FrameAt, longer
<1> QED
  BY <1>3, <1>4, <1>5

(* The captured step a path runs under, or is: none as long as none is.      *)
Captures(path, item) ==
  LET f == FrameAt(path)
  IN item[1] = "step" /\ ModeOf(StepsFrom(f, item[2])[item[3] + 1], ModeFrom(f, item[2])) = OutboxMode

Owning ==
  [x \in Nat \X [Paths -> Paths] |->
     [path \in Paths |-> IF path = <<>> THEN <<>>
                         ELSE IF Captures(Before(path), Final(path)) THEN path ELSE x[2][Before(path)]]]

AllOwners == CHOOSE f : IsIterate(f, [Paths -> Paths], [path \in Paths |-> <<>>], Owning)
OwnerAt(path) == AllOwners[Len(path)][path]

LEMMA AllOwnersAre == IsIterate(AllOwners, [Paths -> Paths], [path \in Paths |-> <<>>], Owning)
<1>1. <<>> \in Paths
  BY DEF Paths
<1>2. [path \in Paths |-> <<>>] \in [Paths -> Paths]
  BY <1>1
<1>3. \A path \in Paths : path # <<>> => Before(path) \in Paths
  <2> SUFFICES ASSUME NEW path \in Paths, path # <<>> PROVE Before(path) \in Paths
    OBVIOUS
  <2>1. PICK q \in Paths, item \in Places : path = Append(q, item)
    BY SequenceEmptyOrAppend DEF Paths
  <2> QED
    BY <2>1, BeforeFinal
<1>4. Owning \in [Nat \X [Paths -> Paths] -> [Paths -> Paths]]
  <2>1. ASSUME NEW x \in Nat \X [Paths -> Paths]
        PROVE  [path \in Paths |-> IF path = <<>> THEN <<>>
                                   ELSE IF Captures(Before(path), Final(path)) THEN path ELSE x[2][Before(path)]]
                 \in [Paths -> Paths]
    BY <1>1, <1>3
  <2> QED
    BY <2>1 DEF Owning
<1>5. \E f : IsIterate(f, [Paths -> Paths], [path \in Paths |-> <<>>], Owning)
  BY <1>2, <1>4, Iterates
<1> QED
  BY <1>5 DEF AllOwners

LEMMA OwnerAtIs ==
  /\ OwnerAt(<<>>) = <<>>
  /\ \A path \in Paths, item \in Places :
       OwnerAt(Append(path, item)) = IF Captures(path, item) THEN Append(path, item) ELSE OwnerAt(path)
<1>1. /\ AllOwners \in [Nat -> [Paths -> Paths]] /\ AllOwners[0] = [path \in Paths |-> <<>>]
      /\ \A n \in Nat : AllOwners[n + 1] = Owning[<<n, AllOwners[n]>>]
  BY AllOwnersAre DEF IsIterate
<1>2. <<>> \in Paths /\ Len(<<>>) = 0
  BY DEF Paths
<1>3. OwnerAt(<<>>) = <<>>
  BY <1>1, <1>2 DEF OwnerAt
<1>4. ASSUME NEW path \in Paths, NEW item \in Places
      PROVE  OwnerAt(Append(path, item)) = IF Captures(path, item) THEN Append(path, item) ELSE OwnerAt(path)
  <2> DEFINE n == Len(path)
             longer == Append(path, item)
  <2>1. n \in Nat /\ longer \in Paths /\ longer # <<>> /\ Len(longer) = n + 1 /\ Before(longer) = path /\ Final(longer) = item
    BY BeforeFinal DEF Paths
  <2>2. AllOwners[n] \in [Paths -> Paths]
    BY <1>1, <2>1
  <2>3. AllOwners[n + 1] = Owning[<<n, AllOwners[n]>>]
    BY <1>1, <2>1
  <2>4. Owning[<<n, AllOwners[n]>>] =
          [q \in Paths |-> IF q = <<>> THEN <<>> ELSE IF Captures(Before(q), Final(q)) THEN q ELSE AllOwners[n][Before(q)]]
    BY <2>1, <2>2 DEF Owning
  <2> HIDE DEF longer
  <2>5. AllOwners[n + 1][longer] = IF Captures(path, item) THEN longer ELSE AllOwners[n][path]
    BY <2>1, <2>3, <2>4
  <2> QED
    BY <2>1, <2>5 DEF OwnerAt, longer
<1> QED
  BY <1>3, <1>4

(* A call runs what its path says, and a step what is there.                 *)
Placed(x) ==
  LET f == FrameAt(x.p.path)
  IN /\ x.p.path # <<>>
     /\ IF x.loop THEN f.kind = "step" /\ f.steps[1].steps = x.steps /\ f.mode = x.p.mode /\ f.key = x.p.key
        ELSE /\ f.kind # "none" /\ x.steps = StepsFrom(f, x.p.wf) /\ x.p.mode = ModeFrom(f, x.p.wf)
             /\ x.p.key = KeyFrom(f, x.p.wf, x.p.path)

Seated(path, s, mode, key) == path # <<>> /\ FrameAt(path) = Frame("step", <<s>>, mode, key)

LEMMA FrameFields ==
  ASSUME NEW kind, NEW steps, NEW mode, NEW key
  PROVE  LET f == Frame(kind, steps, mode, key)
         IN f.kind = kind /\ f.steps = steps /\ f.mode = mode /\ f.key = key
BY DEF Frame

LEMMA FrameType ==
  ASSUME NEW kind \in {"none", "top", "list", "step"}, NEW steps \in Seq(Steps), NEW mode \in Modes, NEW key \in Keys
  PROVE  Frame(kind, steps, mode, key) \in Frames /\ Framed(Frame(kind, steps, mode, key)) = Frame(kind, steps, mode, key)
BY DEF Frame, Frames, Framed

LEMMA StepSeated ==
  ASSUME NEW x \in Calls, Taken(x), Placed(x)
  PROVE  LET s == x.steps[x.i + 1]
             q == Stepping(x)
         IN IF x.p.exec = OutboxMode THEN Seated(q.path, s, Captured, EventKey(q, s)) ELSE Seated(q.path, s, x.p.mode, q.key)
<1> DEFINE s == x.steps[x.i + 1]
           q == Stepping(x)
           f == FrameAt(x.p.path)
           item == <<"step", x.p.wf, x.i>>
           path == Append(x.p.path, item)
           k == ScopedKey(x.p.key, x.p.wf, s, x.i)
           queued == IF k = <<>> THEN << <<"event", path>> >> ELSE ScopedKey(k, x.p.wf, s, 0)
<1>1. /\ s \in Steps /\ q \in Contexts /\ Keeps(q, x.p) /\ q.path = path /\ q.key = k /\ ModeOf(s, x.p.mode) = x.p.exec
  BY TakenFields
<1>2. /\ x.p.path \in Paths /\ x.p.path # <<>> /\ x.p.wf \in Scopes /\ x.i \in Nat /\ x.p.mode \in Modes /\ q.key \in Keys
      /\ EventKey(q, s) \in Keys
  <2>1. x.p.path \in Paths /\ x.p.wf \in Scopes /\ x.i \in Nat /\ x.p.mode \in Modes
    BY DEF Calls, Contexts
  <2>2. q.key \in Keys /\ EventKey(q, s) \in Keys
    <3>1. s.active
      BY TakenFields
    <3>2. StepEvent(s, q) \in Events
      BY <1>1, <3>1, StepEventType
    <3> QED
      BY <1>1, <3>2 DEF Events, StepEvent, Contexts
  <2> QED
    BY <2>1, <2>2 DEF Placed
<1>3. item \in Places
  BY <1>2 DEF Places
<1>4. path # <<>> /\ path \in Paths /\ path[1] = x.p.path[1]
  BY <1>2, <1>3, BeforeFinal, FirstKept
<1>5. FrameAt(path) = Framed(NextFrame(f, item, path))
  BY <1>2, <1>3, FrameAtIs
<1>6. NextFrame(f, item, path) = StepFrame(f, x.p.wf, x.i, path)
  BY DEF NextFrame
<1>7. ~x.loop /\ x.steps = StepsFrom(f, x.p.wf) /\ x.p.mode = ModeFrom(f, x.p.wf) /\ x.p.key = KeyFrom(f, x.p.wf, x.p.path)
  BY DEF Placed, Taken
<1>8. KeyFrom(f, x.p.wf, path) = x.p.key
  BY <1>4, <1>7 DEF KeyFrom
<1>9. EventKey(q, s) = queued
  BY <1>1 DEF EventKey, Keeps
<1>10. StepFrame(f, x.p.wf, x.i, path) =
         IF x.p.exec = OutboxMode THEN Frame("step", <<s>>, Captured, queued) ELSE Frame("step", <<s>>, x.p.mode, k)
  BY <1>1, <1>7, <1>8 DEF StepFrame
<1>11. <<s>> \in Seq(Steps) /\ Captured \in Modes
  BY <1>1 DEF Modes
<1> HIDE DEF path, queued, k, q, s, f, item
<1>12. CASE x.p.exec = OutboxMode
  <2>1. Framed(Frame("step", <<s>>, Captured, queued)) = Frame("step", <<s>>, Captured, queued)
    BY <1>2, <1>9, <1>11, FrameType
  <2>2. FrameAt(q.path) = Frame("step", <<s>>, Captured, EventKey(q, s))
    BY <1>1, <1>5, <1>6, <1>9, <1>10, <1>12, <2>1
  <2> QED
    BY <1>1, <1>4, <1>12, <2>2 DEF Seated, s, q
<1>13. CASE x.p.exec # OutboxMode
  <2>1. Framed(Frame("step", <<s>>, x.p.mode, q.key)) = Frame("step", <<s>>, x.p.mode, q.key)
    BY <1>2, <1>11, FrameType
  <2>2. FrameAt(q.path) = Frame("step", <<s>>, x.p.mode, q.key)
    BY <1>1, <1>5, <1>6, <1>10, <1>13, <2>1
  <2> QED
    BY <1>1, <1>4, <1>13, <2>2 DEF Seated, s, q
<1> QED
  BY <1>12, <1>13

LEMMA ListPlaced ==
  ASSUME NEW p \in Contexts, NEW s \in Steps, Seated(p.path, s, p.mode, p.key), NEW y \in Calls, Does(s, p, y)
  PROVE  Placed(y)
<1> DEFINE f == FrameAt(p.path)
<1>0. /\ p.path \in Paths /\ p.path # <<>> /\ p.mode \in Modes /\ p.key \in Keys
      /\ f.kind = "step" /\ f.steps = <<s>> /\ f.steps[1] = s /\ f.mode = p.mode /\ f.key = p.key
  BY FrameFields DEF Contexts, Seated
<1>1. CASE s.type = "if"
  <2>1. PICK b \in DOMAIN Branches(s) : y.steps = Branches(s)[b].steps /\ y.p = Branching(s, p, b) /\ ~y.loop
    BY <1>1, DoesFields
  <2> DEFINE item == <<"branch", b - 1>>
             path == Append(p.path, item)
             steps == Branches(s)[b].steps
  <2>2. y.p.path = path /\ y.p.key = BranchKey(p.key, b - 1) /\ y.p.mode = p.mode
    BY <2>1, BranchingFields DEF Keeps
  <2>3. item \in Places /\ b - 1 \in Nat /\ steps \in Seq(Steps) /\ BranchKey(p.key, b - 1) \in Keys
    <3>1. b - 1 \in Nat
      BY BranchesAre
    <3> QED
      BY <1>0, <2>1, <3>1, KeyTypes DEF Places, Calls
  <2>4. FrameAt(path) = Framed(NextFrame(f, item, path)) /\ path # <<>>
    BY <1>0, <2>3, FrameAtIs, BeforeFinal
  <2>5. NextFrame(f, item, path) = Frame("list", Branches(f.steps[1])[item[2] + 1].steps, f.mode, BranchKey(f.key, item[2]))
    BY DEF NextFrame
  <2>6. item[2] = b - 1 /\ item[2] + 1 = b
    BY BranchesAre
  <2>7. NextFrame(f, item, path) = Frame("list", steps, p.mode, BranchKey(p.key, b - 1))
    BY <1>0, <2>5, <2>6
  <2> HIDE DEF item, path, steps, f
  <2>8. FrameAt(path) = Frame("list", steps, p.mode, BranchKey(p.key, b - 1))
    BY <1>0, <2>3, <2>4, <2>7, FrameType
  <2>9. FrameAt(path).kind = "list" /\ FrameAt(path).steps = steps /\ FrameAt(path).mode = p.mode
        /\ FrameAt(path).key = BranchKey(p.key, b - 1)
    BY <2>8, FrameFields
  <2> QED
    BY <2>1, <2>2, <2>4, <2>9 DEF Placed, StepsFrom, ModeFrom, KeyFrom, steps
<1>2. CASE s.type = "for_each"
  <2>1. y.loop /\ y.p = p /\ y.steps = s.steps
    BY <1>2, DoesFields
  <2> QED
    BY <1>0, <2>1 DEF Placed
<1>3. CASE s.type \notin {"if", "for_each"}
  <2>1. /\ y.steps = Definition[s.target].steps /\ ~y.loop /\ y.p.wf = s.target /\ y.p.mode = Definition[s.target].mode
        /\ y.p.path = p.path /\ y.p.key = p.key
    BY <1>3, DoesFields
  <2> QED
    BY <1>0, <2>1 DEF Placed, StepsFrom, ModeFrom, KeyFrom
<1> QED
  BY <1>1, <1>2, <1>3

LEMMA PlacedOn ==
  ASSUME NEW x \in Calls, NEW y \in Calls, SubCall(x, y), Placed(x)
  PROVE  Placed(y)
<1>1. CASE y.p = x.p /\ y.steps = x.steps /\ y.loop = x.loop
  BY <1>1 DEF Placed
<1>2. CASE Taken(x) /\ x.p.exec # OutboxMode /\ Does(x.steps[x.i + 1], Stepping(x), y)
  <2>1. x.steps[x.i + 1] \in Steps /\ Stepping(x) \in Contexts /\ Stepping(x).mode = x.p.mode
    BY <1>2, TakenFields DEF Keeps
  <2>2. Seated(Stepping(x).path, x.steps[x.i + 1], Stepping(x).mode, Stepping(x).key)
    BY <1>2, <2>1, StepSeated
  <2> QED
    BY <1>2, <2>1, <2>2, ListPlaced
<1>3. CASE x.loop /\ ~y.loop /\ y.p = Item(x) /\ y.steps = x.steps
  <2> DEFINE f == FrameAt(x.p.path)
             item == <<"loop", x.i>>
             path == Append(x.p.path, item)
             key == LoopKey(x.p.key, x.i)
  <2>1. y.p.path = path /\ y.p.key = key /\ y.p.mode = x.p.mode
    BY <1>3, ItemType DEF Keeps
  <2>2. x.p.path \in Paths /\ x.i \in Nat /\ x.p.key \in Keys /\ x.p.mode \in Modes /\ x.steps \in Seq(Steps)
    BY DEF Calls, Contexts
  <2>3. item \in Places /\ key \in Keys
    BY <2>2, KeyTypes DEF Places
  <2>4. FrameAt(path) = Framed(NextFrame(f, item, path)) /\ path # <<>>
    BY <2>2, <2>3, FrameAtIs, BeforeFinal
  <2>5. f.steps[1].steps = x.steps /\ f.mode = x.p.mode /\ f.key = x.p.key
    BY <1>3 DEF Placed
  <2>6. NextFrame(f, item, path) = Frame("list", x.steps, x.p.mode, key)
    BY <2>5 DEF NextFrame
  <2> HIDE DEF item, path, key, f
  <2>7. FrameAt(path) = Frame("list", x.steps, x.p.mode, key)
    BY <2>2, <2>3, <2>4, <2>6, FrameType
  <2>8. FrameAt(path).kind = "list" /\ FrameAt(path).steps = x.steps /\ FrameAt(path).mode = x.p.mode /\ FrameAt(path).key = key
    BY <2>7, FrameFields
  <2> QED
    BY <1>3, <2>1, <2>4, <2>8 DEF Placed, StepsFrom, ModeFrom, KeyFrom
<1> QED
  BY <1>1, <1>2, <1>3, SubCallFields

(* What a call runs is under the same captured step, but for what it queues. *)
LEMMA SteppingOwner ==
  ASSUME NEW x \in Calls, Taken(x), Placed(x)
  PROVE  OwnerAt(Stepping(x).path) = IF x.p.exec = OutboxMode THEN Stepping(x).path ELSE OwnerAt(x.p.path)
<1> DEFINE item == <<"step", x.p.wf, x.i>>
<1>1. Stepping(x).path = Append(x.p.path, item) /\ ModeOf(x.steps[x.i + 1], x.p.mode) = x.p.exec
  BY TakenFields
<1>2. x.p.path \in Paths /\ item \in Places
  BY DEF Calls, Contexts, Places
<1>3. x.steps = StepsFrom(FrameAt(x.p.path), x.p.wf) /\ x.p.mode = ModeFrom(FrameAt(x.p.path), x.p.wf)
  BY DEF Placed, Taken
<1>4. Captures(x.p.path, item) <=> x.p.exec = OutboxMode
  BY <1>1, <1>3 DEF Captures
<1> HIDE DEF item
<1> QED
  BY <1>1, <1>2, <1>4, OwnerAtIs

LEMMA DoesOwner ==
  ASSUME NEW p \in Contexts, NEW s \in Steps, NEW y \in Calls, Does(s, p, y)
  PROVE  OwnerAt(y.p.path) = OwnerAt(p.path)
<1>1. CASE s.type = "if"
  <2>1. PICK b \in DOMAIN Branches(s) : y.p = Branching(s, p, b)
    BY <1>1, DoesFields
  <2> DEFINE item == <<"branch", b - 1>>
  <2>2. y.p.path = Append(p.path, item) /\ b - 1 \in Nat
    BY <2>1, BranchingFields, BranchesAre
  <2>3. item \in Places /\ p.path \in Paths /\ ~Captures(p.path, item)
    BY <2>2 DEF Places, Contexts, Captures
  <2> HIDE DEF item
  <2> QED
    BY <2>2, <2>3, OwnerAtIs
<1>2. CASE s.type # "if"
  BY <1>2, DoesFields
<1> QED
  BY <1>1, <1>2

LEMMA OwnerOn ==
  ASSUME NEW x \in Calls, NEW y \in Calls, SubCall(x, y), Placed(x)
  PROVE  OwnerAt(y.p.path) = OwnerAt(x.p.path)
<1>1. CASE y.p = x.p
  BY <1>1
<1>2. CASE Taken(x) /\ x.p.exec # OutboxMode /\ Does(x.steps[x.i + 1], Stepping(x), y)
  <2>1. x.steps[x.i + 1] \in Steps /\ Stepping(x) \in Contexts
    BY <1>2, TakenFields
  <2> QED
    BY <1>2, <2>1, SteppingOwner, DoesOwner
<1>3. CASE y.p = Item(x)
  <2> DEFINE item == <<"loop", x.i>>
  <2>1. y.p.path = Append(x.p.path, item)
    BY <1>3, ItemType
  <2>2. item \in Places /\ x.p.path \in Paths /\ ~Captures(x.p.path, item)
    BY DEF Places, Calls, Contexts, Captures
  <2> HIDE DEF item
  <2> QED
    BY <2>1, <2>2, OwnerAtIs
<1> QED
  BY <1>1, <1>2, <1>3, SubCallFields

(* The key of an effect is the one of its path, and its event is what is     *)
(* captured there; an effect of the captured step o is under it.             *)
Rightful(e) ==
  /\ e.key = FrameAt(e.path).key
  /\ e.op = "queue" => Seated(e.path, e.event.step, Captured, e.key)

Belongs(e, o) == OwnerAt(e.path) = IF e.op = "queue" THEN e.path ELSE o

Right(x) == {e \in Effects : Placed(x) => Rightful(e) /\ Belongs(e, OwnerAt(x.p.path))}

LEMMA SeatedMakes ==
  ASSUME NEW p \in Contexts, NEW s, NEW mode, Seated(p.path, s, mode, p.key), NEW e, Makes(s, p, e)
  PROVE  Rightful(e)
<1>1. e.path = p.path /\ e.key = p.key /\ e.op # "queue"
  BY DEF Makes, Effect
<1> QED
  BY <1>1, FrameFields DEF Rightful, Seated

LEMMA RightClosed == Closed([x \in Calls |-> Right(x)])
<1> DEFINE A == [x \in Calls |-> Right(x)]
<1>1. ASSUME NEW x \in Calls, NEW e \in Effects, Emits(x, e), Placed(x)
      PROVE  Rightful(e) /\ Belongs(e, OwnerAt(x.p.path))
  <2> DEFINE s == x.steps[x.i + 1]
             q == Stepping(x)
  <2>0. Taken(x)
    BY <1>1 DEF Emits
  <2>1. IF x.p.exec = OutboxMode THEN Seated(q.path, s, Captured, EventKey(q, s)) ELSE Seated(q.path, s, x.p.mode, q.key)
    BY <1>1, <2>0, StepSeated
  <2>2. q \in Contexts
    BY <2>0, TakenFields
  <2>3. IF x.p.exec = OutboxMode THEN e = Queued(s, q) ELSE Makes(s, q, e)
    BY <1>1 DEF Emits
  <2>a. OwnerAt(q.path) = IF x.p.exec = OutboxMode THEN q.path ELSE OwnerAt(x.p.path)
    BY <1>1, <2>0, SteppingOwner
  <2> HIDE DEF s, q
  <2>4. CASE x.p.exec = OutboxMode
    <3>1. e.op = "queue" /\ e.path = q.path /\ e.key = EventKey(q, s) /\ e.event.step = s
      BY <2>3, <2>4 DEF Queued, StepEvent
    <3>2. Rightful(e)
      BY <2>1, <2>4, <3>1, FrameFields DEF Rightful, Seated
    <3> QED
      BY <2>4, <2>a, <3>1, <3>2 DEF Belongs
  <2>5. CASE x.p.exec # OutboxMode
    <3>1. Rightful(e)
      BY <2>1, <2>2, <2>3, <2>5, SeatedMakes
    <3>2. e.path = q.path /\ e.op # "queue"
      BY <2>3, <2>5 DEF Makes, Effect
    <3> QED
      BY <2>5, <2>a, <3>1, <3>2 DEF Belongs
  <2> QED
    BY <2>4, <2>5
<1>2. \A x, y \in Calls : SubCall(x, y) => Right(y) \subseteq Right(x)
  <2> SUFFICES ASSUME NEW x \in Calls, NEW y \in Calls, SubCall(x, y), Placed(x), NEW e \in Right(y)
               PROVE  Rightful(e) /\ Belongs(e, OwnerAt(x.p.path))
    BY DEF Right
  <2>1. Placed(y) /\ OwnerAt(y.p.path) = OwnerAt(x.p.path)
    BY PlacedOn, OwnerOn
  <2> QED
    BY <2>1 DEF Right
<1>3. \A x \in Calls, e \in Effects : Emits(x, e) => e \in Right(x)
  BY <1>1 DEF Right
<1>4. \A x \in Calls : A[x] = Right(x)
  OBVIOUS
<1> HIDE DEF A
<1>5. Closed(A)
  BY <1>2, <1>3, <1>4 DEF Closed
<1> QED
  BY <1>5 DEF A

(* Where there are keys, all effects have one.                               *)
Lasting(x) == {e \in Effects : x.p.key # <<>> => e.key # <<>>}

LEMMA KeyOn ==
  ASSUME NEW key \in Keys, key # <<>>, NEW i \in Nat, NEW wf \in Scopes, NEW s \in Steps
  PROVE  ScopedKey(key, wf, s, i) # <<>> /\ LoopKey(key, i) # <<>> /\ BranchKey(key, i) # <<>>
<1>1. \A part : Append(key, part) # <<>>
  BY DEF Keys
<1> QED
  BY <1>1 DEF ScopedKey, LoopKey, BranchKey

LEMMA DoesKeyed ==
  ASSUME NEW p \in Contexts, NEW s \in Steps, NEW y \in Calls, Does(s, p, y), p.key # <<>>
  PROVE  y.p.key # <<>>
<1>0. p.key \in Keys
  BY DEF Contexts
<1>1. CASE s.type = "if"
  <2>1. PICK b \in DOMAIN Branches(s) : y.p = Branching(s, p, b)
    BY <1>1, DoesFields
  <2>2. y.p.key = BranchKey(p.key, b - 1)
    BY <2>1, BranchingFields
  <2>3. \A part : Append(p.key, part) # <<>>
    BY <1>0 DEF Keys
  <2> QED
    BY <2>2, <2>3 DEF BranchKey
<1>2. CASE s.type # "if"
  BY <1>2, DoesFields
<1> QED
  BY <1>1, <1>2

LEMMA LastingClosed == Closed([x \in Calls |-> Lasting(x)])
<1> DEFINE A == [x \in Calls |-> Lasting(x)]
<1>0. \A x \in Calls : x.p.key \in Keys /\ x.p.wf \in Scopes /\ x.i \in Nat /\ x.p \in Contexts
  BY DEF Calls, Contexts
<1>1. ASSUME NEW x \in Calls, NEW e \in Effects, Emits(x, e), x.p.key # <<>> PROVE e.key # <<>>
  <2>1. Stepping(x).key # <<>> /\ Stepping(x) \in Contexts
    BY <1>0, <1>1, TakenFields, KeyOn DEF Emits
  <2>2. CASE x.p.exec = OutboxMode
    <3>1. e.key = EventKey(Stepping(x), x.steps[x.i + 1])
      BY <1>1, <2>2 DEF Emits, Queued, StepEvent
    <3> QED
      BY <2>1, <3>1, EventKeyed
  <2>3. CASE x.p.exec # OutboxMode
    BY <1>1, <2>1, <2>3 DEF Emits, Makes, Effect
  <2> QED
    BY <2>2, <2>3
<1>2. ASSUME NEW x \in Calls, NEW y \in Calls, SubCall(x, y), x.p.key # <<>> PROVE y.p.key # <<>>
  <2>1. CASE y.p = x.p
    BY <1>2, <2>1
  <2>2. CASE Taken(x) /\ Does(x.steps[x.i + 1], Stepping(x), y)
    <3>1. x.steps[x.i + 1] \in Steps /\ Stepping(x) \in Contexts /\ Stepping(x).key # <<>>
      BY <1>0, <1>2, <2>2, TakenFields, KeyOn
    <3> QED
      BY <2>2, <3>1, DoesKeyed
  <2>3. CASE y.p = Item(x)
    <3>1. y.p.key = LoopKey(x.p.key, x.i)
      BY <2>3, ItemType
    <3>2. \A part : Append(x.p.key, part) # <<>>
      BY <1>0 DEF Keys
    <3> QED
      BY <1>2, <3>1, <3>2 DEF LoopKey
  <2> QED
    BY <1>2, <2>1, <2>2, <2>3, SubCallFields
<1>3. \A x, y \in Calls : SubCall(x, y) => Lasting(y) \subseteq Lasting(x)
  BY <1>2 DEF Lasting
<1>4. \A x \in Calls, e \in Effects : Emits(x, e) => e \in Lasting(x)
  BY <1>1 DEF Lasting
<1>5. \A x \in Calls : A[x] = Lasting(x)
  OBVIOUS
<1> HIDE DEF A
<1>6. Closed(A)
  BY <1>3, <1>4, <1>5 DEF Closed
<1> QED
  BY <1>6 DEF A

LEMMA TopFrame ==
  ASSUME NEW r \in Executions
  PROVE  LET path == << <<"request", r>> >>
         IN path \in Paths /\ path # <<>> /\ path[1][2] = r /\ FrameAt(path).kind = "top" /\ FrameAt(path).key = <<>>
<1> DEFINE item == <<"request", r>>
           path == << <<"request", r>> >>
<1>1. item \in Places /\ <<>> \in Paths
  BY DEF Places, Paths
<1>2. path = Append(<<>>, item)
  OBVIOUS
<1>3. path \in Paths /\ path # <<>>
  BY <1>1, <1>2, BeforeFinal
<1>4. FrameAt(Append(<<>>, item)) = Framed(NextFrame(FrameAt(<<>>), item, Append(<<>>, item)))
  BY <1>1, FrameAtIs
<1>5. NextFrame(FrameAt(<<>>), item, Append(<<>>, item)) = Frame("top", <<>>, "", <<>>)
  <2>1. Len(Append(<<>>, item)) = 1
    BY <1>2
  <2> QED
    BY <2>1 DEF NextFrame
<1>6. <<>> \in Seq(Steps) /\ "" \in Modes /\ <<>> \in Keys
  BY DEF Modes, Keys
<1>7. FrameAt(path) = Frame("top", <<>>, "", <<>>)
  BY <1>2, <1>4, <1>5, <1>6, FrameType
<1>8. FrameAt(path).kind = "top" /\ FrameAt(path).key = <<>>
  <2> DEFINE top == Frame("top", <<>>, "", <<>>)
  <2>1. top.kind = "top" /\ top.key = <<>>
    BY DEF Frame
  <2> HIDE DEF path, top
  <2> QED
    BY <1>7, <2>1 DEF top
<1> QED
  BY <1>3, <1>8

LEMMA OpensPlaced ==
  ASSUME NEW r \in Executions, NEW wf, wf # Triggered => wf \in Names, NEW fault \in Faults, NEW y \in Calls,
         Opens(wf, RequestContext(r, wf, fault), y)
  PROVE  /\ Placed(y) /\ y.p.path = << <<"request", r>> >>
         /\ y.p.key = IF IsRoot(wf) THEN << <<"root", r>> >> ELSE <<>>
<1> DEFINE p == RequestContext(r, wf, fault)
           path == << <<"request", r>> >>
<1>1. p \in Contexts /\ p.path = path /\ p.key = IF IsRoot(wf) THEN << <<"root", r>> >> ELSE <<>>
  BY RequestContextType
<1> HIDE DEF p
<1>2. PICK v \in Names : /\ Enters(v, p, y)
                         /\ wf # Triggered => v = wf
                         /\ wf = Triggered => Definition[v].trigger \in {"before_create", "after_create"}
  BY DEF Opens, Starts, p
<1>3. IsRoot(v) <=> IsRoot(wf)
  BY <1>2 DEF IsRoot
<1>4. /\ y.steps = Definition[v].steps /\ ~y.loop /\ y.p.wf = v /\ y.p.mode = Definition[v].mode
      /\ y.p.path = path /\ y.p.key = p.key
  BY <1>1, <1>2, EnteredFields
<1>5. path # <<>> /\ path[1][2] = r
  BY TopFrame
<1>6. FrameAt(path).kind = "top" /\ FrameAt(path).key = <<>>
  BY TopFrame
<1>7. KeyFrom(FrameAt(path), v, path) = p.key
  BY <1>1, <1>3, <1>5, <1>6 DEF KeyFrom
<1> HIDE DEF path
<1>8. StepsFrom(FrameAt(path), v) = Definition[v].steps /\ ModeFrom(FrameAt(path), v) = Definition[v].mode
  BY <1>6 DEF StepsFrom, ModeFrom
<1> QED
  BY <1>1, <1>4, <1>5, <1>6, <1>7, <1>8 DEF Placed, path

LEMMA TopOwner == \A r \in Executions : OwnerAt(<< <<"request", r>> >>) = <<>>
<1> SUFFICES ASSUME NEW r \in Executions PROVE OwnerAt(<< <<"request", r>> >>) = <<>>
  OBVIOUS
<1> DEFINE item == <<"request", r>>
<1>1. item \in Places /\ <<>> \in Paths
  BY DEF Places, Paths
<1>2. << item >> = Append(<<>>, item)
  OBVIOUS
<1>3. ~Captures(<<>>, item)
  BY DEF Captures
<1> HIDE DEF item
<1>4. OwnerAt(<< item >>) = <<>>
  BY <1>1, <1>2, <1>3, OwnerAtIs
<1> QED
  BY <1>4 DEF item

LEMMA RequestRights ==
  ASSUME NEW r \in Executions, NEW fault \in Faults, NEW left \in Left, request[r].wf \in Wanted
  PROVE  \A e \in Range(RunRequest(r, fault, left).fx) : Rightful(e) /\ Belongs(e, <<>>)
<1> DEFINE wf == request[r].wf
           p == RequestContext(r, wf, fault)
           A == [x \in Calls |-> Right(x)]
           B == {e \in Effects : Rightful(e) /\ Belongs(e, <<>>)}
<1>1. wf # Triggered => wf \in Names
  BY DEF Wanted
<1>2. wf = Triggered => Effect("create", p) \in B
  <2>1. Effect("create", p) \in Effects
    BY RequestContextType, EffectType
  <2>2. p.path = << <<"request", r>> >> /\ p.key = IF IsRoot(wf) THEN << <<"root", r>> >> ELSE <<>>
    BY RequestContextType
  <2> HIDE DEF p
  <2>3. wf = Triggered => Effect("create", p).key = <<>> /\ Effect("create", p).path = << <<"request", r>> >>
                            /\ Effect("create", p).op = "create"
    BY <2>2 DEF Effect, IsRoot
  <2> QED
    BY <2>1, <2>3, TopFrame, TopOwner DEF Rightful, Belongs
<1>3. ASSUME NEW y \in Calls, Opens(wf, p, y) PROVE A[y] \subseteq B
  <2>1. Placed(y) /\ OwnerAt(y.p.path) = <<>>
    BY <1>1, <1>3, OpensPlaced, TopOwner
  <2>2. A[y] = Right(y)
    OBVIOUS
  <2> QED
    BY <2>1, <2>2 DEF Right
<1>4. Closed(A)
  BY RightClosed
<1> HIDE DEF A, B
<1>5. Range(RunRequest(r, fault, left).fx) \subseteq B
  BY <1>1, <1>2, <1>3, <1>4, RunRequestFits
<1> QED
  BY <1>5 DEF B

LEMMA ReplayRights ==
  ASSUME NEW e \in Events, NEW fault \in Faults, NEW left \in Left, Seated(e.path, e.step, Captured, e.key), e.key # <<>>,
         OwnerAt(e.path) = e.path
  PROVE  \A f \in Range(RunReplay(e, fault, left).fx) : Rightful(f) /\ Belongs(f, e.path) /\ f.key # <<>>
<1> DEFINE p == ReplayContext(e, fault)
           s == e.step
<1>1. p \in Contexts /\ s \in Steps /\ p.path = e.path /\ p.key = e.key /\ p.mode = Captured
  BY ReplayContextType DEF Events
<1>2. \A f \in Effects : Makes(s, p, f) => Rightful(f) /\ Belongs(f, e.path) /\ f.key # <<>>
  <2>1. \A f \in Effects : Makes(s, p, f) => Rightful(f)
    BY <1>1, SeatedMakes
  <2>2. \A f \in Effects : Makes(s, p, f) => f.key = p.key /\ f.path = p.path /\ f.op # "queue"
    BY DEF Makes, Effect
  <2> QED
    BY <1>1, <2>1, <2>2 DEF Belongs
<1>3. \A y \in Calls : Does(s, p, y) => Placed(y) /\ OwnerAt(y.p.path) = e.path /\ y.p.key # <<>>
  BY <1>1, ListPlaced, DoesOwner, DoesKeyed
<1> HIDE DEF p, s
<1>4. Range(RunReplay(e, fault, left).fx) \subseteq {f \in Effects : Rightful(f) /\ Belongs(f, e.path)}
  <2> DEFINE A == [x \in Calls |-> Right(x)]
             B == {f \in Effects : Rightful(f) /\ Belongs(f, e.path)}
  <2>1. \A f \in Effects : Makes(s, p, f) => f \in B
    BY <1>2
  <2>2. ASSUME NEW y \in Calls, Does(s, p, y) PROVE A[y] \subseteq B
    BY <1>3, <2>2 DEF Right
  <2>3. Closed(A)
    BY RightClosed
  <2> HIDE DEF A, B
  <2>4. Range(RunReplay(e, fault, left).fx) \subseteq B
    BY <2>1, <2>2, <2>3, RunReplayFits DEF p, s
  <2> QED
    BY <2>4 DEF B
<1>5. Range(RunReplay(e, fault, left).fx) \subseteq {f \in Effects : f.key # <<>>}
  <2> DEFINE A == [x \in Calls |-> Lasting(x)]
             B == {f \in Effects : f.key # <<>>}
  <2>1. \A f \in Effects : Makes(s, p, f) => f \in B
    BY <1>2
  <2>2. ASSUME NEW y \in Calls, Does(s, p, y) PROVE A[y] \subseteq B
    BY <1>3, <2>2 DEF Lasting
  <2>3. Closed(A)
    BY LastingClosed
  <2> HIDE DEF A, B
  <2>4. Range(RunReplay(e, fault, left).fx) \subseteq B
    BY <2>1, <2>2, <2>3, RunReplayFits DEF p, s
  <2> QED
    BY <2>4 DEF B
<1> QED
  BY <1>4, <1>5

-----------------------------------------------------------------------------
(* What a run leaves when it is kept.                                        *)
LEMMA AnewIs ==
  ASSUME NEW op, NEW fx, NEW there, NEW i \in Anew(op, fx, there)
  PROVE  i \in DOMAIN fx /\ fx[i] \in Range(fx) /\ fx[i].op = op /\ (fx[i].key # <<>> => fx[i].key \notin there)
BY DEF Anew, Range

LEMMA KeepQueues ==
  ASSUME NEW fx, \A e \in Range(fx) : e \in Formed, NEW by, NEW missed, Keep(fx, by, missed),
         queue \in [DOMAIN queue -> Events], DOMAIN queue \subseteq Keys, \A k \in DOMAIN queue : queue[k].key = k
  PROVE  /\ queue' \in [DOMAIN queue' -> Events] /\ DOMAIN queue' \subseteq Keys
         /\ \A k \in DOMAIN queue' : queue'[k].key = k
         /\ \A k \in DOMAIN queue : k \in DOMAIN queue' /\ queue'[k] = queue[k]
         /\ \A k \in DOMAIN queue' : k \notin DOMAIN queue =>
              \E e \in Range(fx) : e.op = "queue" /\ e.key = k /\ queue'[k] = e.event
<1> DEFINE queued == Anew("queue", fx, DOMAIN queue)
           added == {fx[i].key : i \in queued}
           event(k) == fx[CHOOSE i \in queued : fx[i].key = k].event
<1>1. queue' = [k \in DOMAIN queue \cup added |-> IF k \in DOMAIN queue THEN queue[k] ELSE event(k)]
  BY DEF Keep
<1>2. \A i \in queued : fx[i] \in Range(fx) /\ fx[i].op = "queue" /\ fx[i] \in Formed
  BY AnewIs
<1>3. \A i \in queued : fx[i].key \in Keys /\ fx[i].event \in Events /\ fx[i].event.key = fx[i].key
  BY <1>2 DEF Formed, Effects
<1> HIDE DEF queued
<1>4. \A k \in added : \E i \in queued : fx[i].key = k /\ event(k) = fx[i].event
  OBVIOUS
<1> HIDE DEF event, added
<1>5. DOMAIN queue' = DOMAIN queue \cup added
  BY <1>1
<1>6. \A k \in DOMAIN queue : queue'[k] = queue[k]
  BY <1>1
<1>7. \A k \in added : k \notin DOMAIN queue => queue'[k] = event(k)
  BY <1>1
<1>8. \A k \in added : k \in Keys
  BY <1>3, <1>4
<1>9. \A k \in added : k \notin DOMAIN queue => \E e \in Range(fx) : e.op = "queue" /\ e.key = k /\ queue'[k] = e.event
  BY <1>2, <1>4, <1>7
<1>10. \A k \in added : k \notin DOMAIN queue => queue'[k] \in Events /\ queue'[k].key = k
  BY <1>3, <1>4, <1>7
<1>11. \A k \in DOMAIN queue' : queue'[k] \in Events /\ queue'[k].key = k
  BY <1>5, <1>6, <1>10
<1>12. queue' \in [DOMAIN queue' -> Events]
  BY <1>1, <1>5, <1>11
<1> QED
  BY <1>5, <1>6, <1>8, <1>9, <1>11, <1>12

(* A record that a create leaves, of a key there is none of or that is missed. *)
Row(x, e, by, missed) ==
  /\ x.path = e.path /\ x.key = e.key /\ x.by = by /\ x.nth = Cardinality({y \in records : y.path = e.path})
  /\ e.key # <<>> => e.key \notin {y.key : y \in records} \ missed

LEMMA KeepWrites ==
  ASSUME NEW fx, NEW by, NEW missed, Keep(fx, by, missed)
  PROVE  /\ \A x \in records' : x \in records \/ \E e \in Range(fx) : e.op = "create" /\ Row(x, e, by, missed)
         /\ \A u \in updates' : u \in updates \/ \E e \in Range(fx) : e.op = "update" /\ u = e.path
         /\ records \subseteq records' /\ updates \subseteq updates'
<1> DEFINE there == {y.key : y \in records} \ missed
           created == Anew("create", fx, there)
           row(i) == [path |-> fx[i].path, key |-> fx[i].key, by |-> by,
                      nth |-> Cardinality({y \in records : y.path = fx[i].path})]
           written == {j \in DOMAIN fx : fx[j].op = "update"}
<1>1. records' = records \cup {row(i) : i \in created} /\ updates' = updates \cup {fx[i].path : i \in written}
  BY DEF Keep
<1>2. \A i \in created : fx[i] \in Range(fx) /\ fx[i].op = "create" /\ (fx[i].key # <<>> => fx[i].key \notin there)
  BY AnewIs
<1>3. \A i \in written : fx[i] \in Range(fx) /\ fx[i].op = "update"
  BY DEF Range
<1>4. \A i \in created : Row(row(i), fx[i], by, missed)
  BY <1>2 DEF Row
<1> HIDE DEF created, there, written, row
<1> QED
  BY <1>1, <1>2, <1>3, <1>4

-----------------------------------------------------------------------------
(* The inductive invariant: types, the depth an event has reached for its    *)
(* hops, of whom what is kept is, and which deliveries of an event have met. *)
Phases == {"new", "running", "ok", "failed"}

Deliveries(keys) ==
  [Processors -> [event : keys \cup {NoEvent}, left : Left, runs : Nat, due : BOOLEAN, seen : SUBSET Keys]]

EngineTypes ==
  /\ request \in [Executions -> [phase : Phases, wf : Wanted, left : Left, runs : Nat]]
  /\ processor \in Deliveries(DOMAIN queue)
  /\ queue \in [DOMAIN queue -> Events] /\ DOMAIN queue \subseteq Keys
  /\ \A k \in DOMAIN queue : queue[k].key = k

Counted(e) == 1 <= e.hops /\ 2 * e.hops <= e.depth + 1 /\ e.depth <= MaxDepth + 1

(* What is kept is of a request that is done.                                *)
Settled(path, of) == \E r \in Executions : path # <<>> /\ path[1] = <<"request", r>> /\ of[r].phase = "ok"

AllSettled ==
  /\ \A x \in records : Settled(x.path, request)
  /\ \A u \in updates : Settled(u, request)
  /\ \A k \in DOMAIN queue : Settled(queue[k].path, request)

(* The keys are those of the paths, and who has created a record is whose    *)
(* step the path is under: what has a key is there once, unless deliveries   *)
(* of an event without a transaction have met.                               *)
Keyed(x, q) ==
  /\ x.key \in Keys /\ x.key = FrameAt(x.path).key
  /\ x.by \in DOMAIN q \cup {NoEvent} /\ OwnerAt(x.path) = IF x.by = NoEvent THEN <<>> ELSE q[x.by].path
  /\ x.nth > 0 => x.by # NoEvent /\ q[x.by].met /\ ~ReplayRequiresTransaction(q[x.by].step)

AllKeyed ==
  /\ \A x \in records : Keyed(x, queue)
  /\ \A k \in DOMAIN queue :
       Seated(queue[k].path, queue[k].step, Captured, k) /\ k # <<>> /\ OwnerAt(queue[k].path) = queue[k].path

(* Two deliveries of an event that are under way have met, and so has one    *)
(* that has not seen at its claim what another has created.                  *)
Meet(p, q) == \A v, w \in Processors : v # w /\ p[v].event = p[w].event /\ p[w].event # NoEvent => q[p[w].event].met

Unseen(p, x, k, w) == p[w].event = k /\ k # NoEvent /\ p[w].due /\ x.by = k /\ x.key \notin p[w].seen

Meetings ==
  /\ Meet(processor, queue)
  /\ \A w \in Processors, x \in records, k \in DOMAIN queue :
       Unseen(processor, x, k, w) /\ ~ReplayRequiresTransaction(queue[k].step) => queue[k].met

EngineInv ==
  /\ EngineTypes
  /\ \A k \in DOMAIN queue : Counted(queue[k])
  /\ NoCallInTransaction
  /\ AllSettled
  /\ AllKeyed
  /\ Meetings

LEMMA LeftTypes ==
  /\ Fresh \in Left
  /\ \A st \in Runs : LeftBy(st) \in Left
<1>1. MaxEvents \in Nat
  BY WorkflowEngineAssumption
<1> QED
  BY <1>1 DEF Fresh, Left, LeftBy, Runs

LEMMA EngineStart == EngineInit => EngineInv
<1> SUFFICES ASSUME EngineInit PROVE EngineInv
  OBVIOUS
<1>1. DOMAIN queue = {} /\ queue = [k \in {} |-> k]
  BY DEF EngineInit
<1>2. queue \in [DOMAIN queue -> Events]
  BY <1>1
<1>3. Triggered \in Wanted /\ Fresh \in Left
  BY LeftTypes DEF Wanted
<1>4. EngineTypes
  BY <1>1, <1>2, <1>3 DEF EngineInit, EngineTypes, Deliveries, Idle, Phases
<1>5. Meetings
  BY <1>1 DEF EngineInit, Meetings, Meet, Idle
<1> QED
  BY <1>1, <1>4, <1>5 DEF EngineInit, EngineInv, NoCallInTransaction, AllSettled, AllKeyed

(* What no step changes of an event, and what it never takes back.           *)
MetStays(e, f) == e.met => f.met
SameEvent(e, f) ==
  /\ f.key = e.key /\ f.path = e.path /\ f.wf = e.wf /\ f.step = e.step /\ f.stop = e.stop
  /\ f.first = e.first /\ f.depth = e.depth /\ f.hops = e.hops

LEMMA SettledKept ==
  ASSUME NEW path, Settled(path, request), \A r \in Executions : request[r].phase = "ok" => request'[r].phase = "ok"
  PROVE  Settled(path, request')
BY DEF Settled

LEMMA QueueOnly ==
  ASSUME EngineInv, UNCHANGED <<request, records, updates, calls>>,
         DOMAIN queue' = DOMAIN queue, queue' \in [DOMAIN queue' -> Events],
         processor' \in Deliveries(DOMAIN queue), Meetings',
         \A k \in DOMAIN queue : SameEvent(queue[k], queue'[k]) /\ MetStays(queue[k], queue'[k])
  PROVE  EngineInv'
<1>1. EngineTypes'
  BY DEF EngineInv, EngineTypes, SameEvent
<1>2. \A k \in DOMAIN queue : Counted(queue'[k])
  BY DEF EngineInv, Counted, SameEvent
<1>3. NoCallInTransaction'
  BY DEF EngineInv, NoCallInTransaction
<1>4. AllSettled'
  BY DEF EngineInv, AllSettled, Settled, SameEvent
<1>5. AllKeyed'
  <2>1. ASSUME NEW x \in records PROVE Keyed(x, queue')
    <3>1. Keyed(x, queue)
      BY DEF EngineInv, AllKeyed
    <3>2. CASE x.by = NoEvent
      BY <3>1, <3>2 DEF Keyed
    <3>3. CASE x.by \in DOMAIN queue
      <4>1. SameEvent(queue[x.by], queue'[x.by]) /\ MetStays(queue[x.by], queue'[x.by])
        BY <3>3
      <4> QED
        BY <3>1, <4>1 DEF Keyed, SameEvent, MetStays
    <3> QED
      BY <3>1, <3>2, <3>3 DEF Keyed
  <2>2. \A k \in DOMAIN queue' :
          Seated(queue'[k].path, queue'[k].step, Captured, k) /\ k # <<>> /\ OwnerAt(queue'[k].path) = queue'[k].path
    BY DEF EngineInv, AllKeyed, SameEvent
  <2> QED
    BY <2>1, <2>2 DEF AllKeyed
<1> QED
  BY <1>1, <1>2, <1>3, <1>4, <1>5 DEF EngineInv

(* A step that only lets go of deliveries leaves none that met unnoticed.    *)
LEMMA MeetingsStay ==
  ASSUME EngineInv, records' = records, DOMAIN queue' = DOMAIN queue,
         \A k \in DOMAIN queue : SameEvent(queue[k], queue'[k]) /\ MetStays(queue[k], queue'[k]),
         \A w \in Processors : processor'[w] = processor[w] \/ processor'[w].event = NoEvent
  PROVE  Meetings'
<1>1. \A w \in Processors : processor[w].event \in DOMAIN queue \cup {NoEvent}
  BY DEF EngineInv, EngineTypes, Deliveries
<1>2. Meet(processor', queue')
  BY <1>1 DEF EngineInv, Meetings, Meet, MetStays
<1>3. ASSUME NEW w \in Processors, NEW x \in records, NEW k \in DOMAIN queue, Unseen(processor', x, k, w),
             ~ReplayRequiresTransaction(queue'[k].step)
      PROVE  queue'[k].met
  <2>1. processor'[w] = processor[w]
    BY <1>3 DEF Unseen
  <2>2. Unseen(processor, x, k, w) /\ queue'[k].step = queue[k].step
    BY <1>3, <2>1 DEF Unseen, SameEvent
  <2>3. queue[k].met
    BY <1>3, <2>2 DEF EngineInv, Meetings
  <2> QED
    BY <2>3 DEF MetStays
<1> QED
  BY <1>2, <1>3 DEF Meetings

(* Every step on the processors' side but a replay.                          *)
LEMMA EventChanged ==
  ASSUME EngineTypes, NEW k \in DOMAIN queue, NEW q, q \in Events, SameEvent(queue[k], q), MetStays(queue[k], q)
  PROVE  LET new == [queue EXCEPT ![k] = q]
         IN /\ DOMAIN new = DOMAIN queue /\ new \in [DOMAIN new -> Events]
            /\ \A j \in DOMAIN queue : SameEvent(queue[j], new[j]) /\ MetStays(queue[j], new[j])
<1> DEFINE new == [queue EXCEPT ![k] = q]
<1>1. DOMAIN new = DOMAIN queue /\ \A j \in DOMAIN queue : new[j] = IF j = k THEN q ELSE queue[j]
  BY DEF EngineTypes
<1>2. new \in [DOMAIN queue -> Events]
  BY DEF EngineTypes
<1>3. \A j \in DOMAIN queue : SameEvent(queue[j], new[j]) /\ MetStays(queue[j], new[j])
  BY <1>1 DEF SameEvent, MetStays
<1> HIDE DEF new
<1>4. new \in [DOMAIN new -> Events]
  BY <1>1, <1>2
<1> QED
  BY <1>1, <1>3, <1>4 DEF new

LEMMA ReleaseType ==
  ASSUME EngineTypes, NEW w \in Processors, NEW q, q \in DOMAIN queue \cup {NoEvent}, NEW due \in BOOLEAN,
         NEW seen \in SUBSET Keys
  PROVE  [processor EXCEPT ![w] = [event |-> q, left |-> Fresh, runs |-> 0, due |-> due, seen |-> seen]] \in Deliveries(DOMAIN queue)
BY LeftTypes DEF EngineTypes, Deliveries

LEMMA Released ==
  ASSUME EngineTypes, NEW w \in Processors, Release(w)
  PROVE  /\ processor' \in Deliveries(DOMAIN queue)
         /\ \A v \in Processors : processor'[v] = processor[v] \/ processor'[v].event = NoEvent
<1>1. processor' \in Deliveries(DOMAIN queue)
  BY ReleaseType DEF Release, Idle
<1>2. \A v \in Processors : processor'[v] = IF v = w THEN Idle ELSE processor[v]
  BY DEF Release, EngineTypes, Deliveries
<1> QED
  BY <1>1, <1>2 DEF Idle

LEMMA ClaimKeeps ==
  ASSUME EngineInv, NEW w \in Processors, NEW k \in DOMAIN queue, Claim(w, k)
  PROVE  EngineInv'
<1>0. EngineTypes
  BY DEF EngineInv
<1> DEFINE met == queue[k].met \/ \E v \in Processors : processor[v].event = k
           q == [queue[k] EXCEPT !.tries = @ + 1, !.holder = w, !.met = @ \/ \E v \in Processors : processor[v].event = k]
           due == k \notin marks
           seen == IF ReplayRequiresTransaction(queue[k].step) THEN {} ELSE {x.key : x \in records}
           held == [event |-> k, left |-> Fresh, runs |-> 0, due |-> due, seen |-> seen]
<1>1. queue[k] \in Events /\ queue[k].tries < MaxDeliveries /\ MaxDeliveries \in Nat
  BY <1>0, WorkflowEngineAssumption DEF EngineTypes, Claim
<1>2. q \in Events /\ SameEvent(queue[k], q) /\ MetStays(queue[k], q) /\ q.met = met
  <2> DEFINE n == queue[k].tries + 1
  <2>1. n \in 0..MaxDeliveries
    BY <1>1 DEF Events
  <2>2. q = [queue[k] EXCEPT !.tries = n, !.holder = w, !.met = met]
    BY <1>1 DEF Events
  <2>3. met \in BOOLEAN /\ (queue[k].met => met)
    BY <1>1 DEF Events
  <2> HIDE DEF n, q, met
  <2>4. w \in Processors \cup {NoEvent}
    OBVIOUS
  <2>5. q \in Events
    BY <1>1, <2>1, <2>2, <2>3, <2>4 DEF Events
  <2>6. q.met = met /\ SameEvent(queue[k], q)
    BY <1>1, <2>2 DEF SameEvent, Events
  <2> QED
    BY <2>3, <2>5, <2>6 DEF MetStays
<1>3. queue' = [queue EXCEPT ![k] = q]
  BY <1>0 DEF Claim, EngineTypes
<1>4. processor' = [processor EXCEPT ![w] = held] /\ processor[w].event = NoEvent
  BY DEF Claim
<1>5. UNCHANGED <<request, records, updates, calls>>
  BY DEF Claim
<1>6. due \in BOOLEAN /\ seen \in SUBSET Keys
  BY DEF EngineInv, AllKeyed, Keyed
<1>7. processor' \in Deliveries(DOMAIN queue)
  <2> HIDE DEF due, seen
  <2> QED
    BY <1>0, <1>4, <1>6, ReleaseType
<1>8. \A v \in Processors : processor'[v] = IF v = w THEN held ELSE processor[v]
  BY <1>0, <1>4 DEF EngineTypes, Deliveries
<1>9. held.event = k /\ held.seen = seen /\ ((\E v \in Processors : processor[v].event = k) => met)
  OBVIOUS
<1>a. ~ReplayRequiresTransaction(queue[k].step) => \A x \in records : x.key \in seen
  OBVIOUS
<1> HIDE DEF q, held, due, seen, met
<1>10. DOMAIN queue' = DOMAIN queue /\ queue' \in [DOMAIN queue' -> Events] /\ queue'[k] = q
       /\ \A j \in DOMAIN queue : SameEvent(queue[j], queue'[j]) /\ MetStays(queue[j], queue'[j])
  <2>1. DOMAIN queue' = DOMAIN queue /\ queue' \in [DOMAIN queue' -> Events]
        /\ \A j \in DOMAIN queue : SameEvent(queue[j], queue'[j]) /\ MetStays(queue[j], queue'[j])
    BY <1>0, <1>2, <1>3, EventChanged
  <2>2. queue'[k] = q
    BY <1>3
  <2> QED
    BY <2>1, <2>2
<1>11. Meet(processor', queue')
  <2> SUFFICES ASSUME NEW u \in Processors, NEW v \in Processors, u # v, processor'[u].event = processor'[v].event,
                      processor'[v].event # NoEvent
               PROVE  queue'[processor'[v].event].met
    BY DEF Meet
  <2>1. CASE u # w /\ v # w
    <3>1. processor'[u] = processor[u] /\ processor'[v] = processor[v] /\ processor[v].event \in DOMAIN queue
      BY <1>0, <1>8, <2>1 DEF EngineTypes, Deliveries
    <3>2. queue[processor[v].event].met
      BY <3>1 DEF EngineInv, Meetings, Meet
    <3> QED
      BY <1>10, <3>1, <3>2 DEF MetStays
  <2>2. CASE u = w \/ v = w
    <3>1. processor'[w].event = k
      BY <1>8, <1>9
    <3>2. processor'[v].event = k
      BY <2>2, <3>1
    <3>3. \E x \in {u, v} : processor[x].event = k
      BY <1>8, <2>2, <3>1
    <3>4. met
      BY <1>9, <3>3
    <3> QED
      BY <1>2, <1>10, <3>2, <3>4
  <2> QED
    BY <2>1, <2>2
<1>12. ASSUME NEW v \in Processors, NEW x \in records, NEW j \in DOMAIN queue, Unseen(processor', x, j, v),
              ~ReplayRequiresTransaction(queue'[j].step)
       PROVE  queue'[j].met
  <2>0. queue'[j].step = queue[j].step /\ MetStays(queue[j], queue'[j])
    BY <1>10 DEF SameEvent
  <2>1. CASE v = w
    <3>1. processor'[v].event = k /\ processor'[v].seen = seen
      BY <1>8, <1>9, <2>1
    <3>2. j = k /\ x.key \notin seen
      BY <1>12, <3>1 DEF Unseen
    <3> QED
      BY <1>a, <1>12, <2>0, <3>2
  <2>2. CASE v # w
    <3>1. Unseen(processor, x, j, v)
      BY <1>8, <1>12, <2>2 DEF Unseen
    <3> QED
      BY <1>12, <2>0, <3>1 DEF EngineInv, Meetings, MetStays
  <2> QED
    BY <2>1, <2>2
<1>13. Meetings'
  BY <1>5, <1>10, <1>11, <1>12 DEF Meetings
<1> QED
  BY <1>5, <1>7, <1>10, <1>13, QueueOnly

LEMMA AcknowledgeKeeps ==
  ASSUME EngineInv, NEW w \in Processors, AcknowledgeReplay(w)
  PROVE  EngineInv'
<1>0. EngineTypes
  BY DEF EngineInv
<1> DEFINE k == processor[w].event
           q == [queue[k] EXCEPT !.status = "done"]
<1>1. k \in DOMAIN queue
  BY <1>0 DEF EngineTypes, Deliveries, AcknowledgeReplay
<1>2. q \in Events /\ SameEvent(queue[k], q) /\ MetStays(queue[k], q)
  <2> HIDE DEF k
  <2>1. q \in Events /\ SameEvent(queue[k], q) /\ q.met = queue[k].met
    BY <1>0, <1>1 DEF EngineTypes, Events, SameEvent
  <2> QED
    BY <2>1 DEF MetStays
<1>3. /\ processor' \in Deliveries(DOMAIN queue)
      /\ \A v \in Processors : processor'[v] = processor[v] \/ processor'[v].event = NoEvent
  BY <1>0, Released DEF AcknowledgeReplay
<1>4. UNCHANGED <<request, records, updates, calls>>
  BY DEF AcknowledgeReplay
<1>5. CASE queue[k].holder = w
  <2>1. queue' = [queue EXCEPT ![k] = q]
    BY <1>0, <1>1, <1>5 DEF AcknowledgeReplay, EngineTypes
  <2> HIDE DEF q, k
  <2> QED
    BY <1>0, <1>1, <1>2, <1>3, <1>4, <2>1, EventChanged, MeetingsStay, QueueOnly
<1>6. CASE queue[k].holder # w
  <2>1. queue' = queue
    BY <1>6 DEF AcknowledgeReplay
  <2> QED
    BY <1>0, <1>3, <1>4, <2>1, MeetingsStay, QueueOnly DEF SameEvent, MetStays, EngineTypes
<1> QED
  BY <1>5, <1>6

LEMMA AbandonKeeps ==
  ASSUME EngineInv, NEW w \in Processors, AbandonReplay(w)
  PROVE  EngineInv'
<1>0. EngineTypes
  BY DEF EngineInv
<1>1. /\ processor' \in Deliveries(DOMAIN queue)
      /\ \A v \in Processors : processor'[v] = processor[v] \/ processor'[v].event = NoEvent
  BY <1>0, Released DEF AbandonReplay
<1>2. UNCHANGED <<request, records, updates, calls>> /\ queue' = queue
  BY DEF AbandonReplay
<1> QED
  BY <1>0, <1>1, <1>2, MeetingsStay, QueueOnly DEF SameEvent, MetStays, EngineTypes

LEMMA ExhaustKeeps ==
  ASSUME EngineInv, NEW k \in DOMAIN queue, Exhaust(k)
  PROVE  EngineInv'
<1>0. EngineTypes
  BY DEF EngineInv
<1> DEFINE q == [queue[k] EXCEPT !.status = "failed"]
<1>2. q \in Events /\ SameEvent(queue[k], q) /\ MetStays(queue[k], q)
  BY <1>0 DEF EngineTypes, Events, SameEvent, MetStays
<1>3. queue' = [queue EXCEPT ![k] = q]
  BY <1>0 DEF Exhaust, EngineTypes
<1> HIDE DEF q
<1>4. UNCHANGED <<request, processor, records, updates, calls>>
  BY DEF Exhaust
<1>5. processor' \in Deliveries(DOMAIN queue)
  BY <1>0, <1>4 DEF EngineTypes
<1> QED
  BY <1>0, <1>2, <1>3, <1>4, <1>5, EventChanged, MeetingsStay, QueueOnly

(* A run that is kept or not, of a job whose effects are of its request.     *)
LEMMA KeptOrNot ==
  ASSUME EngineTypes, \A k \in DOMAIN queue : Counted(queue[k]), AllSettled,
         NEW fx, \A e \in Range(fx) : e \in Formed /\ (e.op = "queue" => Counted(e.event)),
         \A r \in Executions : request[r].phase = "ok" => request'[r].phase = "ok",
         NEW by, NEW missed, KeepNothing \/ (Keep(fx, by, missed) /\ \A e \in Range(fx) : Settled(e.path, request'))
  PROVE  /\ queue' \in [DOMAIN queue' -> Events] /\ DOMAIN queue' \subseteq Keys
         /\ \A k \in DOMAIN queue' : queue'[k].key = k
         /\ DOMAIN queue \subseteq DOMAIN queue'
         /\ \A k \in DOMAIN queue' : Counted(queue'[k])
         /\ AllSettled'
<1>1. CASE KeepNothing
  <2>1. AllSettled'
    BY <1>1, SettledKept DEF KeepNothing, AllSettled
  <2> QED
    BY <1>1, <2>1 DEF KeepNothing, EngineTypes
<1>2. CASE Keep(fx, by, missed) /\ \A e \in Range(fx) : Settled(e.path, request')
  <2>1. /\ queue' \in [DOMAIN queue' -> Events] /\ DOMAIN queue' \subseteq Keys
        /\ \A k \in DOMAIN queue' : queue'[k].key = k
        /\ \A k \in DOMAIN queue : k \in DOMAIN queue' /\ queue'[k] = queue[k]
        /\ \A k \in DOMAIN queue' : k \notin DOMAIN queue =>
             \E e \in Range(fx) : e.op = "queue" /\ e.key = k /\ queue'[k] = e.event
    BY <1>2, KeepQueues DEF EngineTypes
  <2>2. \A k \in DOMAIN queue' : Counted(queue'[k]) /\ Settled(queue'[k].path, request')
    <3> SUFFICES ASSUME NEW k \in DOMAIN queue' PROVE Counted(queue'[k]) /\ Settled(queue'[k].path, request')
      OBVIOUS
    <3>1. CASE k \in DOMAIN queue
      BY <2>1, <3>1, SettledKept DEF AllSettled
    <3>2. CASE k \notin DOMAIN queue
      <4>1. PICK e \in Range(fx) : e.op = "queue" /\ queue'[k] = e.event
        BY <2>1, <3>2
      <4>2. e.event.path = e.path
        BY <4>1 DEF Formed
      <4> QED
        BY <1>2, <4>1, <4>2
    <3> QED
      BY <3>1, <3>2
  <2>3. \A x \in records' : Settled(x.path, request')
    <3> SUFFICES ASSUME NEW x \in records', x \notin records PROVE Settled(x.path, request')
      BY SettledKept DEF AllSettled
    <3>1. PICK e \in Range(fx) : Row(x, e, by, missed)
      BY <1>2, KeepWrites
    <3>2. x.path = e.path
      BY <3>1 DEF Row
    <3> QED
      BY <1>2, <3>2
  <2>4. \A u \in updates' : Settled(u, request')
    BY <1>2, KeepWrites, SettledKept DEF AllSettled
  <2> QED
    BY <2>1, <2>2, <2>3, <2>4 DEF AllSettled
<1> QED
  BY <1>1, <1>2

LEMMA SomeCounted == ASSUME NEW T, Cardinality(T) > 0 PROVE T # {}
<1> SUFFICES ASSUME T = {} PROVE FALSE
  OBVIOUS
<1>1. Cardinality(T) = 0
  BY FS_EmptySet
<1> QED
  BY <1>1

LEMMA KeyedOrNot ==
  ASSUME EngineTypes, AllKeyed, NEW by \in DOMAIN queue \cup {NoEvent}, NEW missed, NEW fx,
         \A e \in Range(fx) : e \in Formed /\ Rightful(e) /\ Belongs(e, IF by = NoEvent THEN <<>> ELSE queue[by].path),
         \/ KeepNothing
         \/ /\ Keep(fx, by, missed)
            /\ \A e \in Range(fx), y \in records : y.path = e.path /\ e.op = "create" /\ (e.key # <<>> => e.key \in missed) =>
                 by # NoEvent /\ queue[by].met /\ ~ReplayRequiresTransaction(queue[by].step)
  PROVE  AllKeyed'
<1>1. CASE KeepNothing
  BY <1>1 DEF KeepNothing, AllKeyed
<1>2. CASE ~KeepNothing
  <2>0. /\ Keep(fx, by, missed)
        /\ \A e \in Range(fx), y \in records : y.path = e.path /\ e.op = "create" /\ (e.key # <<>> => e.key \in missed) =>
             by # NoEvent /\ queue[by].met /\ ~ReplayRequiresTransaction(queue[by].step)
    BY <1>2
  <2>1. /\ \A k \in DOMAIN queue : k \in DOMAIN queue' /\ queue'[k] = queue[k]
        /\ \A k \in DOMAIN queue' : k \notin DOMAIN queue =>
             \E e \in Range(fx) : e.op = "queue" /\ e.key = k /\ queue'[k] = e.event
    BY <2>0, KeepQueues DEF EngineTypes
  <2>2. ASSUME NEW k \in DOMAIN queue', k \notin DOMAIN queue
        PROVE  Seated(queue'[k].path, queue'[k].step, Captured, k) /\ k # <<>> /\ OwnerAt(queue'[k].path) = queue'[k].path
    <3>1. PICK e \in Range(fx) : e.op = "queue" /\ e.key = k /\ queue'[k] = e.event
      BY <2>1, <2>2
    <3>2. e.event.path = e.path /\ e.key # <<>>
      BY <3>1 DEF Formed
    <3>3. OwnerAt(e.path) = e.path
      BY <3>1 DEF Belongs
    <3> QED
      BY <3>1, <3>2, <3>3 DEF Rightful
  <2>3. ASSUME NEW x \in records', x \notin records PROVE Keyed(x, queue)
    <3>1. PICK e \in Range(fx) : e.op = "create" /\ Row(x, e, by, missed)
      BY <2>0, <2>3, KeepWrites
    <3>2. /\ x.path = e.path /\ x.key = e.key /\ x.by = by /\ x.nth = Cardinality({y \in records : y.path = e.path})
          /\ e.key # <<>> => e.key \notin {y.key : y \in records} \ missed
      BY <3>1 DEF Row
    <3>3. e.key = FrameAt(e.path).key /\ e.key \in Keys
      BY DEF Rightful, Formed, Effects
    <3>4. OwnerAt(x.path) = IF by = NoEvent THEN <<>> ELSE queue[by].path
      BY <3>1, <3>2 DEF Belongs
    <3>5. ASSUME x.nth > 0 PROVE by # NoEvent /\ queue[by].met /\ ~ReplayRequiresTransaction(queue[by].step)
      <4>1. {y \in records : y.path = e.path} # {}
        BY <3>2, <3>5, SomeCounted
      <4>2. PICK y \in records : y.path = e.path
        BY <4>1
      <4>3. y.key = e.key
        BY <3>3, <4>2 DEF AllKeyed, Keyed
      <4>4. e.key # <<>> => e.key \in missed
        BY <3>2, <4>3
      <4> QED
        BY <2>0, <3>1, <4>2, <4>4
    <3> QED
      BY <3>2, <3>3, <3>4, <3>5 DEF Keyed
  <2>4. ASSUME NEW x \in records' PROVE Keyed(x, queue')
    <3>1. Keyed(x, queue)
      BY <2>3 DEF AllKeyed
    <3> QED
      BY <2>1, <3>1 DEF Keyed
  <2>5. \A k \in DOMAIN queue' :
          Seated(queue'[k].path, queue'[k].step, Captured, k) /\ k # <<>> /\ OwnerAt(queue'[k].path) = queue'[k].path
    BY <2>1, <2>2 DEF AllKeyed
  <2> QED
    BY <2>4, <2>5 DEF AllKeyed
<1> QED
  BY <1>1, <1>2

LEMMA CalledOutside ==
  ASSUME NoCallInTransaction, NEW fx, NEW txn, Called(fx, txn), \A e \in Range(fx) : txn => e.op # "call"
  PROVE  NoCallInTransaction'
<1> DEFINE made == {j \in DOMAIN fx : fx[j].op = "call"}
<1>1. calls' = calls \cup {[path |-> fx[i].path, txn |-> txn] : i \in made}
  BY DEF Called
<1>2. \A i \in made : ~txn
  BY DEF Range
<1> HIDE DEF made
<1> QED
  BY <1>1, <1>2 DEF NoCallInTransaction

(* What a run has created is of an event that has met all who deliver it.    *)
LEMMA MeetingsGrow ==
  ASSUME EngineInv, NEW by, NEW missed, NEW fx, \A e \in Range(fx) : e \in Formed, KeepNothing \/ Keep(fx, by, missed),
         \A w \in Processors :
           \/ processor'[w] = processor[w] /\ (by # NoEvent /\ processor[w].event = by => queue[by].met)
           \/ processor'[w].event = NoEvent
           \/ /\ processor'[w].event = processor[w].event
              /\ processor'[w].due =>
                   ReplayRequiresTransaction(queue[processor[w].event].step)
  PROVE  Meetings'
<1>0. EngineTypes
  BY DEF EngineInv
<1>1. \A k \in DOMAIN queue : k \in DOMAIN queue' /\ queue'[k] = queue[k]
  BY <1>0, KeepQueues DEF EngineTypes, KeepNothing
<1>2. \A w \in Processors : processor[w].event \in DOMAIN queue \cup {NoEvent}
  BY <1>0 DEF EngineTypes, Deliveries
<1>3. Meet(processor', queue')
  BY <1>1, <1>2 DEF EngineInv, Meetings, Meet
<1>4. \A x \in records' : x \in records \/ x.by = by
  <2>1. CASE KeepNothing
    BY <2>1 DEF KeepNothing
  <2>2. CASE Keep(fx, by, missed)
    <3>1. \A x \in records' : x \in records \/ \E e \in Range(fx) : e.op = "create" /\ Row(x, e, by, missed)
      BY <2>2, KeepWrites
    <3> QED
      BY <3>1 DEF Row
  <2> QED
    BY <2>1, <2>2
<1>5. ASSUME NEW w \in Processors, NEW x \in records', NEW k \in DOMAIN queue', Unseen(processor', x, k, w),
             ~ReplayRequiresTransaction(queue'[k].step)
      PROVE  queue'[k].met
  <2>1. processor'[w].event = k /\ k # NoEvent /\ processor'[w].due /\ x.by = k
    BY <1>5 DEF Unseen
  <2>2. processor[w].event = k /\ k \in DOMAIN queue /\ queue'[k] = queue[k]
    BY <1>1, <1>2, <2>1
  <2>3. processor'[w] = processor[w] /\ (by = k => queue[k].met)
    BY <1>5, <2>1, <2>2
  <2>4. CASE x \in records
    <3>1. Unseen(processor, x, k, w)
      BY <1>5, <2>3 DEF Unseen
    <3> QED
      BY <1>5, <2>2, <2>4, <3>1 DEF EngineInv, Meetings
  <2>5. CASE x \notin records
    BY <1>4, <2>1, <2>2, <2>3, <2>5
  <2> QED
    BY <2>4, <2>5
<1> QED
  BY <1>3, <1>5 DEF Meetings

LEMMA ExecuteKeeps ==
  ASSUME EngineInv, NEW r \in Executions, Execute(r)
  PROVE  EngineInv'
<1>0. EngineTypes
  BY DEF EngineInv
<1> DEFINE wf == request[r].wf
           left == request[r].left
           txn == RunsInTransaction(wf)
           next(st, fault) ==
             LET ok == st.end = "ok" /\ fault.kind # "transient"
                 again == fault.kind = "transient" /\ request[r].runs < MaxReruns
             IN /\ Called(st.fx, txn)
                /\ IF ok \/ ~txn THEN Keep(st.fx, NoEvent, {}) ELSE KeepNothing
                /\ request' =
                     IF again THEN [request EXCEPT ![r].runs = @ + 1,
                                                   ![r].left = IF wf = Triggered \/ IsRoot(wf) THEN Fresh ELSE LeftBy(st)]
                     ELSE [request EXCEPT ![r].phase = IF ok THEN "ok" ELSE "failed"]
<1>1. request[r].phase = "running" /\ processor' = processor
  BY DEF Execute
<1>2. PICK fault \in Faults : next(RunRequest(r, fault, left), fault)
  BY DEF Execute
<1> DEFINE st == RunRequest(r, fault, left)
<1>3. wf \in Wanted /\ left \in Left /\ request[r].runs \in Nat
  BY <1>0 DEF EngineTypes
<1>4. /\ st \in Runs
      /\ \A e \in Range(st.fx) : /\ e \in Formed /\ e.op # "call"
                                 /\ e.path # <<>> /\ e.path[1] = <<"request", r>>
                                 /\ e.op = "queue" => e.event.hops = 1 /\ 1 <= e.event.depth /\ e.event.depth <= MaxDepth + 1
                                 /\ RunsInTransaction(wf)
  BY <1>3, RequestEffects
<1>5. next(st, fault) /\ \A e \in Range(st.fx) : Rightful(e) /\ Belongs(e, <<>>)
  BY <1>2, <1>3, RequestRights
<1> HIDE DEF st
<1> DEFINE ok == st.end = "ok" /\ fault.kind # "transient"
           again == fault.kind = "transient" /\ request[r].runs < MaxReruns
           n == request[r].runs + 1
           l == IF wf = Triggered \/ IsRoot(wf) THEN Fresh ELSE LeftBy(st)
<1>6. request' = IF again THEN [request EXCEPT ![r].runs = n, ![r].left = l]
                 ELSE [request EXCEPT ![r].phase = IF ok THEN "ok" ELSE "failed"]
  BY <1>5
<1>7. l \in Left /\ n \in Nat
  BY <1>3, <1>4, LeftTypes
<1> HIDE DEF n, l
<1>8. request' \in [Executions -> [phase : Phases, wf : Wanted, left : Left, runs : Nat]]
  <2>1. CASE again
    BY <1>0, <1>6, <1>7, <2>1 DEF EngineTypes
  <2>2. CASE ~again
    <3> DEFINE phase == IF ok THEN "ok" ELSE "failed"
    <3>1. phase \in Phases
      BY DEF Phases
    <3>2. request' = [request EXCEPT ![r].phase = phase]
      BY <1>6, <2>2
    <3> HIDE DEF phase
    <3> QED
      BY <1>0, <3>1, <3>2 DEF EngineTypes
  <2> QED
    BY <2>1, <2>2
<1>9. \A q \in Executions : request[q].phase = "ok" => request'[q].phase = "ok"
  BY <1>0, <1>1, <1>6 DEF EngineTypes
<1>10. ok => request'[r].phase = "ok"
  BY <1>0, <1>6 DEF EngineTypes
<1>11. KeepNothing \/ (Keep(st.fx, NoEvent, {}) /\ \A e \in Range(st.fx) : Settled(e.path, request'))
  <2>1. CASE ok
    BY <1>4, <1>5, <1>10, <2>1 DEF Settled
  <2>2. CASE ~ok /\ txn
    BY <1>5, <2>2
  <2>3. CASE ~ok /\ ~txn
    BY <1>4, <1>5, <2>3
  <2> QED
    BY <2>1, <2>2, <2>3
<1>12. \A e \in Range(st.fx) : e \in Formed /\ (e.op = "queue" => Counted(e.event))
  BY <1>4 DEF Counted, Formed, Events
<1>13. NoCallInTransaction'
  BY <1>4, <1>5, CalledOutside DEF EngineInv
<1>16. \A y \in records, e \in Range(st.fx) : y.path # e.path
  BY <1>1, <1>4 DEF EngineInv, AllSettled, Settled
<1> HIDE DEF next, ok, again, wf, left, txn
<1>17. AllKeyed'
  BY <1>0, <1>5, <1>11, <1>12, <1>16, KeyedOrNot DEF EngineInv
<1>14. /\ queue' \in [DOMAIN queue' -> Events] /\ DOMAIN queue' \subseteq Keys
       /\ \A k \in DOMAIN queue' : queue'[k].key = k
       /\ DOMAIN queue \subseteq DOMAIN queue'
       /\ \A k \in DOMAIN queue' : Counted(queue'[k])
       /\ AllSettled'
  BY <1>0, <1>9, <1>11, <1>12, KeptOrNot DEF EngineInv
<1>15. processor' \in Deliveries(DOMAIN queue')
  BY <1>0, <1>1, <1>14 DEF EngineTypes, Deliveries
<1>18. Meetings'
  BY <1>0, <1>1, <1>11, <1>12, MeetingsGrow DEF EngineInv, EngineTypes
<1> QED
  BY <1>8, <1>13, <1>14, <1>15, <1>17, <1>18 DEF EngineInv, EngineTypes

LEMMA ReplayKeeps ==
  ASSUME EngineInv, NEW w \in Processors, Replay(w)
  PROVE  EngineInv'
<1>0. EngineTypes
  BY DEF EngineInv
<1> DEFINE k == processor[w].event
           left == processor[w].left
           txn == ReplayRequiresTransaction(queue[k].step)
           next(st, fault) ==
             LET ok == st.end = "ok" /\ fault.kind # "transient"
                 again == fault.kind = "transient" /\ processor[w].runs < MaxReruns
             IN /\ Strikes(fault, st, txn)
                /\ Called(st.fx, txn)
                /\ \E marked \in {ok, ok /\ txn}, missed \in SUBSET (IF txn THEN {} ELSE {x.key : x \in records} \ processor[w].seen) :
                     /\ marks' = IF marked THEN marks \cup {k} ELSE marks
                     /\ IF marked THEN Finish(<<"event", k>>, left, st) ELSE UNCHANGED finished
                     /\ IF marked \/ ~txn THEN Keep(st.fx, k, missed) ELSE KeepNothing
                     /\ IF again THEN processor' = [processor EXCEPT ![w].runs = @ + 1, ![w].left = LeftBy(st)]
                        ELSE IF marked THEN processor' = [processor EXCEPT ![w].due = FALSE] ELSE Release(w)
<1>1. k # NoEvent /\ request' = request
  BY DEF Replay
<1>e. processor[w].due
  BY DEF Replay
<1>2. PICK fault \in Faults : \E st \in {RunReplay(queue[k], fault, left)} : next(st, fault)
  BY DEF Replay
<1> DEFINE st == RunReplay(queue[k], fault, left)
<1>3. k \in DOMAIN queue /\ queue[k] \in Events /\ left \in Left /\ processor[w].runs \in Nat
  BY <1>0, <1>1 DEF EngineTypes, Deliveries
<1>4. /\ st \in Runs
      /\ \A f \in Range(st.fx) :
           /\ f \in Formed
           /\ txn => f.op # "call"
           /\ queue[k].path # <<>> => f.path # <<>> /\ f.path[1] = queue[k].path[1]
           /\ f.op = "queue" => /\ f.event.hops = queue[k].hops + 1
                                /\ queue[k].depth + 2 <= f.event.depth /\ f.event.depth <= MaxDepth + 1
  BY <1>3, ReplayEffects
<1>5. next(st, fault) /\ \A f \in Range(st.fx) : Rightful(f) /\ Belongs(f, queue[k].path) /\ f.key # <<>>
  <2>1. /\ Seated(queue[k].path, queue[k].step, Captured, queue[k].key) /\ queue[k].key # <<>>
        /\ OwnerAt(queue[k].path) = queue[k].path
    BY <1>0, <1>3 DEF EngineInv, AllKeyed, EngineTypes
  <2> HIDE DEF k, txn, left
  <2>2. \A f \in Range(st.fx) : Rightful(f) /\ Belongs(f, queue[k].path) /\ f.key # <<>>
    BY <1>3, <2>1, ReplayRights
  <2> QED
    BY <1>2, <2>2
<1> HIDE DEF st
<1>6. Settled(queue[k].path, request) /\ Counted(queue[k])
  BY <1>3 DEF EngineInv, AllSettled
<1>7. \A f \in Range(st.fx) : Settled(f.path, request')
  BY <1>1, <1>4, <1>6 DEF Settled
<1>8. \A f \in Range(st.fx) : f \in Formed /\ (f.op = "queue" => Counted(f.event))
  <2> SUFFICES ASSUME NEW f \in Range(st.fx), f.op = "queue" PROVE Counted(f.event)
    BY <1>4
  <2>1. /\ f.event.hops = queue[k].hops + 1
        /\ queue[k].depth + 2 <= f.event.depth /\ f.event.depth <= MaxDepth + 1 /\ f.event \in Events
    BY <1>4 DEF Formed
  <2> HIDE DEF k, next, txn, left
  <2>2. f.event.depth \in Nat /\ queue[k].hops \in Nat /\ queue[k].depth \in Nat
    BY <1>3, <2>1 DEF Events
  <2> QED
    BY <1>6, <2>1, <2>2 DEF Counted
<1>9. NoCallInTransaction'
  BY <1>4, <1>5, CalledOutside DEF EngineInv
<1> DEFINE n == processor[w].runs + 1
           l == LeftBy(st)
           keys == {x.key : x \in records}
<1>a. PICK missed \in SUBSET (IF txn THEN {} ELSE keys \ processor[w].seen) :
        /\ KeepNothing \/ Keep(st.fx, k, missed)
        /\ \/ processor' = [processor EXCEPT ![w].runs = n, ![w].left = l] /\ txn
           \/ processor' = [processor EXCEPT ![w].due = FALSE]
           \/ Release(w)
  BY <1>5 DEF Strikes
<1>10. \/ KeepNothing
       \/ Keep(st.fx, k, missed) /\ \A e \in Range(st.fx) : Settled(e.path, request')
  BY <1>7, <1>a
<1>b. n \in Nat /\ l \in Left
  BY <1>3, <1>4, LeftTypes
<1>11. /\ processor' \in Deliveries(DOMAIN queue)
       /\ \A v \in Processors : v # w => processor'[v] = processor[v]
       /\ \/ processor'[w].event = NoEvent
          \/ processor'[w].event = k /\ (processor'[w].due => txn)
  <2> HIDE DEF n, l, next, txn, keys
  <2>1. CASE processor' = [processor EXCEPT ![w].runs = n, ![w].left = l] /\ txn
    BY <1>0, <1>b, <2>1 DEF EngineTypes, Deliveries
  <2>2. CASE processor' = [processor EXCEPT ![w].due = FALSE]
    BY <1>0, <2>2 DEF EngineTypes, Deliveries
  <2>3. CASE Release(w)
    <3>1. processor' \in Deliveries(DOMAIN queue)
      BY <1>0, <2>3, Released
    <3>2. \A v \in Processors : processor'[v] = IF v = w THEN Idle ELSE processor[v]
      BY <1>0, <2>3 DEF Release, EngineTypes, Deliveries
    <3> QED
      BY <3>1, <3>2 DEF Idle
  <2> QED
    BY <1>a, <2>1, <2>2, <2>3
<1>c. \A v \in Processors : v # w /\ processor[v].event = k => queue[k].met
  BY <1>1 DEF EngineInv, Meetings, Meet
<1>d. ASSUME NEW e \in Range(st.fx), NEW y \in records, y.path = e.path, e.op = "create", e.key # <<>> => e.key \in missed
      PROVE  queue[k].met /\ ~txn
  <2>1. e.key \in missed
    BY <1>5, <1>d
  <2>2. ~txn /\ e.key \notin processor[w].seen
    BY <1>a, <2>1
  <2>3. Keyed(y, queue)
    BY DEF EngineInv, AllKeyed
  <2>4. y.key = e.key
    BY <1>5, <1>d, <2>3 DEF Keyed, Rightful
  <2>5. OwnerAt(e.path) = queue[k].path
    BY <1>5, <1>d DEF Belongs
  <2>6. /\ Seated(queue[k].path, queue[k].step, Captured, k)
        /\ \A j \in DOMAIN queue : Seated(queue[j].path, queue[j].step, Captured, j)
    BY <1>3 DEF EngineInv, AllKeyed
  <2> HIDE DEF k, next, txn, left, keys, n, l
  <2>7. y.by # NoEvent /\ y.by \in DOMAIN queue /\ queue[y.by].path = queue[k].path
    BY <1>d, <2>3, <2>5, <2>6 DEF Keyed, Seated
  <2>8. y.by = k
    <3>1. Seated(queue[k].path, queue[k].step, Captured, k) /\ Seated(queue[y.by].path, queue[y.by].step, Captured, y.by)
      BY <2>6, <2>7
    <3>2. FrameAt(queue[k].path).key = k /\ FrameAt(queue[y.by].path).key = y.by
      BY <3>1, FrameFields DEF Seated
    <3> QED
      BY <2>7, <3>2
  <2>9. Unseen(processor, y, k, w)
    BY <1>1, <1>e, <2>2, <2>4, <2>8 DEF Unseen, k
  <2> QED
    BY <1>3, <2>2, <2>9 DEF EngineInv, Meetings, txn
<1> HIDE DEF next, k, left, txn, n, l, keys
<1>12. \A q \in Executions : request[q].phase = "ok" => request'[q].phase = "ok"
  BY <1>1
<1>13. /\ queue' \in [DOMAIN queue' -> Events] /\ DOMAIN queue' \subseteq Keys
       /\ \A j \in DOMAIN queue' : queue'[j].key = j
       /\ DOMAIN queue \subseteq DOMAIN queue'
       /\ \A j \in DOMAIN queue' : Counted(queue'[j])
       /\ AllSettled'
  BY <1>0, <1>8, <1>10, <1>12, KeptOrNot DEF EngineInv
<1>14. processor' \in Deliveries(DOMAIN queue')
  BY <1>11, <1>13 DEF Deliveries
<1>15. AllKeyed'
  <2>1. \A e \in Range(st.fx) : e \in Formed /\ Rightful(e) /\ Belongs(e, IF k = NoEvent THEN <<>> ELSE queue[k].path)
    BY <1>1, <1>5, <1>8
  <2>2. \/ KeepNothing
        \/ /\ Keep(st.fx, k, missed)
           /\ \A e \in Range(st.fx), y \in records : y.path = e.path /\ e.op = "create" /\ (e.key # <<>> => e.key \in missed) =>
                k # NoEvent /\ queue[k].met /\ ~ReplayRequiresTransaction(queue[k].step)
    BY <1>1, <1>a, <1>d DEF txn
  <2> QED
    BY <1>0, <1>3, <2>1, <2>2, KeyedOrNot DEF EngineInv
<1>16. Meetings'
  <2>1. processor[w].event = k
    BY DEF k
  <2>2. ASSUME NEW v \in Processors
        PROVE  \/ processor'[v] = processor[v] /\ (k # NoEvent /\ processor[v].event = k => queue[k].met)
               \/ processor'[v].event = NoEvent
               \/ /\ processor'[v].event = processor[v].event
                  /\ processor'[v].due => ReplayRequiresTransaction(queue[processor[v].event].step)
    <3>1. CASE v = w
      BY <1>11, <2>1, <3>1 DEF txn
    <3>2. CASE v # w
      BY <1>11, <1>c, <3>2
    <3> QED
      BY <3>1, <3>2
  <2> QED
    BY <1>4, <1>a, <2>2, MeetingsGrow
<1> QED
  BY <1>0, <1>1, <1>9, <1>13, <1>14, <1>15, <1>16 DEF EngineInv, EngineTypes

LEMMA AskKeeps ==
  ASSUME EngineInv, NEW r \in Executions, NEW wf \in Wanted, Ask(r, wf)
  PROVE  EngineInv'
<1>0. EngineTypes
  BY DEF EngineInv
<1>1. request[r].phase = "new" /\ UNCHANGED <<processor, queue, records, updates, calls>>
  BY DEF Ask
<1>2. request' \in [Executions -> [phase : Phases, wf : Wanted, left : Left, runs : Nat]]
  BY <1>0 DEF Ask, EngineTypes, Phases
<1>3. \A q \in Executions : request[q].phase = "ok" => request'[q].phase = "ok"
  BY <1>0, <1>1 DEF Ask, EngineTypes
<1>4. AllSettled'
  BY <1>1, <1>3, SettledKept DEF EngineInv, AllSettled
<1>5. Meetings'
  BY <1>1, MeetingsStay DEF SameEvent, MetStays
<1> QED
  BY <1>0, <1>1, <1>2, <1>4, <1>5 DEF EngineInv, EngineTypes, NoCallInTransaction, AllKeyed

LEMMA EngineStep == EngineInv /\ [EngineNext]_engineVars => EngineInv'
<1>1. ASSUME EngineInv, UNCHANGED engineVars PROVE EngineInv'
  BY <1>1, MeetingsStay, QueueOnly DEF engineVars, SameEvent, MetStays, EngineInv, EngineTypes
<1>2. ASSUME EngineInv, EngineNext PROVE EngineInv'
  BY <1>2, AskKeeps, ExecuteKeeps, ClaimKeeps, ReplayKeeps, AcknowledgeKeeps, AbandonKeeps, ExhaustKeeps DEF EngineNext
<1> QED
  BY <1>1, <1>2

LEMMA EngineInvariant == EngineSpec => []EngineInv
<1> QED
  BY EngineStart, EngineStep, PTL DEF EngineSpec

(* No call of a provider is made inside a transaction.                       *)
THEOREM CallsOutsideTransactions == EngineSpec => []NoCallInTransaction
<1>1. EngineInv => NoCallInTransaction
  BY DEF EngineInv
<1> QED
  BY <1>1, EngineInvariant, PTL

(* A chain of queued steps ends: each hop takes two of the levels a run may   *)
(* go down.                                                                  *)
THEOREM HopsEnd == EngineSpec => []HopsBounded
<1>1. EngineInv => HopsBounded
  <2> SUFFICES ASSUME EngineInv, NEW k \in DOMAIN queue PROVE 2 * queue[k].hops <= MaxDepth + 2
    BY DEF HopsBounded
  <2>1. Counted(queue[k]) /\ queue[k] \in Events
    BY DEF EngineInv, EngineTypes
  <2>2. queue[k].hops \in Nat /\ queue[k].depth \in Nat /\ MaxDepth \in Nat
    BY <2>1, WorkflowEngineAssumption DEF Events
  <2> QED
    BY <2>1, <2>2 DEF Counted
<1> QED
  BY <1>1, EngineInvariant, PTL

(* However often a captured group is delivered, what it queues is queued     *)
(* once, and what it creates is created once, unless it is replayed without  *)
(* a transaction and two of its deliveries have been under way at once.      *)
THEOREM EffectsAreOnce == EngineSpec => []EffectsOnce
<1>1. EngineInv => EffectsOnce
  <2> SUFFICES ASSUME EngineInv PROVE EffectsOnce
    OBVIOUS
  <2>1. \A x \in records : x.nth > 0 => x.by # NoEvent /\ queue[x.by].met /\ ~ReplayRequiresTransaction(queue[x.by].step)
    BY DEF EngineInv, AllKeyed, Keyed
  <2>2. ASSUME NEW k \in DOMAIN queue, NEW l \in DOMAIN queue, queue[k].path = queue[l].path PROVE k = l
    <3>1. Seated(queue[k].path, queue[k].step, Captured, k) /\ Seated(queue[l].path, queue[l].step, Captured, l)
      BY DEF EngineInv, AllKeyed
    <3>2. FrameAt(queue[k].path).key = k /\ FrameAt(queue[l].path).key = l
      BY <3>1, FrameFields DEF Seated
    <3> QED
      BY <2>2, <3>2
  <2> QED
    BY <2>1, <2>2 DEF EffectsOnce
<1> QED
  BY <1>1, EngineInvariant, PTL

-----------------------------------------------------------------------------
(* A run that ends well and has passed over no error has met no fault, and    *)
(* whatever its counter of events started from, one that starts lower has the *)
(* same effects. Below, r is what becomes of st, and q in the same way of b.  *)
Good(st) == st.end = "ok" /\ ~st.passed
Unstruck(fault, st) == ~(1 <= fault.at /\ fault.at <= st.ops)
Clean(fault, st, r) == Good(r) => Good(st) /\ (Unstruck(fault, st) => Unstruck(fault, r))
Twins(a, b) == Good(a) /\ Good(b) /\ b.fx = a.fx /\ b.ret = a.ret /\ b.count <= a.count
Like(fault, st, r, b, q) == Clean(fault, st, r) /\ (fault = NoFault /\ Twins(st, b) /\ Good(r) => Twins(r, q))
Alike(run) ==
  /\ run \in [Calls -> Runs]
  /\ \A y \in Calls, b \in Runs : Like(y.p.fault, y.st, run[y], b, run[[y EXCEPT !.st = b]])

LEMMA LikeOn ==
  ASSUME NEW fault, NEW st, NEW r, NEW b, NEW q, NEW r2, NEW q2, Like(fault, st, r, b, q), Like(fault, r, r2, q, q2)
  PROVE  Like(fault, st, r2, b, q2)
BY DEF Like, Clean

LEMMA LikeSame ==
  ASSUME NEW fault, NEW st, NEW b
  PROVE  Like(fault, st, st, b, b)
BY DEF Like, Clean

LEMMA LikeBad ==
  ASSUME NEW fault, NEW st, NEW r, NEW b, NEW q, ~Good(r)
  PROVE  Like(fault, st, r, b, q)
BY DEF Like, Clean

LEMMA ErrorLike ==
  ASSUME NEW fault, NEW st \in Runs, NEW b, NEW q
  PROVE  Like(fault, st, Error(st), b, q)
<1>1. ~Good(Error(st))
  BY DEF Error, Good, Runs
<1> QED
  BY <1>1, LikeBad

LEMMA OperationLike ==
  ASSUME NEW p \in Contexts, NEW st \in Runs, NEW b \in Runs, NEW f, NEW g, st.fx = b.fx => f = g
  PROVE  Like(p.fault, st, Operation(p, st, f), b, Operation(p, b, g))
<1> DEFINE r == Operation(p, st, f)
           q == Operation(p, b, g)
<1>0. p.fault.at \in Nat
  BY WorkflowEngineAssumption DEF Contexts, Faults
<1>1. r.ops = st.ops + 1 /\ r.passed = st.passed /\ r.ret = st.ret /\ r.count = st.count
  BY DEF Operation, Runs
<1>2. p.fault.at = st.ops + 1 => r.end \in {"error", "stop"}
  BY DEF Operation, Runs
<1>3. p.fault.at # st.ops + 1 => r.end = st.end /\ r.fx = f
  BY DEF Operation, Runs
<1>4. p.fault.at # b.ops + 1 => q.end = b.end /\ q.fx = g
  BY DEF Operation, Runs
<1>5. q.passed = b.passed /\ q.ret = b.ret /\ q.count = b.count
  BY DEF Operation, Runs
<1>6. st.ops \in Nat /\ b.ops \in Nat
  BY DEF Runs
<1> HIDE DEF r, q
<1>7. Clean(p.fault, st, r)
  BY <1>0, <1>1, <1>2, <1>3, <1>6 DEF Clean, Good, Unstruck
<1>8. ASSUME p.fault = NoFault, Twins(st, b), Good(r) PROVE Twins(r, q)
  <2>1. p.fault.at = 0
    BY <1>8 DEF NoFault
  <2>2. p.fault.at # st.ops + 1 /\ p.fault.at # b.ops + 1
    BY <1>6, <2>1
  <2>3. f = g
    BY <1>8 DEF Twins
  <2> QED
    BY <1>1, <1>3, <1>4, <1>5, <1>8, <2>2, <2>3 DEF Twins, Good
<1> QED
  BY <1>7, <1>8 DEF Like, r, q

LEMMA EnqueueLike ==
  ASSUME NEW p \in Contexts, NEW st \in Runs, NEW b \in Runs, NEW s \in Steps
  PROVE  Like(p.fault, st, EnqueueWorkflowStep(s, p, st), b, EnqueueWorkflowStep(s, p, b))
<1>0. MaxEvents \in Nat /\ st.count \in -1..MaxEvents /\ b.count \in -1..MaxEvents
  BY WorkflowEngineAssumption DEF Runs
<1>1. CASE s.type = "emit" \/ st.count = MaxEvents
  <2>1. EnqueueWorkflowStep(s, p, st) = Error(st)
    BY <1>1 DEF EnqueueWorkflowStep
  <2> QED
    BY <2>1, ErrorLike
<1>2. CASE ~(s.type = "emit" \/ st.count = MaxEvents)
  <2> DEFINE c == IF st.count = -1 THEN -1 ELSE st.count + 1
             d == IF b.count = -1 THEN -1 ELSE b.count + 1
             counted == [st EXCEPT !.count = c]
             other == [b EXCEPT !.count = d]
             r == Operation(p, counted, Append(st.fx, Queued(s, p)))
             q == Operation(p, other, Append(b.fx, Queued(s, p)))
  <2>1. c \in -1..MaxEvents
    BY <1>0, <1>2
  <2>2. EnqueueWorkflowStep(s, p, st) = r
    BY <1>2 DEF EnqueueWorkflowStep, Queued
  <2>3. b.count # MaxEvents => EnqueueWorkflowStep(s, p, b) = q /\ d \in -1..MaxEvents
    BY <1>0, <1>2 DEF EnqueueWorkflowStep, Queued
  <2>4. b.count <= st.count => d <= c /\ b.count # MaxEvents
    BY <1>0, <1>2
  <2> HIDE DEF c, d, r, q
  <2>5. counted \in Runs /\ counted.fx = st.fx /\ counted.count = c /\ counted.end = st.end /\ counted.passed = st.passed
          /\ counted.ret = st.ret /\ counted.ops = st.ops
    BY <2>1 DEF Runs
  <2>6. d \in -1..MaxEvents => other \in Runs
    BY DEF Runs
  <2>7. other.fx = b.fx /\ other.count = d /\ other.end = b.end /\ other.passed = b.passed /\ other.ret = b.ret
    BY DEF Runs
  <2> HIDE DEF counted, other
  <2>8. CASE b.count <= st.count
    <3>1. Like(p.fault, st, counted, b, other)
      BY <2>4, <2>5, <2>7, <2>8 DEF Like, Clean, Good, Unstruck, Twins
    <3>2. Like(p.fault, counted, r, other, q)
      BY <2>3, <2>4, <2>5, <2>6, <2>7, <2>8, OperationLike DEF r, q
    <3> QED
      BY <2>2, <2>3, <2>4, <2>8, <3>1, <3>2, LikeOn
  <2>9. CASE ~(b.count <= st.count)
    <3>1. Like(p.fault, counted, r, counted, r)
      BY <2>5, OperationLike DEF r
    <3>2. Clean(p.fault, st, r)
      BY <2>5, <3>1 DEF Like, Clean, Good, Unstruck
    <3> QED
      BY <2>2, <2>9, <3>2 DEF Like, Twins
  <2> QED
    BY <2>8, <2>9
<1> QED
  BY <1>1, <1>2

LEMMA ListLike ==
  ASSUME NEW run, Alike(run), NEW steps \in Seq(Steps), NEW p \in Contexts, NEW st \in Runs, NEW b \in Runs
  PROVE  Like(p.fault, st, run[List(steps, p, st)], b, run[List(steps, p, b)]) /\ run[List(steps, p, st)] \in Runs
           /\ run[List(steps, p, b)] \in Runs
<1> DEFINE y == List(steps, p, st)
<1>1. y \in Calls /\ y.st = st /\ y.p = p
  BY ListType
<1>2. [y EXCEPT !.st = b] = List(steps, p, b)
  <2>1. /\ y.loop = FALSE /\ y.steps = steps /\ y.items = 0 /\ y.i = 0 /\ y.p = p
        /\ y = [loop |-> y.loop, steps |-> y.steps, items |-> y.items, i |-> y.i, p |-> y.p, st |-> y.st]
    BY DEF List
  <2> HIDE DEF y
  <2>2. [y EXCEPT !.st = b] = [loop |-> y.loop, steps |-> y.steps, items |-> y.items, i |-> y.i, p |-> y.p, st |-> b]
    BY <1>1 DEF Calls
  <2> QED
    BY <2>1, <2>2 DEF List
<1>3. List(steps, p, b) \in Calls
  BY ListType
<1> HIDE DEF y
<1>4. Like(y.p.fault, y.st, run[y], b, run[[y EXCEPT !.st = b]])
  BY <1>1 DEF Alike
<1>5. Like(p.fault, st, run[y], b, run[List(steps, p, b)])
  BY <1>1, <1>2, <1>4
<1>6. run[y] \in Runs /\ run[List(steps, p, b)] \in Runs
  BY <1>1, <1>3 DEF Alike
<1> QED
  BY <1>5, <1>6 DEF y

LEMMA PassLike ==
  ASSUME NEW run, Alike(run), NEW wf \in Names, NEW exec \in {Transactional, OutboxMode}, NEW p \in Contexts,
         NEW st \in Runs, NEW b \in Runs
  PROVE  /\ Like(p.fault, st, Pass(wf, exec, p, st, run), b, Pass(wf, exec, p, b, run))
         /\ Pass(wf, exec, p, st, run) \in Runs /\ Pass(wf, exec, p, b, run) \in Runs
<1> DEFINE q == Entered(wf, exec, p)
           steps == Definition[wf].steps
<1>1. q \in Contexts /\ steps \in Seq(Steps)
  BY EnteredType, WorkflowEngineAssumption DEF Workflow
<1>2. q.fault = p.fault
  BY DEF Entered, Contexts
<1>3. CASE Supports(Definition[wf].mode, exec)
  <2>1. Pass(wf, exec, p, st, run) = run[List(steps, q, st)] /\ Pass(wf, exec, p, b, run) = run[List(steps, q, b)]
    BY <1>3 DEF Pass
  <2> HIDE DEF q, steps
  <2> QED
    BY <1>1, <1>2, <2>1, ListLike
<1>4. CASE ~Supports(Definition[wf].mode, exec)
  <2>1. Pass(wf, exec, p, st, run) = st /\ Pass(wf, exec, p, b, run) = b
    BY <1>4 DEF Pass
  <2> QED
    BY <2>1, LikeSame
<1> QED
  BY <1>3, <1>4

LEMMA CountingLike ==
  ASSUME NEW fault, NEW st \in Runs, NEW b \in Runs
  PROVE  Like(fault, st, Counting(st), b, Counting(b))
<1> DEFINE c == IF st.count = -1 THEN 0 ELSE st.count
           d == IF b.count = -1 THEN 0 ELSE b.count
<1>1. b.count <= st.count => d <= c
  BY WorkflowEngineAssumption DEF Runs
<1>2. Counting(st) = [st EXCEPT !.count = c] /\ Counting(b) = [b EXCEPT !.count = d]
  BY DEF Counting
<1> HIDE DEF c, d
<1> QED
  BY <1>1, <1>2 DEF Like, Clean, Good, Unstruck, Twins, Runs

(* The return of a run is replaced by one that twins share.                  *)
LEMMA ReturnLike ==
  ASSUME NEW fault, NEW st \in Runs, NEW b \in Runs, NEW x \in BOOLEAN, NEW y \in BOOLEAN, Twins(st, b) => x = y
  PROVE  /\ [st EXCEPT !.ret = x] \in Runs /\ [b EXCEPT !.ret = y] \in Runs
         /\ Like(fault, st, [st EXCEPT !.ret = x], b, [b EXCEPT !.ret = y])
BY DEF Like, Clean, Good, Unstruck, Twins, Runs

LEMMA OutboxPassLike ==
  ASSUME NEW run, Alike(run), NEW wf \in Names, NEW p \in Contexts, NEW st \in Runs, NEW b \in Runs
  PROVE  /\ Like(p.fault, st, OutboxPass(wf, p, st, run), b, OutboxPass(wf, p, b, run))
         /\ OutboxPass(wf, p, st, run) \in Runs /\ OutboxPass(wf, p, b, run) \in Runs
<1> DEFINE f == [st EXCEPT !.ret = FALSE]
           g == [b EXCEPT !.ret = FALSE]
           second == Pass(wf, OutboxMode, p, f, run)
           other == Pass(wf, OutboxMode, p, g, run)
           x == st.ret
           y == b.ret
           r == [second EXCEPT !.ret = x]
           q == [other EXCEPT !.ret = y]
<1>1. f \in Runs /\ g \in Runs /\ Like(p.fault, st, f, b, g)
  BY ReturnLike
<1>2. OutboxPass(wf, p, st, run) = (IF st.end # "ok" THEN st ELSE r) /\ OutboxPass(wf, p, b, run) = (IF b.end # "ok" THEN b ELSE q)
  BY DEF OutboxPass
<1> HIDE DEF f, g
<1>3. second \in Runs /\ other \in Runs /\ Like(p.fault, f, second, g, other)
  BY <1>1, PassLike
<1> HIDE DEF second, other
<1>4. x \in BOOLEAN /\ y \in BOOLEAN /\ (Twins(st, b) => x = y)
  BY DEF Runs, Twins
<1> HIDE DEF x, y
<1>5. r \in Runs /\ q \in Runs /\ Clean(p.fault, second, r) /\ (x = y => Like(p.fault, second, r, other, q))
  BY <1>3, <1>4, ReturnLike DEF Like, Clean, Good, Unstruck, Runs
<1> HIDE DEF r, q
<1>6. Like(p.fault, st, second, b, other)
  BY <1>1, <1>3, LikeOn
<1>7. Like(p.fault, st, r, b, q)
  <2>1. CASE x = y
    BY <1>5, <1>6, <2>1, LikeOn
  <2>2. CASE x # y
    BY <1>4, <1>5, <1>6, <2>2 DEF Like, Clean
  <2> QED
    BY <2>1, <2>2
<1>8. CASE st.end # "ok"
  <2>1. ~Good(st)
    BY <1>8 DEF Good
  <2> QED
    BY <1>2, <1>5, <1>8, <2>1, LikeBad
<1>9. CASE st.end = "ok" /\ b.end = "ok"
  BY <1>2, <1>5, <1>7, <1>9
<1>10. CASE st.end = "ok" /\ b.end # "ok"
  <2>1. ~Twins(st, b)
    BY <1>10 DEF Twins, Good
  <2> QED
    BY <1>2, <1>5, <1>7, <1>10, <2>1 DEF Like
<1> QED
  BY <1>8, <1>9, <1>10

LEMMA RunDefinitionLike ==
  ASSUME NEW run, Alike(run), NEW wf \in Names, NEW p \in Contexts, NEW st \in Runs, NEW b \in Runs
  PROVE  /\ Like(p.fault, st, RunDefinition(wf, p, st, run), b, RunDefinition(wf, p, b, run))
         /\ RunDefinition(wf, p, st, run) \in Runs /\ RunDefinition(wf, p, b, run) \in Runs
<1>1. CASE ~ValidateWorkflow(wf) \/ p.depth > MaxDepth
  <2>1. RunDefinition(wf, p, st, run) = Error(st) /\ RunDefinition(wf, p, b, run) = Error(b)
    BY <1>1 DEF RunDefinition
  <2> QED
    BY <2>1, ErrorLike, OperationsType
<1>2. CASE ~(~ValidateWorkflow(wf) \/ p.depth > MaxDepth) /\ ~Matches(Definition[wf].when, p)
  <2>1. RunDefinition(wf, p, st, run) = Counting(st) /\ RunDefinition(wf, p, b, run) = Counting(b)
    BY <1>2 DEF RunDefinition
  <2> QED
    BY <2>1, CountingLike, CountingType
<1>3. CASE ~(~ValidateWorkflow(wf) \/ p.depth > MaxDepth) /\ Matches(Definition[wf].when, p)
  <2> DEFINE f == Pass(wf, Transactional, p, Counting(st), run)
             g == Pass(wf, Transactional, p, Counting(b), run)
             r == OutboxPass(wf, p, f, run)
             q == OutboxPass(wf, p, g, run)
  <2>1. Counting(st) \in Runs /\ Counting(b) \in Runs /\ Like(p.fault, st, Counting(st), b, Counting(b))
    BY CountingLike, CountingType
  <2>2. f \in Runs /\ g \in Runs /\ Like(p.fault, Counting(st), f, Counting(b), g)
    BY <2>1, PassLike
  <2>3. RunDefinition(wf, p, st, run) = r /\ RunDefinition(wf, p, b, run) = q
    BY <1>3 DEF RunDefinition
  <2> HIDE DEF f, g
  <2>4. r \in Runs /\ q \in Runs /\ Like(p.fault, f, r, g, q)
    BY <2>2, OutboxPassLike
  <2> HIDE DEF r, q
  <2>5. Like(p.fault, st, f, b, g)
    BY <2>1, <2>2, LikeOn
  <2>6. Like(p.fault, st, r, b, q)
    BY <2>4, <2>5, LikeOn
  <2> QED
    BY <2>3, <2>4, <2>6
<1> QED
  BY <1>1, <1>2, <1>3

LEMMA ExecuteWorkflowLike ==
  ASSUME NEW run, Alike(run), NEW s \in Steps, NEW p \in Contexts, NEW st \in Runs, NEW b \in Runs
  PROVE  Like(p.fault, st, ExecuteWorkflow(s, p, st, run), b, ExecuteWorkflow(s, p, b, run))
<1> DEFINE d == [p EXCEPT !.depth = @ + 1]
           child == RunDefinition(s.target, d, st, run)
           other == RunDefinition(s.target, d, b, run)
           c == IF st.count = -1 THEN -1 ELSE child.count
           e == IF b.count = -1 THEN -1 ELSE other.count
           r == [child EXCEPT !.ret = st.ret, !.count = c]
           q == [other EXCEPT !.ret = b.ret, !.count = e]
<1>1. CASE p.depth >= MaxDepth \/ s.target \notin Names \/ ~Definition[s.target].active
  <2>1. ExecuteWorkflow(s, p, st, run) = Error(st)
    BY <1>1 DEF ExecuteWorkflow
  <2> QED
    BY <2>1, ErrorLike
<1>2. CASE ~(p.depth >= MaxDepth \/ s.target \notin Names \/ ~Definition[s.target].active)
  <2>1. ExecuteWorkflow(s, p, st, run) = r /\ ExecuteWorkflow(s, p, b, run) = q
    BY <1>2 DEF ExecuteWorkflow
  <2>2. d \in Contexts /\ d.fault = p.fault /\ s.target \in Names
    BY <1>2 DEF Contexts
  <2> HIDE DEF d
  <2>3. child \in Runs /\ other \in Runs /\ Like(p.fault, st, child, b, other)
    BY <2>2, RunDefinitionLike
  <2> HIDE DEF child, other
  <2>4. b.count <= st.count /\ other.count <= child.count => e <= c
    <3>1. {st.count, b.count, child.count, other.count} \subseteq -1..MaxEvents /\ MaxEvents \in Nat
      BY <2>3, WorkflowEngineAssumption DEF Runs
    <3> QED
      BY <3>1
  <2> HIDE DEF c, e
  <2>5. r.end = child.end /\ r.passed = child.passed /\ r.ops = child.ops /\ r.fx = child.fx /\ r.ret = st.ret /\ r.count = c
    BY <2>3 DEF Runs
  <2>6. q.end = other.end /\ q.passed = other.passed /\ q.fx = other.fx /\ q.ret = b.ret /\ q.count = e
    BY <2>3 DEF Runs
  <2> HIDE DEF r, q
  <2> QED
    BY <2>1, <2>3, <2>4, <2>5, <2>6 DEF Like, Clean, Good, Unstruck, Twins
<1> QED
  BY <1>1, <1>2

LEMMA IfLike ==
  ASSUME NEW run, Alike(run), NEW s \in Steps, NEW p \in Contexts, NEW st \in Runs, NEW b \in Runs
  PROVE  Like(p.fault, st, If(s, p, st, run), b, If(s, p, b, run))
<1> DEFINE taken == {j \in DOMAIN Branches(s) : Matches(Branches(s)[j].when, p)}
           j == CHOOSE x \in taken : \A y \in taken : x <= y
<1>1. CASE taken = {}
  BY <1>1, LikeSame DEF If
<1>2. CASE taken # {}
  <2>1. taken \subseteq Nat
    BY BranchesAre
  <2>2. \E x \in taken : \A z \in taken : x <= z
    BY <1>2, <2>1, LeastNumber
  <2>3. j \in DOMAIN Branches(s)
    BY <2>2
  <2>4. /\ If(s, p, st, run) = run[List(Branches(s)[j].steps, Branching(s, p, j), st)]
        /\ If(s, p, b, run) = run[List(Branches(s)[j].steps, Branching(s, p, j), b)]
    BY <1>2 DEF If, Branching
  <2> HIDE DEF j, taken
  <2>5. Branches(s)[j].steps \in Seq(Steps)
    BY <2>3, BranchesAre
  <2>6. Branching(s, p, j) \in Contexts /\ Branching(s, p, j).fault = p.fault
    BY <2>3, BranchingFields DEF Keeps
  <2> QED
    BY <2>4, <2>5, <2>6, ListLike
<1> QED
  BY <1>1, <1>2

LEMMA LoopLike ==
  ASSUME NEW run, Alike(run), NEW s \in Steps, NEW p \in Contexts, NEW st \in Runs, NEW b \in Runs
  PROVE  Like(p.fault, st, run[Loop(s, p, st)], b, run[Loop(s, p, b)])
<1> DEFINE y == Loop(s, p, st)
<1>1. y \in Calls /\ y.st = st /\ y.p = p
  BY StepShapes DEF Loop, Calls
<1>2. [y EXCEPT !.st = b] = Loop(s, p, b)
  <2>1. /\ y.loop = TRUE /\ y.steps = s.steps /\ y.items = s.items /\ y.i = 0 /\ y.p = p
    BY DEF Loop
  <2> HIDE DEF y
  <2>2. [y EXCEPT !.st = b] = [loop |-> y.loop, steps |-> y.steps, items |-> y.items, i |-> y.i, p |-> y.p, st |-> b]
    BY <1>1 DEF Calls
  <2> QED
    BY <2>1, <2>2 DEF Loop
<1> HIDE DEF y
<1>3. Like(y.p.fault, y.st, run[y], b, run[[y EXCEPT !.st = b]])
  BY <1>1 DEF Alike
<1>4. Like(p.fault, st, run[y], b, run[Loop(s, p, b)])
  BY <1>1, <1>2, <1>3
<1> QED
  BY <1>4 DEF y

LEMMA ProcessStepLike ==
  ASSUME NEW run, Alike(run), NEW s \in Steps, NEW p \in Contexts, NEW st \in Runs, NEW b \in Runs
  PROVE  Like(p.fault, st, ProcessStep(s, p, st, run), b, ProcessStep(s, p, b, run))
<1>1. CASE s.type = "create"
  <2>1. ProcessStep(s, p, st, run) = CreateRecord(p, st) /\ ProcessStep(s, p, b, run) = CreateRecord(p, b)
    BY <1>1 DEF ProcessStep
  <2> QED
    BY <2>1, OperationLike DEF CreateRecord
<1>2. CASE s.type \in {"update", "audit"}
  <2>1. ProcessStep(s, p, st, run) = UpdateRecord(p, st) /\ ProcessStep(s, p, b, run) = UpdateRecord(p, b)
    BY <1>2 DEF ProcessStep
  <2> QED
    BY <2>1, OperationLike DEF UpdateRecord
<1>3. CASE s.type = "read"
  <2>1. ProcessStep(s, p, st, run) = ReadRecords(p, st) /\ ProcessStep(s, p, b, run) = ReadRecords(p, b)
    BY <1>3 DEF ProcessStep
  <2> QED
    BY <2>1, OperationLike DEF ReadRecords
<1>4. CASE s.type = "call"
  <2>1. ProcessStep(s, p, st, run) = CallAPI(p, st) /\ ProcessStep(s, p, b, run) = CallAPI(p, b)
    BY <1>4 DEF ProcessStep
  <2>2. CASE p.named
    BY <2>1, <2>2, OperationLike DEF CallAPI
  <2>3. CASE ~p.named
    BY <2>1, <2>3, ErrorLike DEF CallAPI
  <2> QED
    BY <2>2, <2>3
<1>5. CASE s.type = "if"
  <2>1. ProcessStep(s, p, st, run) = If(s, p, st, run) /\ ProcessStep(s, p, b, run) = If(s, p, b, run)
    BY <1>5 DEF ProcessStep
  <2> QED
    BY <2>1, IfLike
<1>6. CASE s.type = "for_each"
  <2>1. ProcessStep(s, p, st, run) = run[Loop(s, p, st)] /\ ProcessStep(s, p, b, run) = run[Loop(s, p, b)]
    BY <1>6 DEF ProcessStep
  <2> QED
    BY <2>1, LoopLike
<1>7. CASE s.type = "execute_workflow"
  <2>1. /\ ProcessStep(s, p, st, run) = ExecuteWorkflow(s, p, st, run)
        /\ ProcessStep(s, p, b, run) = ExecuteWorkflow(s, p, b, run)
    BY <1>7 DEF ProcessStep
  <2> QED
    BY <2>1, ExecuteWorkflowLike
<1>8. CASE s.type = "return"
  <2>1. ProcessStep(s, p, st, run) = [st EXCEPT !.ret = TRUE] /\ ProcessStep(s, p, b, run) = [b EXCEPT !.ret = TRUE]
    BY <1>8 DEF ProcessStep
  <2> DEFINE r == [st EXCEPT !.ret = TRUE]
             q == [b EXCEPT !.ret = TRUE]
  <2>2. r.end = st.end /\ r.passed = st.passed /\ r.ops = st.ops /\ r.fx = st.fx /\ r.ret = TRUE /\ r.count = st.count
    BY DEF Runs
  <2>3. q.end = b.end /\ q.passed = b.passed /\ q.fx = b.fx /\ q.ret = TRUE /\ q.count = b.count
    BY DEF Runs
  <2> HIDE DEF r, q
  <2>4. Like(p.fault, st, r, b, q)
    BY <2>2, <2>3 DEF Like, Clean, Good, Unstruck, Twins
  <2> QED
    BY <2>1, <2>4 DEF r, q
<1>9. CASE s.type \notin {"create", "audit", "update", "read", "call", "if", "for_each", "execute_workflow", "return"}
  <2>1. ProcessStep(s, p, st, run) = Error(st)
    BY <1>9 DEF ProcessStep
  <2> QED
    BY <2>1, ErrorLike
<1> QED
  BY <1>1, <1>2, <1>3, <1>4, <1>5, <1>6, <1>7, <1>8, <1>9

LEMMA LikeClean ==
  ASSUME NEW fault, NEW st, NEW r, NEW c, NEW d, Like(fault, st, r, c, d), NEW b, ~Twins(st, b), NEW q
  PROVE  Like(fault, st, r, b, q)
BY DEF Like

LEMMA CallFields ==
  ASSUME NEW y \in Calls, NEW i \in Nat, NEW c \in Runs
  PROVE  [y EXCEPT !.i = i, !.st = c] = [loop |-> y.loop, steps |-> y.steps, items |-> y.items, i |-> i, p |-> y.p, st |-> c]
<1> DEFINE z == [y EXCEPT !.i = i, !.st = c]
<1>1. /\ z \in Calls /\ z.loop = y.loop /\ z.steps = y.steps /\ z.items = y.items /\ z.i = i /\ z.p = y.p /\ z.st = c
  BY DEF Calls
<1> HIDE DEF z
<1>2. z = [loop |-> y.loop, steps |-> y.steps, items |-> y.items, i |-> i, p |-> y.p, st |-> c]
  BY <1>1 DEF Calls
<1> QED
  BY <1>2 DEF z

(* A call with another state to start from.                                   *)
LEMMA OtherCall ==
  ASSUME NEW x \in Calls, NEW b \in Runs
  PROVE  LET z == [x EXCEPT !.st = b]
         IN /\ z \in Calls /\ z.st = b /\ z.p = x.p /\ z.loop = x.loop /\ z.steps = x.steps /\ z.i = x.i /\ z.items = x.items
            /\ \A st \in Runs, c \in Runs : Onward(z, c) = [Onward(x, st) EXCEPT !.st = c]
<1> DEFINE z == [x EXCEPT !.st = b]
<1>1. /\ z \in Calls /\ z.st = b /\ z.p = x.p /\ z.loop = x.loop /\ z.steps = x.steps /\ z.i = x.i /\ z.items = x.items
  BY DEF Calls
<1> HIDE DEF z
<1>2. ASSUME NEW st \in Runs, NEW c \in Runs PROVE Onward(z, c) = [Onward(x, st) EXCEPT !.st = c]
  <2> DEFINE i == x.i + 1
             y == Onward(x, st)
  <2>1. i \in Nat /\ z.i + 1 = i
    BY <1>1 DEF Calls
  <2>2. Onward(z, c) = [z EXCEPT !.i = i, !.st = c]
    BY <2>1 DEF Onward
  <2>3. y = [x EXCEPT !.i = i, !.st = st]
    BY DEF Onward
  <2> HIDE DEF i
  <2>4. [z EXCEPT !.i = i, !.st = c] = [loop |-> z.loop, steps |-> z.steps, items |-> z.items, i |-> i, p |-> z.p, st |-> c]
    BY <1>1, <2>1, CallFields
  <2>5. y = [loop |-> x.loop, steps |-> x.steps, items |-> x.items, i |-> i, p |-> x.p, st |-> st]
    BY <2>3 DEF Calls
  <2> HIDE DEF y
  <2>6. [y EXCEPT !.st = c] = [loop |-> x.loop, steps |-> x.steps, items |-> x.items, i |-> i, p |-> x.p, st |-> c]
    BY <2>5
  <2> QED
    BY <1>1, <2>2, <2>4, <2>6 DEF y
<1> QED
  BY <1>1, <1>2 DEF z

LEMMA OnwardLike ==
  ASSUME NEW run, Alike(run), NEW x \in Calls, NEW b \in Runs, NEW r \in Runs, NEW q \in Runs
  PROVE  /\ Like(x.p.fault, r, run[Onward(x, r)], q, run[Onward([x EXCEPT !.st = b], q)])
         /\ run[Onward(x, r)] \in Runs /\ run[Onward([x EXCEPT !.st = b], q)] \in Runs
<1> DEFINE z == [x EXCEPT !.st = b]
           y == Onward(x, r)
<1>1. z \in Calls /\ Onward(z, q) = [y EXCEPT !.st = q]
  BY OtherCall
<1>2. y \in Calls /\ y.st = r /\ Onward(z, q) \in Calls
  BY <1>1, OnwardType
<1>3. y.p = x.p
  BY DEF Onward, Calls
<1> HIDE DEF z, y
<1>4. Like(y.p.fault, y.st, run[y], q, run[[y EXCEPT !.st = q]])
  BY <1>2 DEF Alike
<1>5. run[y] \in Runs /\ run[Onward(z, q)] \in Runs
  BY <1>2 DEF Alike
<1> QED
  BY <1>1, <1>2, <1>3, <1>4, <1>5 DEF y, z

LEMMA AfterLike ==
  ASSUME NEW run, Alike(run), NEW x \in Calls, NEW b \in Runs, NEW s \in Steps, NEW done \in Runs, NEW other \in Runs
  PROVE  Like(x.p.fault, done, AfterStep(x, s, done, run), other, AfterStep([x EXCEPT !.st = b], s, other, run))
<1> DEFINE z == [x EXCEPT !.st = b]
           fails(st) == st.end = "stop" \/ (st.end = "error" /\ x.p.stop /\ ~s.continueOnError)
           P == PassedOver(done)
           Q == PassedOver(other)
           r == AfterStep(x, s, done, run)
           q == AfterStep(z, s, other, run)
<1>1. z.p = x.p
  BY OtherCall
<1>2. r = IF fails(done) THEN done ELSE IF done.ret THEN P ELSE run[Onward(x, P)]
  BY DEF AfterStep
<1>3. q = IF fails(other) THEN other ELSE IF other.ret THEN Q ELSE run[Onward(z, Q)]
  BY <1>1 DEF AfterStep
<1>4. P \in Runs /\ Q \in Runs
  BY PassedOverType
<1>5. /\ P.fx = done.fx /\ P.ret = done.ret /\ P.count = done.count /\ P.end = "ok" /\ P.ops = done.ops
      /\ P.passed = (done.passed \/ done.end = "error")
  BY DEF PassedOver, Runs
<1>6. /\ Q.fx = other.fx /\ Q.ret = other.ret /\ Q.count = other.count /\ Q.end = "ok"
      /\ Q.passed = (other.passed \/ other.end = "error")
  BY DEF PassedOver, Runs
<1>7. done.end \in {"ok", "error", "stop"}
  BY DEF Runs
<1> HIDE DEF P, Q, r, q
<1>8. /\ Like(x.p.fault, P, run[Onward(x, P)], Q, run[Onward(z, Q)])
      /\ Like(x.p.fault, P, run[Onward(x, P)], P, run[Onward(z, P)])
  BY <1>4, OnwardLike
<1> HIDE DEF z
<1>9. CASE ~Good(done)
  <2>1. fails(done) \/ ~Good(P)
    BY <1>5, <1>7, <1>9 DEF Good
  <2>2. ~Good(P) => ~Good(run[Onward(x, P)])
    BY <1>8 DEF Like, Clean
  <2>3. ~Good(r)
    BY <1>2, <1>9, <2>1, <2>2
  <2> QED
    BY <2>3, LikeBad DEF r, q, z
<1>10. CASE Good(done) /\ Twins(done, other)
  <2>1. Like(x.p.fault, done, P, other, Q)
    BY <1>5, <1>6, <1>10 DEF Like, Clean, Good, Unstruck, Twins
  <2>2. ~fails(done) /\ ~fails(other) /\ other.ret = done.ret
    BY <1>10 DEF Good, Twins
  <2>3. Like(x.p.fault, done, run[Onward(x, P)], other, run[Onward(z, Q)])
    BY <1>8, <2>1, LikeOn
  <2>4. Like(x.p.fault, done, r, other, q)
    BY <1>2, <1>3, <2>1, <2>2, <2>3
  <2> QED
    BY <2>4 DEF r, q, z
<1>11. CASE Good(done) /\ ~Twins(done, other)
  <2>1. Like(x.p.fault, done, P, done, P)
    BY <1>5, <1>11 DEF Like, Clean, Good, Unstruck, Twins
  <2>2. ~fails(done)
    BY <1>11 DEF Good
  <2>3. Like(x.p.fault, done, run[Onward(x, P)], done, run[Onward(z, P)])
    BY <1>8, <2>1, LikeOn
  <2>4. Like(x.p.fault, done, r, other, q)
    BY <1>2, <1>11, <2>1, <2>2, <2>3, LikeClean
  <2> QED
    BY <2>4 DEF r, q, z
<1> QED
  BY <1>9, <1>10, <1>11

LEMMA AnyFitting ==
  ASSUME NEW run \in [Calls -> Runs]
  PROVE  Fitting(run, [y \in Calls |-> Effects])
<1> DEFINE A == [y \in Calls |-> Effects]
<1>1. \A st \in Runs : Range(st.fx) \subseteq Effects
  BY DEF Runs, Range
<1>2. \A y \in Calls : A[y] = Effects
  OBVIOUS
<1> HIDE DEF A
<1> QED
  BY <1>1, <1>2 DEF Fitting, Fits, A

LEMMA StepTypes ==
  ASSUME NEW run \in [Calls -> Runs], NEW s \in Steps, s.active, NEW p \in Contexts, NEW st \in Runs
  PROVE  ProcessStep(s, p, st, run) \in Runs /\ EnqueueWorkflowStep(s, p, st) \in Runs
<1> DEFINE A == [y \in Calls |-> Effects]
<1>1. Fitting(run, A)
  BY AnyFitting
<1>2. \A y \in Calls : A[y] \subseteq Effects
  OBVIOUS
<1> HIDE DEF A
<1>3. Fits(ProcessStep(s, p, st, run), st, Effects)
  BY <1>1, <1>2, ProcessStepFits
<1>4. s.type # "emit" => Queued(s, p) \in Effects
  BY StepEventType DEF Queued, Effects, Events, Contexts
<1>5. Fits(EnqueueWorkflowStep(s, p, st), st, Effects)
  BY <1>4, EnqueueFits
<1> QED
  BY <1>3, <1>5 DEF Fits

LEMMA RunStepListLike ==
  ASSUME NEW run, Alike(run), NEW x \in Calls, NEW b \in Runs, ~x.loop
  PROVE  Like(x.p.fault, x.st, Turn(x, run), b, Turn([x EXCEPT !.st = b], run))
<1> DEFINE z == [x EXCEPT !.st = b]
           s == x.steps[x.i + 1]
           at == Stepping(x)
           done == RunStep(s, at, x.st, run)
           other == RunStep(s, at, b, run)
           r == Turn(x, run)
           q == Turn(z, run)
<1>0. x.st \in Runs /\ x.p \in Contexts /\ x.steps \in Seq(Steps) /\ x.i \in Nat
  BY DEF Calls
<1>1. z.st = b /\ z.p = x.p /\ z.loop = x.loop /\ z.steps = x.steps /\ z.i = x.i
  BY OtherCall
<1>2. r = IF x.i >= Len(x.steps) THEN x.st
          ELSE IF Skipped(s, x.p) THEN run[Onward(x, x.st)] ELSE AfterStep(x, s, done, run)
  BY DEF Turn, RunStepList, Stepping
<1>3. q = IF x.i >= Len(x.steps) THEN b
          ELSE IF Skipped(s, x.p) THEN run[Onward(z, b)] ELSE AfterStep(z, s, other, run)
  <2> HIDE DEF z
  <2> QED
    BY <1>1 DEF Turn, RunStepList, Stepping
<1> HIDE DEF r, q
<1>4. CASE x.i >= Len(x.steps)
  BY <1>2, <1>3, <1>4, LikeSame DEF r, q, z
<1>5. CASE ~(x.i >= Len(x.steps)) /\ Skipped(s, x.p)
  <2>1. Like(x.p.fault, x.st, run[Onward(x, x.st)], b, run[Onward(z, b)])
    BY <1>0, OnwardLike
  <2> QED
    BY <1>2, <1>3, <1>5, <2>1 DEF r, q, z
<1>6. CASE ~(x.i >= Len(x.steps)) /\ ~Skipped(s, x.p)
  <2>1. x.i < Len(x.steps)
    BY <1>0, <1>6
  <2>2. s \in Steps /\ s.active /\ at \in Contexts /\ Keeps(at, x.p)
    BY <1>0, <1>6, <2>1, SteppingType, DeeperType, StepShapes DEF Stepping, Skipped
  <2>3. at.fault = x.p.fault
    BY <2>2 DEF Keeps
  <2>4. run \in [Calls -> Runs]
    BY DEF Alike
  <2> HIDE DEF s, at, z
  <2>5. done \in Runs /\ other \in Runs
    BY <1>0, <2>2, <2>4, StepTypes DEF RunStep
  <2>6. Like(at.fault, x.st, done, b, other)
    BY <1>0, <2>2, EnqueueLike, ProcessStepLike DEF RunStep
  <2> HIDE DEF done, other
  <2>7. Like(x.p.fault, done, AfterStep(x, s, done, run), other, AfterStep(z, s, other, run))
    BY <2>2, <2>5, AfterLike DEF z
  <2>8. Like(x.p.fault, x.st, AfterStep(x, s, done, run), b, AfterStep(z, s, other, run))
    BY <2>3, <2>6, <2>7, LikeOn
  <2> QED
    BY <1>2, <1>3, <1>6, <2>8 DEF r, q, z
<1> QED
  BY <1>4, <1>5, <1>6

LEMMA ForEachLike ==
  ASSUME NEW run, Alike(run), NEW x \in Calls, NEW b \in Runs, x.loop, b.end = x.st.end, b.ret = x.st.ret
  PROVE  Like(x.p.fault, x.st, Turn(x, run), b, Turn([x EXCEPT !.st = b], run))
<1> DEFINE z == [x EXCEPT !.st = b]
           over == x.i >= x.items \/ x.st.end # "ok" \/ (x.i > 0 /\ x.st.ret)
           y == List(x.steps, Item(x), x.st)
           w == List(x.steps, Item(x), b)
           r == Turn(x, run)
           q == Turn(z, run)
<1>0. x.st \in Runs /\ x.p \in Contexts /\ x.steps \in Seq(Steps)
  BY DEF Calls
<1>1. z.st = b /\ z.p = x.p /\ z.loop = x.loop /\ z.steps = x.steps /\ z.i = x.i /\ z.items = x.items
  BY OtherCall
<1>2. r = IF over THEN x.st ELSE run[Onward(x, run[y])]
  BY DEF Turn, ForEach, Item
<1>3. q = IF over THEN b ELSE run[Onward(z, run[w])]
  <2> HIDE DEF z
  <2> QED
    BY <1>1 DEF Turn, ForEach, Item
<1>4. Item(x) \in Contexts /\ Item(x).fault = x.p.fault
  BY ItemType DEF Keeps
<1>5. Like(x.p.fault, x.st, run[y], b, run[w]) /\ run[y] \in Runs /\ run[w] \in Runs
  <2> DEFINE p == Item(x)
  <2>1. Like(p.fault, x.st, run[List(x.steps, p, x.st)], b, run[List(x.steps, p, b)])
          /\ run[List(x.steps, p, x.st)] \in Runs /\ run[List(x.steps, p, b)] \in Runs
    BY <1>0, <1>4, ListLike
  <2> QED
    BY <1>4, <2>1
<1> HIDE DEF y, w
<1>6. Like(x.p.fault, run[y], run[Onward(x, run[y])], run[w], run[Onward(z, run[w])])
  BY <1>5, OnwardLike
<1>7. Like(x.p.fault, x.st, run[Onward(x, run[y])], b, run[Onward(z, run[w])])
  BY <1>5, <1>6, LikeOn
<1> HIDE DEF over, r, q, z
<1>8. CASE over
  BY <1>2, <1>3, <1>8, LikeSame DEF r, q, z
<1>9. CASE ~over
  BY <1>2, <1>3, <1>7, <1>9 DEF r, q, z
<1> QED
  BY <1>8, <1>9

LEMMA TurnLike ==
  ASSUME NEW run, Alike(run), NEW x \in Calls, NEW b \in Runs
  PROVE  Like(x.p.fault, x.st, Turn(x, run), b, Turn([x EXCEPT !.st = b], run))
<1>0. x.st \in Runs
  BY DEF Calls
<1>1. CASE ~x.loop
  BY <1>1, RunStepListLike
<1>2. CASE x.loop /\ Twins(x.st, b)
  <2>1. b.end = x.st.end /\ b.ret = x.st.ret
    BY <1>2 DEF Twins, Good
  <2> QED
    BY <1>2, <2>1, ForEachLike
<1>3. CASE x.loop /\ ~Twins(x.st, b)
  <2>1. Like(x.p.fault, x.st, Turn(x, run), x.st, Turn([x EXCEPT !.st = x.st], run))
    BY <1>0, <1>3, ForEachLike
  <2> QED
    BY <1>3, <2>1, LikeClean
<1>4. x.loop \in BOOLEAN
  BY DEF Calls
<1> QED
  BY <1>1, <1>2, <1>3, <1>4

LEMMA EvaluateAlike == Alike(Evaluate)
<1> DEFINE T == {n \in Nat : Alike(Run[n])}
<1>1. 0 \in T
  <2>1. Run[0] \in [Calls -> Runs]
    BY RunIs
  <2>2. ASSUME NEW y \in Calls, NEW b \in Runs
        PROVE  Like(y.p.fault, y.st, Run[0][y], b, Run[0][[y EXCEPT !.st = b]])
    <3>1. Run[0][y] = Error(y.st) /\ y.st \in Runs
      BY RunIs DEF Calls
    <3> QED
      BY <3>1, ErrorLike
  <2> QED
    BY <2>1, <2>2 DEF Alike
<1>2. ASSUME NEW n \in Nat, n \in T PROVE n + 1 \in T
  <2>1. Alike(Run[n])
    BY <1>2
  <2>2. Run[n + 1] = [x \in Calls |-> Turn(x, Run[n])]
    BY RunIs, Zenon
  <2>3. ASSUME NEW y \in Calls, NEW b \in Runs
        PROVE  Like(y.p.fault, y.st, Run[n + 1][y], b, Run[n + 1][[y EXCEPT !.st = b]])
    <3> DEFINE z == [y EXCEPT !.st = b]
    <3>1. z \in Calls
      BY OtherCall
    <3> HIDE DEF z
    <3>2. Run[n + 1][y] = Turn(y, Run[n]) /\ Run[n + 1][z] = Turn(z, Run[n])
      BY <2>2, <3>1
    <3>3. Like(y.p.fault, y.st, Turn(y, Run[n]), b, Turn(z, Run[n]))
      BY <2>1, TurnLike DEF z
    <3> QED
      BY <3>2, <3>3 DEF z
  <2>4. Run[n + 1] \in [Calls -> Runs]
    <3>1. n + 1 \in Nat
      OBVIOUS
    <3> QED
      BY <3>1, RunIs, Zenon
  <2> QED
    BY <2>3, <2>4 DEF Alike
<1> HIDE DEF T
<1>3. T = Nat
  BY <1>1, <1>2, HandedOn DEF T
<1>4. MaxTurns \in Nat
  BY WorkflowEngineAssumption
<1> QED
  BY <1>3, <1>4 DEF T, Evaluate

(* What a request runs.                                                      *)
Both(p, st, r, b, q) == r \in Runs /\ q \in Runs /\ Like(p.fault, st, r, b, q)

LEMMA BothOn ==
  ASSUME NEW p, NEW st, NEW r, NEW b, NEW q, NEW r2, NEW q2, Both(p, st, r, b, q), Both(p, r, r2, q, q2)
  PROVE  Both(p, st, r2, b, q2)
BY LikeOn DEF Both

LEMMA RunListedSame ==
  ASSUME NEW wf \in Names, NEW trigger, NEW exec \in {Transactional, OutboxMode}, NEW p \in Contexts,
         NEW st \in Runs, NEW b \in Runs, b.end = st.end, b.ret = st.ret
  PROVE  Both(p, st, RunListed(wf, trigger, exec, p, st), b, RunListed(wf, trigger, exec, p, b))
<1> DEFINE d == Definition[wf]
           q == Entered(wf, exec, p)
           skips == st.end # "ok" \/ ~d.active \/ d.trigger # trigger \/ ~Supports(d.mode, exec)
           bad == ~ValidateWorkflow(wf) \/ p.depth > MaxDepth
           y == Evaluate[List(d.steps, q, st)]
           z == Evaluate[List(d.steps, q, b)]
           f == [y EXCEPT !.ret = st.ret]
           g == [z EXCEPT !.ret = b.ret]
<1>1. RunListed(wf, trigger, exec, p, st) =
        IF skips THEN st ELSE IF bad THEN Error(st) ELSE IF ~Matches(d.when, p) THEN st ELSE f
  BY DEF RunListed
<1>2. RunListed(wf, trigger, exec, p, b) =
        IF skips THEN b ELSE IF bad THEN Error(b) ELSE IF ~Matches(d.when, p) THEN b ELSE g
  BY DEF RunListed
<1>3. q \in Contexts /\ d.steps \in Seq(Steps)
  BY EnteredType, WorkflowEngineAssumption DEF Workflow
<1>4. q.fault = p.fault
  BY DEF Entered, Contexts
<1> HIDE DEF q, d
<1>5. y \in Runs /\ z \in Runs /\ Like(p.fault, st, y, b, z)
  BY <1>3, <1>4, EvaluateAlike, ListLike
<1> HIDE DEF y, z
<1>6. f \in Runs /\ g \in Runs /\ Like(p.fault, y, f, z, g)
  <2> DEFINE x == st.ret
  <2>1. x \in BOOLEAN /\ b.ret = x
    BY DEF Runs
  <2> HIDE DEF x
  <2>2. [y EXCEPT !.ret = x] \in Runs /\ [z EXCEPT !.ret = x] \in Runs
          /\ Like(p.fault, y, [y EXCEPT !.ret = x], z, [z EXCEPT !.ret = x])
    BY <1>5, <2>1, ReturnLike
  <2> QED
    BY <2>1, <2>2 DEF x
<1> HIDE DEF f, g, skips, bad
<1>7. Like(p.fault, st, f, b, g)
  BY <1>5, <1>6, LikeOn
<1>8. Both(p, st, st, b, b) /\ Both(p, st, Error(st), b, Error(b)) /\ Both(p, st, f, b, g)
  BY <1>6, <1>7, LikeSame, ErrorLike, OperationsType DEF Both
<1> QED
  BY <1>1, <1>2, <1>8

LEMMA RunListedLike ==
  ASSUME NEW wf \in Names, NEW trigger, NEW exec \in {Transactional, OutboxMode}, NEW p \in Contexts,
         NEW st \in Runs, NEW b \in Runs
  PROVE  Both(p, st, RunListed(wf, trigger, exec, p, st), b, RunListed(wf, trigger, exec, p, b))
<1>1. CASE Twins(st, b)
  BY <1>1, RunListedSame DEF Twins, Good
<1>2. CASE ~Twins(st, b)
  <2>1. /\ Both(p, st, RunListed(wf, trigger, exec, p, st), st, RunListed(wf, trigger, exec, p, st))
        /\ Both(p, b, RunListed(wf, trigger, exec, p, b), b, RunListed(wf, trigger, exec, p, b))
    BY RunListedSame
  <2> QED
    BY <1>2, <2>1, LikeClean DEF Both
<1> QED
  BY <1>1, <1>2

LEMMA AfterIs ==
  ASSUME NEW trigger, NEW exec \in {Transactional, OutboxMode}, NEW p \in Contexts, NEW st \in Runs
  PROVE  \E f : IsAfter(f, Len(Listed), trigger, exec, p, st) /\ RunWorkflows(trigger, exec, p, st) = f[Len(Listed)]
<1> DEFINE n == Len(Listed)
           after == CHOOSE f : f = [i \in 0..n |-> IF i = 0 THEN [st EXCEPT !.count = 0]
                                                   ELSE RunListed(Listed[i], trigger, exec, p, f[i - 1])]
<1>1. n \in Nat
  BY WorkflowEngineAssumption
<1>2. RunWorkflows(trigger, exec, p, st) = after[n]
  BY DEF RunWorkflows
<1>3. n = Len(Listed)
  OBVIOUS
<1> HIDE DEF n
<1>4. after = [i \in 0..n |-> IF i = 0 THEN [st EXCEPT !.count = 0] ELSE RunListed(Listed[i], trigger, exec, p, after[i - 1])]
  <2>1. PICK f : IsAfter(f, n, trigger, exec, p, st)
    BY <1>1, <1>3, AfterExists
  <2>2. f = [i \in 0..n |-> IF i = 0 THEN [st EXCEPT !.count = 0] ELSE RunListed(Listed[i], trigger, exec, p, f[i - 1])]
    BY <2>1 DEF IsAfter
  <2> QED
    BY <2>2, Zenon
<1> HIDE DEF after
<1>5. IsAfter(after, n, trigger, exec, p, st)
  BY <1>4 DEF IsAfter
<1> QED
  BY <1>2, <1>3, <1>5

LEMMA RunWorkflowsLike ==
  ASSUME NEW trigger, NEW exec \in {Transactional, OutboxMode}, NEW p \in Contexts, NEW st \in Runs, NEW b \in Runs
  PROVE  Both(p, st, RunWorkflows(trigger, exec, p, st), b, RunWorkflows(trigger, exec, p, b))
<1> DEFINE n == Len(Listed)
<1>1. n \in Nat /\ \A i \in 1..n : Listed[i] \in Names
  BY WorkflowEngineAssumption
<1>2. PICK f : IsAfter(f, n, trigger, exec, p, st) /\ RunWorkflows(trigger, exec, p, st) = f[n]
  BY AfterIs
<1>3. PICK g : IsAfter(g, n, trigger, exec, p, b) /\ RunWorkflows(trigger, exec, p, b) = g[n]
  BY AfterIs
<1> HIDE DEF n
<1>4. f = [i \in 0..n |-> IF i = 0 THEN [st EXCEPT !.count = 0] ELSE RunListed(Listed[i], trigger, exec, p, f[i - 1])]
  BY <1>2 DEF IsAfter
<1>5. g = [i \in 0..n |-> IF i = 0 THEN [b EXCEPT !.count = 0] ELSE RunListed(Listed[i], trigger, exec, p, g[i - 1])]
  BY <1>3 DEF IsAfter
<1> DEFINE T == {i \in Nat : i <= n => Both(p, st, f[i], b, g[i])}
<1>6. 0 \in T
  <2>1. f[0] = [st EXCEPT !.count = 0]
    BY <1>1, <1>4
  <2>2. g[0] = [b EXCEPT !.count = 0]
    BY <1>1, <1>5
  <2>3. 0 \in -1..MaxEvents
    BY WorkflowEngineAssumption
  <2>4. /\ f[0] \in Runs /\ f[0].fx = st.fx /\ f[0].ret = st.ret /\ f[0].end = st.end /\ f[0].passed = st.passed
        /\ f[0].ops = st.ops /\ f[0].count = 0
    BY <2>1, <2>3 DEF Runs
  <2>5. g[0] \in Runs /\ g[0].fx = b.fx /\ g[0].ret = b.ret /\ g[0].end = b.end /\ g[0].passed = b.passed /\ g[0].count = 0
    BY <2>2, <2>3 DEF Runs
  <2>6. Both(p, st, f[0], b, g[0])
    BY <2>4, <2>5 DEF Both, Like, Clean, Good, Unstruck, Twins
  <2> QED
    BY <2>6
<1>7. ASSUME NEW i \in Nat, i \in T PROVE i + 1 \in T
  <2> SUFFICES ASSUME i + 1 <= n PROVE Both(p, st, f[i + 1], b, g[i + 1])
    OBVIOUS
  <2>1. Both(p, st, f[i], b, g[i])
    BY <1>1, <1>7
  <2> DEFINE j == i + 1
  <2>0. j \in 0..n /\ j # 0 /\ j - 1 = i
    BY <1>1
  <2> HIDE DEF j
  <2>a. f[j] = RunListed(Listed[j], trigger, exec, p, f[i])
    BY <2>0, <1>4
  <2>b. g[j] = RunListed(Listed[j], trigger, exec, p, g[i])
    BY <2>0, <1>5
  <2>2. f[i + 1] = RunListed(Listed[i + 1], trigger, exec, p, f[i])
    BY <2>a DEF j
  <2>3. g[i + 1] = RunListed(Listed[i + 1], trigger, exec, p, g[i])
    BY <2>b DEF j
  <2>4. Listed[i + 1] \in Names
    BY <1>1
  <2>5. Both(p, f[i], f[i + 1], g[i], g[i + 1])
    <3>1. f[i] \in Runs /\ g[i] \in Runs
      BY <2>1 DEF Both
    <3> QED
      BY <2>2, <2>3, <2>4, <3>1, RunListedLike
  <2> QED
    BY <2>1, <2>5, BothOn
<1> HIDE DEF T
<1>8. T = Nat
  BY <1>6, <1>7, HandedOn DEF T
<1>9. Both(p, st, f[n], b, g[n])
  BY <1>1, <1>8 DEF T
<1> QED
  BY <1>2, <1>3, <1>9 DEF n

LEMMA SavedLike ==
  ASSUME NEW p \in Contexts, NEW st \in Runs, NEW b \in Runs
  PROVE  Both(p, st, Saved(p, st), b, Saved(p, b))
<1> DEFINE f == CreateRecord(p, st)
           g == CreateRecord(p, b)
<1>1. f \in Runs /\ g \in Runs
  <2>1. Effect("create", p) \in Effects
    BY EffectType
  <2> QED
    BY <2>1, OperationFits DEF CreateRecord, Fits
<1>2. Like(p.fault, st, f, b, g)
  BY OperationLike DEF CreateRecord
<1>3. Saved(p, st) = (IF st.end # "ok" THEN st ELSE f) /\ Saved(p, b) = (IF b.end # "ok" THEN b ELSE g)
  BY DEF Saved
<1> HIDE DEF f, g
<1>4. CASE st.end # "ok"
  <2>1. ~Good(st)
    BY <1>4 DEF Good
  <2> QED
    BY <1>1, <1>3, <1>4, <2>1, LikeBad DEF Both
<1>5. CASE st.end = "ok" /\ b.end = "ok"
  BY <1>1, <1>2, <1>3, <1>5 DEF Both
<1>6. CASE st.end = "ok" /\ b.end # "ok"
  <2>1. ~Twins(st, b)
    BY <1>6 DEF Twins, Good
  <2> QED
    BY <1>1, <1>2, <1>3, <1>6, <2>1, LikeClean DEF Both
<1> QED
  BY <1>4, <1>5, <1>6

LEMMA RunWriteLike ==
  ASSUME NEW p \in Contexts, NEW st \in Runs, NEW b \in Runs
  PROVE  Both(p, st, RunWrite(p, st), b, RunWrite(p, b))
<1> DEFINE before(x) == RunWorkflows("before_create", Transactional, p, x)
           after(x) == RunWorkflows("after_create", Transactional, p, x)
           queued(x) == RunWorkflows("after_create", OutboxMode, p, x)
<1>1. Both(p, st, before(st), b, before(b))
  BY RunWorkflowsLike
<1>2. Both(p, before(st), Saved(p, before(st)), before(b), Saved(p, before(b)))
  BY <1>1, SavedLike DEF Both
<1> DEFINE s == Saved(p, before(st))
           t == Saved(p, before(b))
<1>3. Both(p, st, s, b, t)
  BY <1>1, <1>2, BothOn
<1>4. RunWrite(p, st) = queued(after(s)) /\ RunWrite(p, b) = queued(after(t))
  BY DEF RunWrite
<1> HIDE DEF s, t
<1>5. Both(p, s, after(s), t, after(t))
  BY <1>3, RunWorkflowsLike DEF Both
<1>6. Both(p, st, after(s), b, after(t))
  BY <1>3, <1>5, BothOn
<1> DEFINE u == after(s)
           v == after(t)
<1>7. Both(p, st, u, b, v) /\ queued(after(s)) = queued(u) /\ queued(after(t)) = queued(v)
  BY <1>6
<1> HIDE DEF u, v
<1>8. Both(p, u, queued(u), v, queued(v))
  BY <1>7, RunWorkflowsLike DEF Both
<1> QED
  BY <1>4, <1>7, <1>8, BothOn

(* What a run that is done, has passed over no error and had not returned     *)
(* before leaves is what the job needs.                                      *)
LEMMA StartsAlike ==
  ASSUME NEW left \in Left, ~left.ret, NEW fault \in Faults
  PROVE  /\ Start(left) \in Runs /\ Start(Fresh) \in Runs /\ Fresh \in Left
         /\ Twins(Start(left), Start(Fresh)) /\ Unstruck(fault, Start(left))
<1>1. Fresh \in Left
  BY LeftTypes
<1>2. Start(left) \in Runs /\ Start(Fresh) \in Runs
  BY <1>1, StartType
<1>3. left.count \in Int /\ -1 <= left.count /\ left.ret = FALSE
  BY WorkflowEngineAssumption DEF Left
<1>4. Twins(Start(left), Start(Fresh))
  BY <1>3 DEF Twins, Good, Start, Fresh
<1>5. Unstruck(fault, Start(left))
  <2>1. Start(left).ops = 0 /\ fault.at \in Nat
    BY WorkflowEngineAssumption DEF Start, Faults
  <2> QED
    BY <2>1 DEF Unstruck
<1> QED
  BY <1>1, <1>2, <1>4, <1>5

LEMMA NoFaultStruck ==
  ASSUME NEW fault \in Faults, NEW st \in Runs, NEW txn, Strikes(fault, st, txn), fault.kind # "transient", Unstruck(fault, st)
  PROVE  fault = NoFault
<1>1. CASE fault \in [at: 1..MaxOps, kind: {"error", "stop", "transient"}]
  <2>1. fault.kind \in {"error", "stop"} /\ fault.at \in Nat /\ 1 <= fault.at
    BY <1>1, WorkflowEngineAssumption
  <2>2. fault.at <= st.ops
    BY <2>1 DEF Strikes
  <2> QED
    BY <2>1, <2>2 DEF Unstruck
<1>2. CASE fault \in [at: 0..0, kind: {"none"}]
  BY <1>2 DEF NoFault
<1> QED
  BY <1>1, <1>2 DEF Faults

LEMMA FinishedRequest ==
  ASSUME NEW r \in Executions, NEW fault \in Faults, NEW left \in Left, request[r].wf \in Wanted, NEW txn,
         NEW st, st = RunRequest(r, fault, left), Good(st), Strikes(fault, st, txn), fault.kind # "transient", ~left.ret
  PROVE  st.fx = RunRequest(r, NoFault, Fresh).fx
<1> DEFINE wf == request[r].wf
           p == RequestContext(r, wf, fault)
           run(x) == IF wf = Triggered THEN RunWrite(p, x) ELSE RunDefinition(wf, p, x, Evaluate)
           a == Start(left)
           b == Start(Fresh)
<1>1. p \in Contexts /\ p.fault = fault
  <2>1. p \in Contexts
    BY RequestContextType
  <2>2. p.fault = fault
    BY DEF RequestContext, RunContext
  <2> QED
    BY <2>1, <2>2
<1>2. wf # Triggered => wf \in Names
  BY DEF Wanted
<1>3. RunRequest(r, fault, left) = run(a) /\ RunRequest(r, fault, Fresh) = run(b)
  BY DEF RunRequest, RequestContext
<1> HIDE DEF p, wf
<1>4. a \in Runs /\ b \in Runs /\ Twins(a, b) /\ Unstruck(fault, a)
  BY StartsAlike
<1> HIDE DEF a, b
<1>5. Both(p, a, run(a), b, run(b))
  <2>1. CASE wf = Triggered
    BY <1>1, <1>4, <2>1, RunWriteLike
  <2>2. CASE wf # Triggered
    BY <1>1, <1>2, <1>4, <2>2, EvaluateAlike, RunDefinitionLike DEF Both
  <2> QED
    BY <2>1, <2>2
<1> HIDE DEF run
<1>6. st = run(a) /\ st \in Runs /\ Like(fault, a, st, b, run(b))
  BY <1>1, <1>3, <1>5 DEF Both
<1>7. Unstruck(fault, st)
  BY <1>4, <1>6 DEF Like, Clean
<1>8. fault = NoFault
  BY <1>6, <1>7, NoFaultStruck
<1>9. Twins(st, run(b))
  BY <1>4, <1>6, <1>8 DEF Like
<1> QED
  BY <1>3, <1>8, <1>9 DEF Twins

LEMMA FinishedReplay ==
  ASSUME NEW e \in Events, NEW fault \in Faults, NEW left \in Left, NEW txn,
         NEW st, st = RunReplay(e, fault, left), Good(st), Strikes(fault, st, txn), fault.kind # "transient", ~left.ret
  PROVE  st.fx = RunReplay(e, NoFault, Fresh).fx
<1> DEFINE p == ReplayContext(e, fault)
           run(x) == ProcessStep(e.step, p, x, Evaluate)
           a == Start(left)
           b == Start(Fresh)
<1>1. p \in Contexts /\ p.fault = fault
  <2>1. p \in Contexts
    BY ReplayContextType
  <2>2. p.fault = fault
    BY DEF ReplayContext, RunContext
  <2> QED
    BY <2>1, <2>2
<1>2. e.step \in Steps /\ e.step.active
  BY DEF Events
<1>3. RunReplay(e, fault, left) = run(a) /\ RunReplay(e, fault, Fresh) = run(b)
  BY DEF RunReplay, ReplayContext
<1> HIDE DEF p
<1>4. a \in Runs /\ b \in Runs /\ Twins(a, b) /\ Unstruck(fault, a)
  BY StartsAlike
<1> HIDE DEF a, b
<1>5. Like(fault, a, run(a), b, run(b))
  BY <1>1, <1>2, <1>4, EvaluateAlike, ProcessStepLike
<1>6. run(a) \in Runs
  BY <1>1, <1>2, <1>4, EvaluateAlike, StepTypes DEF Alike
<1> HIDE DEF run
<1>7. Unstruck(fault, st)
  BY <1>3, <1>4, <1>5 DEF Like, Clean
<1>8. fault = NoFault
  BY <1>3, <1>6, <1>7, NoFaultStruck
<1>9. Twins(st, run(b))
  BY <1>3, <1>4, <1>5, <1>8 DEF Like
<1> QED
  BY <1>3, <1>8, <1>9 DEF Twins

-----------------------------------------------------------------------------
LEMMA NoFrameIs == NoFrame.kind = "none" /\ NoFrame.steps = <<>> /\ NoFrame.key = <<>>
BY DEF NoFrame, Frame

LEMMA NotEmpty ==
  ASSUME NEW path \in Paths, FrameAt(path).kind = "top" \/ FrameAt(path).key # <<>>
  PROVE  path # <<>>
<1>1. FrameAt(<<>>) = NoFrame
  BY FrameAtIs
<1> QED
  BY <1>1, NoFrameIs

(* A key tells the path: what is added to a key for an item of the path says  *)
(* which item it is, and what is added when a step is captured is never the  *)
(* key of another path.                                                      *)
PartOf(item, part) ==
  /\ part \in KeyParts /\ part[1] = item[1] /\ item[1] \in {"step", "loop", "branch"}
  /\ item[1] = "step" => part[2] = item[3] /\ part[3] = item[2]
  /\ item[1] # "step" => part[2] = item[2]

LEMMA PartsTell ==
  ASSUME NEW item \in Places, NEW other \in Places, NEW part, PartOf(item, part), PartOf(other, part)
  PROVE  item = other
<1>1. CASE part[1] = "step"
  <2>1. item \in {"step"} \X Scopes \X Nat /\ other \in {"step"} \X Scopes \X Nat
    BY <1>1 DEF PartOf, Places
  <2> QED
    BY <1>1, <2>1 DEF PartOf
<1>2. CASE part[1] # "step"
  <2>1. item \in {"loop", "branch"} \X Nat /\ other \in {"loop", "branch"} \X Nat
    BY <1>2 DEF PartOf, Places
  <2>2. item[1] = other[1] /\ item[2] = other[2]
    BY <1>2 DEF PartOf
  <2> QED
    BY <2>1, <2>2
<1> QED
  BY <1>1, <1>2

UnderRoot(path, item) == FrameAt(path).kind = "top" /\ item[1] = "step" /\ IsRoot(item[2])

(* The key a path adds to.                                                   *)
Base(path, item) == IF UnderRoot(path, item) THEN << <<"root", path[1][2]>> >> ELSE FrameAt(path).key

Stem(path, item, key) ==
  Base(path, item) # <<>> /\ \E part \in KeyParts : PartOf(item, part) /\ key = Append(Base(path, item), part)

LEMMA TopIs ==
  ASSUME NEW path \in Paths, FrameAt(path).kind = "top"
  PROVE  \E r \in Executions : path = << <<"request", r>> >>
<1>1. path # <<>>
  BY NotEmpty
<1>2. PICK q \in Paths, item \in Places : path = Append(q, item)
  BY <1>1, SequenceEmptyOrAppend DEF Paths
<1> DEFINE f == NextFrame(FrameAt(q), item, path)
<1>3. FrameAt(path) = Framed(f)
  BY <1>2, FrameAtIs
<1>a. f = NextFrame(FrameAt(q), item, path)
  OBVIOUS
<1> HIDE DEF f
<1>4. FrameAt(path) = f /\ f.kind = "top"
  BY <1>3, NoFrameIs DEF Framed
<1>5. item[1] = "request" /\ Len(path) = 1
  <2>1. ASSUME item[1] = "request", Len(path) # 1 PROVE FALSE
    BY <1>a, <1>4, <2>1, NoFrameIs DEF NextFrame
  <2>2. ASSUME item[1] = "step" PROVE FALSE
    BY <1>a, <1>4, <2>2, FrameFields DEF NextFrame, StepFrame
  <2>3. ASSUME item[1] \notin {"request", "step"} PROVE FALSE
    <3>1. f = Frame("list", (FrameAt(q).steps)[1].steps, FrameAt(q).mode, LoopKey(FrameAt(q).key, item[2]))
            \/ f = Frame("list", Branches((FrameAt(q).steps)[1])[item[2] + 1].steps, FrameAt(q).mode, BranchKey(FrameAt(q).key, item[2]))
      BY <1>a, <2>3 DEF NextFrame
    <3>2. f.kind = "list"
      BY <3>1, FrameFields
    <3> QED
      BY <1>4, <3>2
  <2> QED
    BY <2>1, <2>2, <2>3
<1>6. q = <<>>
  <2>1. q \in Seq(Places) /\ Len(path) = Len(q) + 1
    BY <1>2, BeforeFinal DEF Paths
  <2>a. Len(q) \in Nat
    BY DEF Paths
  <2>2. Len(q) = 0
    BY <1>5, <2>1, <2>a
  <2> QED
    BY <2>1, <2>2
<1>7. PICK r \in Executions : item = <<"request", r>>
  BY <1>5 DEF Places
<1> QED
  BY <1>2, <1>6, <1>7

LEMMA BaseType ==
  ASSUME NEW path \in Paths, NEW item \in Places
  PROVE  /\ Base(path, item) \in Keys
         /\ UnderRoot(path, item) => \E r \in Executions : path = << <<"request", r>> >> /\ Base(path, item) = << <<"root", r>> >>
         /\ ~UnderRoot(path, item) => Base(path, item) = FrameAt(path).key
         /\ FrameAt(path).key \in Keys
<1>1. FrameAt(path).key \in Keys
  <2>1. FrameAt(path) \in Frames
    BY FrameAtIs
  <2> QED
    BY <2>1 DEF Frames
<1>2. CASE UnderRoot(path, item)
  <2>1. PICK r \in Executions : path = << <<"request", r>> >>
    BY <1>2, TopIs DEF UnderRoot
  <2>2. path[1][2] = r
    BY <2>1
  <2>3. Base(path, item) = << <<"root", r>> >>
    BY <1>2, <2>2 DEF Base
  <2>4. << <<"root", r>> >> \in Keys
    <3>1. <<"root", r>> \in KeyParts
      BY DEF KeyParts
    <3> QED
      BY <3>1 DEF Keys
  <2> QED
    BY <1>1, <1>2, <2>1, <2>3, <2>4
<1>3. CASE ~UnderRoot(path, item)
  BY <1>1, <1>3 DEF Base
<1> QED
  BY <1>2, <1>3

LEMMA StemAdds ==
  ASSUME NEW path \in Paths, NEW item \in Places, NEW key, Stem(path, item, key)
  PROVE  /\ key \in Keys /\ Len(key) = Len(Base(path, item)) + 1 /\ Len(key) \in Nat /\ Len(key) >= 2
         /\ Base(path, item) \in Keys /\ Base(path, item) # <<>>
<1> DEFINE base == Base(path, item)
<1>1. base \in Seq(KeyParts) /\ base # <<>>
  BY BaseType DEF Stem, Keys
<1>2. PICK part \in KeyParts : key = Append(base, part)
  BY DEF Stem
<1> HIDE DEF base
<1>3. key \in Seq(KeyParts) /\ Len(key) = Len(base) + 1
  BY <1>1, <1>2, AppendProperties
<1>4. Len(base) \in Nat /\ Len(base) # 0
  BY <1>1
<1> QED
  BY <1>1, <1>3, <1>4 DEF base, Keys

(* The key of a path is its stem, or the stem captured, or that of an event   *)
(* named after the path.                                                     *)
LEMMA KeyCases ==
  ASSUME NEW path \in Paths, NEW item \in Places, NEW key, key = FrameAt(Append(path, item)).key, key # <<>>
  PROVE  \/ ~Captures(path, item) /\ Stem(path, item, key)
         \/ Captures(path, item) /\ \E stem \in Keys, last \in KeyParts : Stem(path, item, stem) /\ key = Append(stem, last)
         \/ Captures(path, item) /\ key = << <<"event", Append(path, item)>> >>
<1> DEFINE longer == Append(path, item)
           f == FrameAt(path)
           next == NextFrame(f, item, longer)
           base == Base(path, item)
<1>1. FrameAt(longer) = Framed(next)
  BY FrameAtIs
<1>2. FrameAt(longer) = next /\ next \in Frames /\ next.key = key
  BY <1>1, NoFrameIs DEF Framed
<1>3. f \in Frames /\ f.key \in Keys
  BY FrameAtIs DEF Frames
<1>4. CASE item[1] = "request"
  <2>1. next.key = <<>>
    <3>1. next = Frame("top", <<>>, "", <<>>) \/ next = NoFrame
      BY <1>4 DEF NextFrame
    <3> DEFINE top == Frame("top", <<>>, "", <<>>)
    <3>2. top.key = <<>>
      BY DEF Frame
    <3> HIDE DEF next, top
    <3>3. next = top \/ next = NoFrame
      BY <3>1 DEF top
    <3> QED
      BY <3>2, <3>3, NoFrameIs
  <2> QED
    BY <1>2, <2>1
<1>5. CASE item[1] = "step"
  <2> DEFINE wf == item[2]
             i == item[3]
             s == StepsFrom(f, wf)[i + 1]
             mode == ModeFrom(f, wf)
             part == <<"step", i, wf, s.id>>
             stem == ScopedKey(base, wf, s, i)
  <2>1. item = <<"step", wf, i>> /\ wf \in Scopes /\ i \in Nat
    BY <1>5 DEF Places
  <2>2. KeyFrom(f, wf, longer) = base
    <3>1. CASE UnderRoot(path, item)
      <4>1. path # <<>> /\ path \in Seq(Places)
        BY <3>1, TopIs DEF UnderRoot, Paths
      <4>2. longer[1] = path[1]
        BY <4>1, AppendProperties
      <4> QED
        BY <3>1, <4>2 DEF KeyFrom, Base, UnderRoot
    <3>2. CASE ~UnderRoot(path, item)
      BY <1>5, <3>2 DEF KeyFrom, Base, UnderRoot
    <3> QED
      BY <3>1, <3>2
  <2>3. next = StepFrame(f, wf, i, longer)
    BY <1>5 DEF NextFrame
  <2>4. next = IF ModeOf(s, mode) = OutboxMode
               THEN Frame("step", <<s>>, Captured, IF stem = <<>> THEN << <<"event", longer>> >> ELSE ScopedKey(stem, wf, s, 0))
               ELSE Frame("step", <<s>>, mode, stem)
    BY <2>2, <2>3 DEF StepFrame
  <2>5. Captures(path, item) <=> ModeOf(s, mode) = OutboxMode
    BY <1>5 DEF Captures
  <2>6. base \in Keys
    BY BaseType
  <2>7. next.steps = <<s>> /\ next.steps \in Seq(Steps)
    <3>1. next.steps = <<s>>
      BY <2>4, FrameFields
    <3> QED
      BY <1>2, <3>1 DEF Frames
  <2>8. s \in Steps
    <3>1. <<s>> \in Seq(Steps)
      BY <2>7
    <3> HIDE DEF s
    <3> QED
      BY <3>1
  <2>9. part \in KeyParts /\ <<"step", 0, wf, s.id>> \in KeyParts
    BY <2>1, <2>8, StepShapes DEF KeyParts
  <2>10. PartOf(item, part)
    BY <2>1, <2>9 DEF PartOf
  <2> HIDE DEF part
  <2>11. stem = IF base = <<>> THEN <<>> ELSE Append(base, part)
    BY DEF ScopedKey, part
  <2>12. base # <<>> => Stem(path, item, stem) /\ stem \in Keys /\ stem # <<>>
    <3>1. base # <<>> => Stem(path, item, stem)
      BY <2>9, <2>10, <2>11 DEF Stem
    <3> HIDE DEF base, stem
    <3>2. Stem(path, item, stem) => stem \in Keys /\ stem # <<>>
      BY StemAdds DEF Keys
    <3> QED
      BY <3>1, <3>2
  <2>13. CASE ~Captures(path, item)
    <3>1. key = stem
      BY <1>2, <2>4, <2>5, <2>13, FrameFields
    <3> QED
      BY <2>11, <2>12, <2>13, <3>1
  <2>14. CASE Captures(path, item) /\ base = <<>>
    <3>1. key = << <<"event", longer>> >>
      BY <1>2, <2>4, <2>5, <2>11, <2>14, FrameFields
    <3> QED
      BY <2>14, <3>1
  <2>15. CASE Captures(path, item) /\ base # <<>>
    <3>1. key = ScopedKey(stem, wf, s, 0)
      BY <1>2, <2>4, <2>5, <2>12, <2>15, FrameFields
    <3>2. key = Append(stem, <<"step", 0, wf, s.id>>)
      BY <2>12, <2>15, <3>1 DEF ScopedKey
    <3> QED
      BY <2>9, <2>12, <2>15, <3>2
  <2> QED
    BY <2>13, <2>14, <2>15
<1>6. CASE item[1] \in {"loop", "branch"}
  <2> DEFINE part == IF item[1] = "loop" THEN <<"loop", item[2]>> ELSE <<"branch", item[2], "name">>
  <2>1. item[2] \in Nat
    BY <1>6 DEF Places
  <2>2. part \in KeyParts
    BY <2>1 DEF KeyParts
  <2>3. PartOf(item, part)
    BY <1>6, <2>2 DEF PartOf
  <2>4. base = f.key
    BY <1>6 DEF Base, UnderRoot
  <2>5. next.key = IF f.key = <<>> THEN <<>> ELSE Append(f.key, part)
    <3>1. CASE item[1] = "loop"
      BY <3>1, FrameFields DEF NextFrame, LoopKey
    <3>2. CASE item[1] = "branch"
      BY <3>2, FrameFields DEF NextFrame, BranchKey
    <3> QED
      BY <1>6, <3>1, <3>2
  <2> HIDE DEF part
  <2>6. Stem(path, item, key)
    BY <1>2, <2>2, <2>3, <2>4, <2>5 DEF Stem
  <2>7. ~Captures(path, item)
    BY <1>6 DEF Captures
  <2> QED
    BY <2>6, <2>7
<1> QED
  BY <1>4, <1>5, <1>6 DEF Places

(* Of a key of n parts: two paths do not share it as what they add to, nor as *)
(* their key, and none has as its key what a captured step has added to.     *)
StemsTell(n) ==
  \A p, q \in Paths, i, j \in Places, key \in Keys :
    Len(key) = n /\ Stem(p, i, key) /\ Stem(q, j, key) => p = q /\ i = j
KeysTell(n) ==
  \A p, q \in Paths : FrameAt(p).key = FrameAt(q).key /\ FrameAt(p).key # <<>> /\ Len(FrameAt(p).key) = n => p = q
CapturesTell(n) ==
  \A p, q \in Paths, i \in Places, key \in Keys :
    Len(key) = n /\ Stem(p, i, key) /\ Captures(p, i) => FrameAt(q).key # key

LEMMA SameAppend ==
  ASSUME NEW a \in Keys, NEW b \in Keys, NEW x \in KeyParts, NEW y \in KeyParts, Append(a, x) = Append(b, y)
  PROVE  a = b /\ x = y
<1>1. a \in Seq(KeyParts) /\ b \in Seq(KeyParts)
  BY DEF Keys
<1> QED
  BY <1>1, AppendInjective

LEMMA NotOne == \A l \in Nat : (l >= 2 => l # 1) /\ (l >= 3 => l # 1)
OBVIOUS

LEMMA KeyedPath ==
  ASSUME NEW path \in Paths, FrameAt(path).key # <<>>
  PROVE  \E q \in Paths, item \in Places : path = Append(q, item)
<1>1. path # <<>>
  BY NotEmpty
<1> QED
  BY <1>1, SequenceEmptyOrAppend DEF Paths

LEMMA KeyParted ==
  ASSUME NEW path \in Paths, NEW item \in Places, NEW stem \in Keys, Stem(path, item, stem), NEW last \in KeyParts
  PROVE  Append(stem, last) \in Keys /\ Len(Append(stem, last)) = Len(stem) + 1 /\ Len(Append(stem, last)) >= 3
<1>1. Append(stem, last) \in Keys /\ Len(Append(stem, last)) = Len(stem) + 1
  BY AppendProperties DEF Keys
<1>2. Len(stem) \in Nat /\ Len(stem) >= 2
  BY StemAdds
<1> QED
  BY <1>1, <1>2

LEMMA NoRootKey ==
  ASSUME NEW path \in Paths, NEW r \in Executions
  PROVE  FrameAt(path).key # << <<"root", r>> >>
<1> DEFINE key == << <<"root", r>> >>
<1> SUFFICES ASSUME FrameAt(path).key = key PROVE FALSE
  OBVIOUS
<1>1. key # <<>> /\ Len(key) = 1 /\ key[1][1] = "root"
  OBVIOUS
<1>2. PICK q \in Paths, item \in Places : path = Append(q, item)
  BY <1>1, KeyedPath
<1> HIDE DEF key
<1>3. CASE Stem(q, item, key)
  <2>1. Len(key) \in Nat /\ Len(key) >= 2
    BY <1>3, StemAdds
  <2> QED
    BY <1>1, <2>1
<1>4. CASE \E stem \in Keys, last \in KeyParts : Stem(q, item, stem) /\ key = Append(stem, last)
  <2>1. PICK stem \in Keys, last \in KeyParts : Stem(q, item, stem) /\ key = Append(stem, last)
    BY <1>4
  <2>2. Len(key) >= 3
    BY <2>1, KeyParted
  <2> QED
    BY <1>1, <2>2
<1>5. CASE key = << <<"event", path>> >>
  <2>1. key[1][1] = "event"
    BY <1>5
  <2> QED
    BY <1>1, <2>1
<1> QED
  BY <1>1, <1>2, <1>3, <1>4, <1>5, KeyCases

LEMMA BaseNotCaptured ==
  ASSUME NEW n \in Nat, CapturesTell(n), NEW p \in Paths, NEW i \in Places, NEW q \in Paths, NEW j \in Places,
         NEW key \in Keys, Len(key) = n, Stem(q, j, key), Captures(q, j)
  PROVE  Base(p, i) # key
<1>1. CASE UnderRoot(p, i)
  <2>1. PICK r \in Executions : Base(p, i) = << <<"root", r>> >>
    BY <1>1, BaseType
  <2> DEFINE root == << <<"root", r>> >>
  <2>2. Len(root) = 1
    OBVIOUS
  <2>3. Len(key) \in Nat /\ Len(key) >= 2
    BY StemAdds
  <2> HIDE DEF root
  <2>4. ASSUME root = key PROVE FALSE
    <3>1. Len(key) = 1
      BY <2>2, <2>4
    <3> QED
      BY <2>3, <3>1
  <2> QED
    BY <2>1, <2>4 DEF root
<1>2. CASE ~UnderRoot(p, i)
  BY <1>2, BaseType DEF CapturesTell
<1> QED
  BY <1>1, <1>2

LEMMA StemsFromKeys ==
  ASSUME NEW n \in Nat, KeysTell(n)
  PROVE  StemsTell(n + 1)
<1> SUFFICES ASSUME NEW p \in Paths, NEW q \in Paths, NEW i \in Places, NEW j \in Places, NEW key \in Keys,
                    Len(key) = n + 1, Stem(p, i, key), Stem(q, j, key)
             PROVE  p = q /\ i = j
  BY DEF StemsTell
<1> DEFINE a == Base(p, i)
           b == Base(q, j)
<1>1. a \in Keys /\ b \in Keys /\ a # <<>> /\ b # <<>> /\ Len(key) = Len(a) + 1
  BY StemAdds
<1>2. PICK part \in KeyParts : PartOf(i, part) /\ key = Append(a, part)
  BY DEF Stem
<1>3. PICK other \in KeyParts : PartOf(j, other) /\ key = Append(b, other)
  BY DEF Stem
<1>4. (UnderRoot(p, i) => \E r \in Executions : p = << <<"request", r>> >> /\ a = << <<"root", r>> >>)
        /\ (~UnderRoot(p, i) => a = FrameAt(p).key)
  BY BaseType
<1>5. (UnderRoot(q, j) => \E r \in Executions : q = << <<"request", r>> >> /\ b = << <<"root", r>> >>)
        /\ (~UnderRoot(q, j) => b = FrameAt(q).key)
  BY BaseType
<1> HIDE DEF a, b
<1>6. a = b /\ part = other
  <2>1. Append(a, part) = Append(b, other)
    BY <1>2, <1>3
  <2> QED
    BY <1>1, <2>1, SameAppend
<1>7. i = j
  BY <1>2, <1>3, <1>6, PartsTell
<1>8. Len(a) = n
  <2>1. Len(a) \in Nat
    BY <1>1 DEF Keys
  <2> QED
    BY <1>1, <2>1
<1>9. CASE UnderRoot(p, i) /\ UnderRoot(q, j)
  <2>1. PICK r \in Executions : p = << <<"request", r>> >> /\ a = << <<"root", r>> >>
    BY <1>4, <1>9
  <2>2. PICK s \in Executions : q = << <<"request", s>> >> /\ b = << <<"root", s>> >>
    BY <1>5, <1>9
  <2>3. a[1][2] = r /\ b[1][2] = s
    BY <2>1, <2>2
  <2> QED
    BY <1>6, <1>7, <2>1, <2>2, <2>3
<1>10. CASE UnderRoot(p, i) /\ ~UnderRoot(q, j)
  BY <1>4, <1>5, <1>6, <1>10, NoRootKey
<1>11. CASE ~UnderRoot(p, i) /\ UnderRoot(q, j)
  BY <1>4, <1>5, <1>6, <1>11, NoRootKey
<1>12. CASE ~UnderRoot(p, i) /\ ~UnderRoot(q, j)
  BY <1>1, <1>4, <1>5, <1>6, <1>7, <1>8, <1>12 DEF KeysTell
<1> QED
  BY <1>9, <1>10, <1>11, <1>12

LEMMA KeysFromStems ==
  ASSUME NEW n \in Nat, StemsTell(n), CapturesTell(n), StemsTell(n + 1)
  PROVE  KeysTell(n + 1)
<1> SUFFICES ASSUME NEW P \in Paths, NEW Q \in Paths, NEW key, key = FrameAt(P).key, key = FrameAt(Q).key, key # <<>>,
                    Len(key) = n + 1
             PROVE  P = Q
  BY DEF KeysTell
<1>1. PICK p \in Paths, i \in Places : P = Append(p, i)
  BY KeyedPath
<1>2. PICK q \in Paths, j \in Places : Q = Append(q, j)
  BY KeyedPath
<1> DEFINE event(path) == key = << <<"event", path>> >>
           last(path, item) == Captures(path, item) /\ \E stem \in Keys, x \in KeyParts : Stem(path, item, stem) /\ key = Append(stem, x)
<1>a. ASSUME NEW path \in Paths, NEW item \in Places, key = FrameAt(Append(path, item)).key
      PROVE  Stem(path, item, key) \/ last(path, item) \/ event(Append(path, item))
  BY <1>a, KeyCases
<1>7. \A path : event(path) => Len(key) = 1 /\ key[1][2] = path
  BY DEF event
<1> HIDE DEF event
<1>3. Stem(p, i, key) \/ last(p, i) \/ event(P)
  BY <1>1, <1>a
<1>4. Stem(q, j, key) \/ last(q, j) \/ event(Q)
  BY <1>2, <1>a
<1>5. \A path \in Paths, item \in Places : Stem(path, item, key) => key \in Keys /\ Len(key) \in Nat /\ Len(key) >= 2
  BY StemAdds
<1>6. ASSUME NEW path \in Paths, NEW item \in Places, last(path, item)
      PROVE  /\ Len(key) >= 3
             /\ \E stem \in Keys, x \in KeyParts : /\ Captures(path, item) /\ Stem(path, item, stem) /\ key = Append(stem, x)
                                                   /\ Len(stem) = n
  <2>1. PICK stem \in Keys, x \in KeyParts : Captures(path, item) /\ Stem(path, item, stem) /\ key = Append(stem, x)
    BY <1>6
  <2>2. Len(key) >= 3 /\ Len(key) = Len(stem) + 1 /\ Len(stem) \in Nat
    BY <2>1, KeyParted, StemAdds
  <2>3. Len(stem) = n
    BY <2>2
  <2> QED
    BY <2>1, <2>2, <2>3
<1> HIDE DEF last
<1>b. Len(key) = 1 => ~Stem(p, i, key) /\ ~Stem(q, j, key) /\ ~last(p, i) /\ ~last(q, j)
  <2>1. Len(key) = 1 => Len(key) \in Nat
    OBVIOUS
  <2> QED
    BY <1>5, <1>6, <2>1, NotOne
<1>8. CASE event(P)
  <2>1. Len(key) = 1
    BY <1>7, <1>8
  <2>2. event(Q)
    BY <1>4, <1>b, <2>1
  <2>3. key[1][2] = P /\ key[1][2] = Q
    BY <1>7, <1>8, <2>2
  <2> QED
    BY <2>3
<1>9. CASE event(Q)
  <2>1. Len(key) = 1
    BY <1>7, <1>9
  <2>2. event(P)
    BY <1>3, <1>b, <2>1
  <2>3. key[1][2] = P /\ key[1][2] = Q
    BY <1>7, <1>9, <2>2
  <2> QED
    BY <2>3
<1>10. ASSUME NEW a \in Paths, NEW k \in Places, NEW b \in Paths, NEW l \in Places, Stem(a, k, key), last(b, l) PROVE FALSE
  <2>1. PICK stem \in Keys, x \in KeyParts : Captures(b, l) /\ Stem(b, l, stem) /\ key = Append(stem, x) /\ Len(stem) = n
    BY <1>6, <1>10
  <2>2. PICK part \in KeyParts : key = Append(Base(a, k), part)
    BY <1>10 DEF Stem
  <2>3. Base(a, k) \in Keys
    BY BaseType
  <2>4. Base(a, k) = stem
    BY <2>1, <2>2, <2>3, SameAppend
  <2> QED
    BY <2>1, <2>4, BaseNotCaptured
<1>11. CASE Stem(p, i, key) /\ Stem(q, j, key)
  BY <1>1, <1>2, <1>5, <1>11 DEF StemsTell
<1>12. CASE last(p, i) /\ last(q, j)
  <2>1. PICK stem \in Keys, x \in KeyParts : Stem(p, i, stem) /\ key = Append(stem, x) /\ Len(stem) = n
    BY <1>6, <1>12
  <2>2. PICK root \in Keys, y \in KeyParts : Stem(q, j, root) /\ key = Append(root, y) /\ Len(root) = n
    BY <1>6, <1>12
  <2>3. stem = root
    BY <2>1, <2>2, SameAppend
  <2> QED
    BY <1>1, <1>2, <2>1, <2>2, <2>3 DEF StemsTell
<1> QED
  BY <1>3, <1>4, <1>8, <1>9, <1>10, <1>11, <1>12

LEMMA CapturesFromStems ==
  ASSUME NEW n \in Nat, CapturesTell(n), StemsTell(n + 1)
  PROVE  CapturesTell(n + 1)
<1> SUFFICES ASSUME NEW p \in Paths, NEW Q \in Paths, NEW i \in Places, NEW key \in Keys, Len(key) = n + 1, Stem(p, i, key),
                    Captures(p, i), FrameAt(Q).key = key
             PROVE  FALSE
  BY DEF CapturesTell
<1>1. Len(key) >= 2 /\ key # <<>>
  BY StemAdds
<1>2. PICK q \in Paths, j \in Places : Q = Append(q, j)
  BY <1>1, KeyedPath
<1>3. CASE Stem(q, j, key) /\ ~Captures(q, j)
  <2>1. p = q /\ i = j
    BY <1>3 DEF StemsTell
  <2> QED
    BY <1>3, <2>1
<1>4. CASE Captures(q, j) /\ \E stem \in Keys, last \in KeyParts : Stem(q, j, stem) /\ key = Append(stem, last)
  <2>1. PICK stem \in Keys, last \in KeyParts : Stem(q, j, stem) /\ key = Append(stem, last)
    BY <1>4
  <2>2. Len(key) = Len(stem) + 1 /\ Len(stem) \in Nat
    BY <2>1, KeyParted, StemAdds
  <2>3. PICK part \in KeyParts : key = Append(Base(p, i), part)
    BY DEF Stem
  <2>4. Base(p, i) \in Keys
    BY BaseType
  <2>5. Base(p, i) = stem
    BY <2>1, <2>3, <2>4, SameAppend
  <2>6. Len(stem) = n
    BY <2>2
  <2> QED
    BY <1>4, <2>1, <2>5, <2>6, BaseNotCaptured
<1>5. CASE key = << <<"event", Q>> >>
  <2> DEFINE event == << <<"event", Q>> >>
  <2>1. Len(event) = 1
    OBVIOUS
  <2> HIDE DEF event
  <2>2. Len(key) = 1
    BY <1>5, <2>1 DEF event
  <2>3. Len(key) \in Nat /\ Len(key) >= 2
    BY StemAdds
  <2> QED
    BY <2>2, <2>3, NotOne
<1> QED
  <2>1. key = FrameAt(Append(q, j)).key
    BY <1>2
  <2> QED
    BY <1>1, <1>2, <1>3, <1>4, <1>5, <2>1, KeyCases

LEMMA KeyTells ==
  ASSUME NEW p \in Paths, NEW q \in Paths, FrameAt(p).key = FrameAt(q).key, FrameAt(p).key # <<>>
  PROVE  p = q
<1> DEFINE S == {n \in Nat : StemsTell(n) /\ KeysTell(n) /\ CapturesTell(n)}
<1>1. 0 \in S
  <2>1. \A a \in Paths, i \in Places, key \in Keys : Stem(a, i, key) => Len(key) # 0
    BY StemAdds
  <2>2. \A a \in Paths : FrameAt(a).key # <<>> => Len(FrameAt(a).key) # 0
    <3> SUFFICES ASSUME NEW a \in Paths PROVE FrameAt(a).key # <<>> => Len(FrameAt(a).key) # 0
      OBVIOUS
    <3>1. FrameAt(a).key \in Seq(KeyParts)
      BY FrameAtIs DEF Frames, Keys
    <3> QED
      BY <3>1
  <2>3. StemsTell(0) /\ CapturesTell(0)
    BY <2>1 DEF StemsTell, CapturesTell
  <2>4. KeysTell(0)
    BY <2>2 DEF KeysTell
  <2> QED
    BY <2>3, <2>4
<1>2. ASSUME NEW n \in Nat, n \in S PROVE n + 1 \in S
  <2>1. StemsTell(n + 1)
    BY <1>2, StemsFromKeys
  <2>2. KeysTell(n + 1) /\ CapturesTell(n + 1)
    BY <1>2, <2>1, KeysFromStems, CapturesFromStems
  <2> QED
    BY <2>1, <2>2
<1> HIDE DEF S
<1>3. S = Nat
  BY <1>1, <1>2, HandedOn DEF S
<1>4. Len(FrameAt(p).key) \in S
  <2>1. FrameAt(p).key \in Seq(KeyParts)
    BY FrameAtIs DEF Frames, Keys
  <2> QED
    BY <1>3, <2>1
<1>5. KeysTell(Len(FrameAt(p).key))
  BY <1>4 DEF S
<1> QED
  BY <1>5 DEF KeysTell

-----------------------------------------------------------------------------
(* A run that is kept leaves every effect it has: what is not written because *)
(* its key is there, or comes earlier in the run, is there under its path.   *)
There(e, recs, ups, made, q) ==
  /\ e.op = "create" => \E x \in recs : e.path = x.path
  /\ e.op = "update" => e.path \in ups
  /\ e.op = "call"   => \E c \in made : e.path = c.path
  /\ e.op = "queue"  => \E k \in DOMAIN q : e.path = q[k].path

LEMMA AnewCovers ==
  ASSUME NEW fx \in Seq(Effects), NEW n \in DOMAIN fx, NEW there
  PROVE  \/ fx[n].key # <<>> /\ fx[n].key \in there
         \/ \E m \in Anew(fx[n].op, fx, there) : fx[m].key = fx[n].key /\ (fx[n].key = <<>> => m = n)
<1> DEFINE op == fx[n].op
           key == fx[n].key
           T == {m \in DOMAIN fx : fx[m].op = op /\ fx[m].key = key}
<1>1. T \subseteq Nat /\ n \in T /\ DOMAIN fx = 1..Len(fx) /\ Len(fx) \in Nat
  OBVIOUS
<1>2. CASE key = <<>>
  <2>1. n \in Anew(op, fx, there)
    BY <1>2 DEF Anew
  <2> QED
    BY <2>1
<1>3. CASE key # <<>> /\ key \notin there
  <2>1. PICK m \in T : \A k \in T : m <= k
    BY <1>1, LeastNumber
  <2>2. ASSUME NEW j \in 1..m-1, fx[j].op = op, fx[j].key = key PROVE FALSE
    <3>1. m \in 1..Len(fx) /\ j \in 1..Len(fx) /\ m \in Int /\ j \in Int /\ j < m
      BY <1>1
    <3>2. j \in T
      BY <1>1, <2>2, <3>1
    <3>3. m <= j
      BY <2>1, <3>2
    <3> QED
      BY <3>1, <3>3
  <2>3. m \in DOMAIN fx /\ fx[m].op = op /\ fx[m].key = key
    BY <2>1
  <2> HIDE DEF T, op, key
  <2>4. m \in Anew(op, fx, there)
    BY <1>3, <2>2, <2>3 DEF Anew
  <2> QED
    BY <1>3, <2>3, <2>4 DEF op, key
<1> QED
  BY <1>2, <1>3

LEMMA KeptWhole ==
  ASSUME NEW fx \in Seq(Effects), \A e \in Range(fx) : e \in Formed /\ Rightful(e), NEW by, NEW missed, Keep(fx, by, missed), NEW txn, Called(fx, txn),
         EngineTypes, AllKeyed', \A x \in records' : x.path \in Paths, NEW e \in Range(fx)
  PROVE  There(e, records', updates', calls', queue')
<1>1. PICK n \in DOMAIN fx : e = fx[n]
  BY DEF Range
<1>2. e \in Effects /\ e.path \in Paths /\ e.op \in {"create", "update", "call", "queue"}
  BY DEF Formed, Effects
<1>3. e.key = FrameAt(e.path).key
  BY DEF Rightful
<1>4. CASE e.op = "create"
  <2> DEFINE there == {x.key : x \in records} \ missed
             created == Anew("create", fx, there)
             row(i) == [path |-> fx[i].path, key |-> fx[i].key, by |-> by,
                        nth |-> Cardinality({y \in records : y.path = fx[i].path})]
  <2>1. records' = records \cup {row(i) : i \in created}
    BY DEF Keep
  <2>2. (e.key # <<>> /\ e.key \in there) \/ \E m \in created : fx[m].key = e.key /\ (e.key = <<>> => fx[m].path = e.path)
    BY <1>1, <1>4, AnewCovers
  <2>3. \A i : row(i).path = fx[i].path /\ row(i).key = fx[i].key
    OBVIOUS
  <2> HIDE DEF created, row
  <2>4. \E x \in records' : x.key = e.key /\ (e.key = <<>> => x.path = e.path)
    BY <2>1, <2>2, <2>3
  <2>5. PICK x \in records' : x.key = e.key /\ (e.key = <<>> => x.path = e.path)
    BY <2>4
  <2>6. x.key = FrameAt(x.path).key /\ x.path \in Paths
    BY DEF AllKeyed, Keyed
  <2>7. x.path = e.path
    BY <1>2, <1>3, <2>5, <2>6, KeyTells
  <2> QED
    BY <1>4, <2>7 DEF There
<1>5. CASE e.op = "update"
  <2>1. e.path \in updates'
    BY <1>1, <1>5 DEF Keep
  <2> QED
    BY <1>5, <2>1 DEF There
<1>6. CASE e.op = "call"
  <2> DEFINE made == {j \in DOMAIN fx : fx[j].op = "call"}
             call(i) == [path |-> fx[i].path, txn |-> txn]
  <2>1. calls' = calls \cup {call(i) : i \in made}
    BY DEF Called
  <2>2. n \in made /\ call(n).path = e.path
    BY <1>1, <1>6
  <2> HIDE DEF made, call
  <2>3. \E c \in calls' : c.path = e.path
    BY <2>1, <2>2
  <2> QED
    BY <1>6, <2>3 DEF There
<1>7. CASE e.op = "queue"
  <2> DEFINE queued == Anew("queue", fx, DOMAIN queue)
             added == {fx[i].key : i \in queued}
             event(k) == fx[CHOOSE i \in queued : fx[i].key = k].event
             k == e.key
  <2>1. queue' = [j \in DOMAIN queue \cup added |-> IF j \in DOMAIN queue THEN queue[j] ELSE event(j)]
    BY DEF Keep
  <2>2. k \in DOMAIN queue \/ k \in added
    BY <1>1, <1>7, AnewCovers
  <2> HIDE DEF added, event
  <2>3. k \in DOMAIN queue'
    BY <2>1, <2>2
  <2>4. Seated(queue'[k].path, queue'[k].step, Captured, k) /\ k # <<>>
    BY <2>3 DEF AllKeyed
  <2>5. FrameAt(queue'[k].path).key = k
    BY <2>4, FrameFields DEF Seated
  <2>6. queue'[k].path \in Paths
    <3>1. queue' \in [DOMAIN queue' -> Events]
      BY KeepQueues DEF EngineTypes
    <3> HIDE DEF k
    <3> QED
      BY <2>3, <3>1 DEF Events
  <2> HIDE DEF k
  <2>7. queue'[k].path = e.path
    BY <1>2, <1>3, <2>4, <2>5, <2>6, KeyTells DEF k
  <2> QED
    BY <1>7, <2>3, <2>7 DEF There
<1> QED
  BY <1>2, <1>4, <1>5, <1>6, <1>7

-----------------------------------------------------------------------------
(* What a job that is done needs does not change, and what is kept stays.    *)
RequestRun(r, wf, fault, left) ==
  LET p == RequestContext(r, wf, fault)
  IN IF wf = Triggered THEN RunWrite(p, Start(left)) ELSE RunDefinition(wf, p, Start(left), Evaluate)

NeededOf(job, req, q) ==
  Range((IF job[1] = "request" THEN RequestRun(job[2], req[job[2]].wf, NoFault, Fresh)
         ELSE RunReplay(q[job[2]], NoFault, Fresh)).fx)

WholeOf(job, req, recs, ups, made, q) == \A e \in NeededOf(job, req, q) : There(e, recs, ups, made, q)

IsJob(job, req, q) ==
  \/ \E r \in Executions : job = <<"request", r>> /\ req[r].phase = "ok"
  \/ \E k \in DOMAIN q : job = <<"event", k>>

AllFinished ==
  \A job \in DOMAIN finished :
    IsJob(job, request, queue) /\ (~finished[job].passed /\ ~finished[job].stale => Whole(job))

LEMMA WholeIs ==
  ASSUME NEW job
  PROVE  /\ Whole(job) <=> WholeOf(job, request, records, updates, calls, queue)
         /\ Whole(job)' <=> WholeOf(job, request', records', updates', calls', queue')
<1>1. Needed(job) = NeededOf(job, request, queue)
  BY DEF Needed, NeededOf, RunRequest, RequestRun, RequestContext
<1>2. Needed(job)' = NeededOf(job, request', queue')
  BY DEF Needed, NeededOf, RunRequest, RequestRun, RequestContext
<1>3. Whole(job) <=> WholeOf(job, request, records, updates, calls, queue)
  BY <1>1 DEF Whole, WholeOf, There
<1>4. Whole(job)' <=> WholeOf(job, request', records', updates', calls', queue')
  BY <1>2 DEF Whole, WholeOf, There
<1> QED
  BY <1>3, <1>4

Lasts ==
  /\ \A r \in Executions : request[r].phase = "ok" => request'[r].phase = "ok" /\ request'[r].wf = request[r].wf
  /\ records \subseteq records' /\ updates \subseteq updates' /\ calls \subseteq calls'
  /\ \A k \in DOMAIN queue : k \in DOMAIN queue' /\ SameEvent(queue[k], queue'[k])

LEMMA SameReplay ==
  ASSUME NEW e, NEW f, SameEvent(e, f), NEW fault, NEW left
  PROVE  RunReplay(f, fault, left) = RunReplay(e, fault, left)
BY DEF SameEvent, RunReplay

LEMMA ThereKept ==
  ASSUME Lasts, NEW e, There(e, records, updates, calls, queue)
  PROVE  There(e, records', updates', calls', queue')
<1>1. \A k \in DOMAIN queue : k \in DOMAIN queue' /\ queue'[k].path = queue[k].path
  BY DEF Lasts, SameEvent
<1>2. e.op = "create" => \E x \in records' : e.path = x.path
  BY DEF Lasts, There
<1>3. e.op = "update" => e.path \in updates'
  BY DEF Lasts, There
<1>4. e.op = "call" => \E c \in calls' : e.path = c.path
  BY DEF Lasts, There
<1>5. e.op = "queue" => \E k \in DOMAIN queue' : e.path = queue'[k].path
  BY <1>1 DEF There
<1> QED
  BY <1>2, <1>3, <1>4, <1>5 DEF There

LEMMA JobKept ==
  ASSUME Lasts, NEW job, IsJob(job, request, queue)
  PROVE  /\ IsJob(job, request', queue')
         /\ NeededOf(job, request', queue') = NeededOf(job, request, queue)
         /\ Whole(job) => Whole(job)'
<1>1. IsJob(job, request', queue')
  BY DEF Lasts, IsJob
<1>2. NeededOf(job, request', queue') = NeededOf(job, request, queue)
  <2>1. ASSUME NEW r \in Executions, job = <<"request", r>>, request[r].phase = "ok"
        PROVE  NeededOf(job, request', queue') = NeededOf(job, request, queue)
    <3>1. job[1] = "request" /\ job[2] = r /\ request'[r].wf = request[r].wf
      BY <2>1 DEF Lasts
    <3> QED
      BY <3>1 DEF NeededOf
  <2>2. ASSUME NEW k \in DOMAIN queue, job = <<"event", k>>
        PROVE  NeededOf(job, request', queue') = NeededOf(job, request, queue)
    <3>1. job[1] # "request" /\ job[2] = k /\ SameEvent(queue[k], queue'[k])
      BY <2>2 DEF Lasts
    <3> QED
      BY <3>1, SameReplay DEF NeededOf
  <2> QED
    BY <2>1, <2>2 DEF IsJob
<1>3. Whole(job) => Whole(job)'
  BY <1>2, ThereKept, WholeIs DEF WholeOf
<1> QED
  BY <1>1, <1>2, <1>3

LEMMA FinishedKept ==
  ASSUME AllFinished, Lasts, UNCHANGED finished
  PROVE  AllFinished'
<1> SUFFICES ASSUME NEW job \in DOMAIN finished
             PROVE  IsJob(job, request', queue') /\ (~finished[job].passed /\ ~finished[job].stale => Whole(job)')
  BY DEF AllFinished
<1> QED
  BY JobKept DEF AllFinished

LEMMA FinishedMore ==
  ASSUME AllFinished, Lasts, NEW job, NEW left, NEW st, Finish(job, left, st), IsJob(job, request', queue'),
         ~st.passed /\ ~left.ret => WholeOf(job, request', records', updates', calls', queue')
  PROVE  AllFinished'
<1>1. DOMAIN finished' = DOMAIN finished \cup {job}
  BY DEF Finish
<1>2. finished'[job].stale = left.ret /\ finished'[job].passed = st.passed
  BY DEF Finish
<1>3. \A j \in DOMAIN finished : j # job => finished'[j] = finished[j]
  BY DEF Finish
<1> SUFFICES ASSUME NEW j \in DOMAIN finished'
             PROVE  IsJob(j, request', queue') /\ (~finished'[j].passed /\ ~finished'[j].stale => Whole(j)')
  BY DEF AllFinished
<1>4. CASE j = job
  BY <1>2, <1>4, WholeIs
<1>5. CASE j # job
  BY <1>1, <1>3, <1>5, JobKept DEF AllFinished
<1> QED
  BY <1>4, <1>5

-----------------------------------------------------------------------------
(* The steps: those that run nothing, then the two that do.                  *)
LEMMA QueueGrows ==
  ASSUME UNCHANGED <<request, records, updates, calls>>, DOMAIN queue' = DOMAIN queue,
         \A k \in DOMAIN queue : SameEvent(queue[k], queue'[k])
  PROVE  Lasts
BY DEF Lasts

LEMMA QuietSteps ==
  ASSUME EngineInv, AllFinished,
         \/ UNCHANGED engineVars
         \/ \E r \in Executions, wf \in Wanted : Ask(r, wf)
         \/ \E w \in Processors, k \in DOMAIN queue : Claim(w, k)
         \/ \E w \in Processors : AcknowledgeReplay(w) \/ AbandonReplay(w)
         \/ \E k \in DOMAIN queue : Exhaust(k)
  PROVE  AllFinished'
<1>1. queue \in [DOMAIN queue -> Events] /\ request = [r \in Executions |-> request[r]]
  BY DEF EngineInv, EngineTypes
<1>2. \A k \in DOMAIN queue : \A n, w, m : SameEvent(queue[k], [queue[k] EXCEPT !.tries = n, !.holder = w, !.met = m])
  BY <1>1 DEF SameEvent, Events
<1>3. \A k \in DOMAIN queue : \A s : SameEvent(queue[k], [queue[k] EXCEPT !.status = s])
  BY <1>1 DEF SameEvent, Events
<1>4. \A k \in DOMAIN queue : SameEvent(queue[k], queue[k])
  BY DEF SameEvent
<1>5. ASSUME UNCHANGED <<request, records, updates, calls, finished>>, NEW k \in DOMAIN queue, NEW q, SameEvent(queue[k], q),
             queue' = [queue EXCEPT ![k] = q] \/ queue' = queue
      PROVE  AllFinished'
  <2>1. DOMAIN queue' = DOMAIN queue /\ \A j \in DOMAIN queue : queue'[j] = queue[j] \/ (j = k /\ queue'[j] = q)
    BY <1>1, <1>5
  <2>2. \A j \in DOMAIN queue : SameEvent(queue[j], queue'[j])
    BY <1>4, <1>5, <2>1
  <2> QED
    BY <1>5, <2>1, <2>2, QueueGrows, FinishedKept
<1>6. ASSUME UNCHANGED <<request, records, updates, calls, finished, queue>> PROVE AllFinished'
  BY <1>4, <1>6, QueueGrows, FinishedKept
<1>7. ASSUME NEW r \in Executions, NEW wf \in Wanted, Ask(r, wf) PROVE AllFinished'
  <2>1. UNCHANGED <<records, updates, calls, finished, queue>> /\ request[r].phase = "new"
    BY <1>7 DEF Ask
  <2>2. \A q \in Executions : q # r => request'[q] = request[q]
    BY <1>1, <1>7 DEF Ask
  <2>3. Lasts
    BY <1>4, <2>1, <2>2 DEF Lasts
  <2> QED
    BY <2>1, <2>3, FinishedKept
<1>8. ASSUME NEW w \in Processors, NEW k \in DOMAIN queue, Claim(w, k) PROVE AllFinished'
  <2> DEFINE n == queue[k].tries + 1
             met == queue[k].met \/ \E v \in Processors : processor[v].event = k
             q == [queue[k] EXCEPT !.tries = n, !.holder = w, !.met = met]
  <2>1. queue' = [queue EXCEPT ![k] = q] /\ UNCHANGED <<request, records, updates, calls, finished>>
    BY <1>1, <1>8 DEF Claim
  <2>2. SameEvent(queue[k], q)
    BY <1>2
  <2> HIDE DEF q
  <2> QED
    BY <1>5, <2>1, <2>2
<1>9. ASSUME NEW w \in Processors, AcknowledgeReplay(w) PROVE AllFinished'
  <2> DEFINE k == processor[w].event
             q == [queue[k] EXCEPT !.status = "done"]
  <2>1. k \in DOMAIN queue
    BY <1>9 DEF EngineInv, EngineTypes, Deliveries, AcknowledgeReplay
  <2>2. queue' = [queue EXCEPT ![k] = q] \/ queue' = queue
    BY <1>1, <1>9 DEF AcknowledgeReplay
  <2>3. UNCHANGED <<request, records, updates, calls, finished>>
    BY <1>9 DEF AcknowledgeReplay
  <2>4. SameEvent(queue[k], q)
    BY <1>3, <2>1
  <2> HIDE DEF q, k
  <2> QED
    BY <1>5, <2>1, <2>2, <2>3, <2>4
<1>10. ASSUME NEW w \in Processors, AbandonReplay(w) PROVE AllFinished'
  BY <1>6, <1>10 DEF AbandonReplay
<1>11. ASSUME NEW k \in DOMAIN queue, Exhaust(k) PROVE AllFinished'
  <2> DEFINE q == [queue[k] EXCEPT !.status = "failed"]
  <2>1. queue' = [queue EXCEPT ![k] = q] /\ UNCHANGED <<request, records, updates, calls, finished>>
    BY <1>1, <1>11 DEF Exhaust
  <2>2. SameEvent(queue[k], q)
    BY <1>3
  <2> HIDE DEF q
  <2> QED
    BY <1>5, <2>1, <2>2
<1>12. ASSUME UNCHANGED engineVars PROVE AllFinished'
  BY <1>6, <1>12 DEF engineVars
<1> QED
  BY <1>7, <1>8, <1>9, <1>10, <1>11, <1>12

LEMMA RunGrows ==
  ASSUME EngineTypes, NEW fx, \A e \in Range(fx) : e \in Formed, NEW by, NEW missed, KeepNothing \/ Keep(fx, by, missed), NEW txn, Called(fx, txn),
         \A r \in Executions : request[r].phase = "ok" => request'[r] = request[r]
  PROVE  Lasts
<1>1. calls \subseteq calls'
  BY DEF Called
<1>2. \A k \in DOMAIN queue : SameEvent(queue[k], queue[k])
  BY DEF SameEvent
<1>3. CASE KeepNothing
  BY <1>1, <1>2, <1>3 DEF KeepNothing, Lasts
<1>4. CASE Keep(fx, by, missed)
  <2>1. \A k \in DOMAIN queue : k \in DOMAIN queue' /\ queue'[k] = queue[k]
    BY <1>4, KeepQueues DEF EngineTypes
  <2>2. records \subseteq records' /\ updates \subseteq updates'
    BY <1>4, KeepWrites
  <2> QED
    BY <1>1, <1>2, <2>1, <2>2 DEF Lasts
<1> QED
  BY <1>3, <1>4

RecordPaths == \A x \in records : x.path \in Paths

LEMMA PathsKept ==
  ASSUME RecordPaths, NEW fx, \A e \in Range(fx) : e \in Formed, NEW by, NEW missed, KeepNothing \/ Keep(fx, by, missed)
  PROVE  RecordPaths'
<1>1. CASE KeepNothing
  BY <1>1 DEF KeepNothing, RecordPaths
<1>2. CASE Keep(fx, by, missed)
  <2> SUFFICES ASSUME NEW x \in records', x \notin records PROVE x.path \in Paths
    BY DEF RecordPaths
  <2>1. PICK e \in Range(fx) : Row(x, e, by, missed)
    BY <1>2, KeepWrites
  <2> QED
    BY <2>1 DEF Row, Formed, Effects
<1> QED
  BY <1>1, <1>2

LEMMA ExecuteFinishes ==
  ASSUME EngineInv, EngineInv', AllFinished, RecordPaths, NEW r \in Executions, Execute(r)
  PROVE  AllFinished' /\ RecordPaths'
<1>0. EngineTypes
  BY DEF EngineInv
<1> DEFINE wf == request[r].wf
           left == request[r].left
           txn == RunsInTransaction(wf)
           job == <<"request", r>>
           next(st, fault) ==
             LET ok == st.end = "ok" /\ fault.kind # "transient"
                 again == fault.kind = "transient" /\ request[r].runs < MaxReruns
             IN /\ Strikes(fault, st, txn)
                /\ Called(st.fx, txn)
                /\ IF ok \/ ~txn THEN Keep(st.fx, NoEvent, {}) ELSE KeepNothing
                /\ IF ok THEN Finish(job, left, st) ELSE UNCHANGED finished
                /\ request' =
                     IF again THEN [request EXCEPT ![r].runs = @ + 1,
                                                   ![r].left = IF wf = Triggered \/ IsRoot(wf) THEN Fresh ELSE LeftBy(st)]
                     ELSE [request EXCEPT ![r].phase = IF ok THEN "ok" ELSE "failed"]
<1>1. request[r].phase = "running"
  BY DEF Execute
<1>2. PICK fault \in Faults : next(RunRequest(r, fault, left), fault)
  BY DEF Execute
<1> DEFINE st == RunRequest(r, fault, left)
<1>3. wf \in Wanted /\ left \in Left
  BY <1>0 DEF EngineTypes
<1>4. st \in Runs /\ \A e \in Range(st.fx) : e \in Formed
  BY <1>3, RequestEffects
<1>5. next(st, fault) /\ \A e \in Range(st.fx) : Rightful(e)
  BY <1>2, <1>3, RequestRights
<1>6. fault.kind # "transient" /\ Good(st) /\ ~left.ret => st.fx = RunRequest(r, NoFault, Fresh).fx
  <2>1. Strikes(fault, st, txn)
    BY <1>5
  <2> HIDE DEF txn, left, next
  <2> SUFFICES ASSUME fault.kind # "transient", Good(st), ~left.ret PROVE st.fx = RunRequest(r, NoFault, Fresh).fx
    OBVIOUS
  <2> DEFINE run == st
  <2>2. run = RunRequest(r, fault, left) /\ Good(run) /\ Strikes(fault, run, txn)
    BY <2>1
  <2> HIDE DEF run
  <2>3. run.fx = RunRequest(r, NoFault, Fresh).fx
    BY <1>3, <2>2, FinishedRequest
  <2> QED
    BY <2>3 DEF run
<1>7. RunRequest(r, NoFault, Fresh) = RequestRun(r, wf, NoFault, Fresh)
  BY DEF RunRequest, RequestRun, RequestContext
<1> HIDE DEF st
<1> DEFINE ok == st.end = "ok" /\ fault.kind # "transient"
<1>8. /\ Called(st.fx, txn) /\ (KeepNothing \/ Keep(st.fx, NoEvent, {})) /\ (ok => Keep(st.fx, NoEvent, {}))
      /\ ok => Finish(job, left, st)
      /\ ~ok => UNCHANGED finished
  BY <1>5
<1>9. \A q \in Executions : q # r => request'[q] = request[q]
  BY <1>0, <1>5 DEF EngineTypes
<1>10. ok => request'[r].phase = "ok" /\ request'[r].wf = wf
  BY <1>0, <1>5 DEF EngineTypes
<1> HIDE DEF next, txn, left, wf, job
<1>11. Lasts
  <2>1. \A q \in Executions : request[q].phase = "ok" => request'[q] = request[q]
    BY <1>1, <1>9
  <2> QED
    BY <1>0, <1>4, <1>8, <2>1, RunGrows
<1>12. RecordPaths'
  BY <1>4, <1>8, PathsKept
<1>13. CASE ~ok
  BY <1>8, <1>11, <1>12, <1>13, FinishedKept
<1>14. CASE ok
  <2>1. IsJob(job, request', queue')
    BY <1>10, <1>14 DEF IsJob, job
  <2>2. ASSUME ~st.passed, ~left.ret PROVE WholeOf(job, request', records', updates', calls', queue')
    <3>1. Good(st)
      BY <1>14, <2>2 DEF Good
    <3>2. NeededOf(job, request', queue') = Range(RequestRun(r, wf, NoFault, Fresh).fx)
      <4>1. job[1] = "request" /\ job[2] = r
        BY DEF job
      <4> QED
        BY <1>10, <1>14, <4>1 DEF NeededOf
    <3>3. NeededOf(job, request', queue') = Range(st.fx)
      BY <1>6, <1>7, <1>14, <2>2, <3>1, <3>2
    <3>4. st.fx \in Seq(Effects)
      BY <1>4 DEF Runs
    <3>5. AllKeyed' /\ \A x \in records' : x.path \in Paths
      BY <1>12 DEF EngineInv, RecordPaths
    <3> HIDE DEF ok
    <3>6. Keep(st.fx, NoEvent, {}) /\ Called(st.fx, txn)
      BY <1>8, <1>14
    <3>7. \A e \in Range(st.fx) : There(e, records', updates', calls', queue')
      BY <1>0, <1>4, <1>5, <3>4, <3>5, <3>6, KeptWhole
    <3> QED
      BY <3>3, <3>7 DEF WholeOf
  <2>3. Finish(job, left, st)
    BY <1>8, <1>14
  <2>4. AllFinished'
    BY <1>11, <2>1, <2>2, <2>3, FinishedMore
  <2> QED
    BY <1>12, <2>4
<1> QED
  BY <1>13, <1>14

LEMMA ReplayFinishes ==
  ASSUME EngineInv, EngineInv', AllFinished, RecordPaths, NEW w \in Processors, Replay(w)
  PROVE  AllFinished' /\ RecordPaths'
<1>0. EngineTypes
  BY DEF EngineInv
<1> DEFINE k == processor[w].event
           left == processor[w].left
           txn == ReplayRequiresTransaction(queue[k].step)
           job == <<"event", k>>
           next(st, fault) ==
             /\ Strikes(fault, st, txn)
             /\ Called(st.fx, txn)
             /\ \E marked \in {st.end = "ok" /\ fault.kind # "transient", (st.end = "ok" /\ fault.kind # "transient") /\ txn},
                   missed \in SUBSET (IF txn THEN {} ELSE {x.key : x \in records} \ processor[w].seen) :
                  /\ marks' = IF marked THEN marks \cup {k} ELSE marks
                  /\ IF marked THEN Finish(job, left, st) ELSE UNCHANGED finished
                  /\ IF marked \/ ~txn THEN Keep(st.fx, k, missed) ELSE KeepNothing
                  /\ IF fault.kind = "transient" /\ processor[w].runs < MaxReruns
                     THEN processor' = [processor EXCEPT ![w].runs = @ + 1, ![w].left = LeftBy(st)]
                     ELSE IF marked THEN processor' = [processor EXCEPT ![w].due = FALSE] ELSE Release(w)
<1>1. k # NoEvent /\ request' = request
  BY DEF Replay
<1>2. PICK fault \in Faults : \E st \in {RunReplay(queue[k], fault, left)} : next(st, fault)
  BY DEF Replay
<1> DEFINE st == RunReplay(queue[k], fault, left)
<1>3. k \in DOMAIN queue /\ queue[k] \in Events /\ left \in Left
  BY <1>0, <1>1 DEF EngineTypes, Deliveries
<1>4. st \in Runs /\ \A e \in Range(st.fx) : e \in Formed
  BY <1>3, ReplayEffects
<1>5. next(st, fault) /\ \A e \in Range(st.fx) : Rightful(e)
  <2>1. /\ Seated(queue[k].path, queue[k].step, Captured, queue[k].key) /\ queue[k].key # <<>>
        /\ OwnerAt(queue[k].path) = queue[k].path
    BY <1>0, <1>3 DEF EngineInv, AllKeyed, EngineTypes
  <2> HIDE DEF k, txn, left
  <2>2. \A e \in Range(st.fx) : Rightful(e)
    BY <1>3, <2>1, ReplayRights
  <2> QED
    BY <1>2, <2>2
<1>6. fault.kind # "transient" /\ Good(st) /\ ~left.ret => st.fx = RunReplay(queue[k], NoFault, Fresh).fx
  <2>1. Strikes(fault, st, txn)
    BY <1>5
  <2> HIDE DEF txn, left, next, k
  <2> DEFINE run == st
  <2>2. run = RunReplay(queue[k], fault, left) /\ Strikes(fault, run, txn)
    BY <2>1
  <2> HIDE DEF run
  <2>3. fault.kind # "transient" /\ Good(run) /\ ~left.ret => run.fx = RunReplay(queue[k], NoFault, Fresh).fx
    BY <1>3, <2>2, FinishedReplay
  <2> QED
    BY <2>3 DEF run
<1> HIDE DEF st
<1>7. PICK marked \in BOOLEAN, missed \in SUBSET {x.key : x \in records} :
        /\ Called(st.fx, txn) /\ (KeepNothing \/ Keep(st.fx, k, missed)) /\ (marked => Keep(st.fx, k, missed))
        /\ marked => Finish(job, left, st) /\ st.end = "ok" /\ fault.kind # "transient"
        /\ ~marked => UNCHANGED finished
  BY <1>5
<1> HIDE DEF next, txn, left, k, job
<1>8. Lasts
  BY <1>0, <1>1, <1>4, <1>7, RunGrows
<1>9. RecordPaths'
  BY <1>4, <1>7, PathsKept
<1>10. CASE ~marked
  BY <1>7, <1>8, <1>9, <1>10, FinishedKept
<1>11. CASE marked
  <2>1. k \in DOMAIN queue' /\ SameEvent(queue[k], queue'[k])
    BY <1>3, <1>8 DEF Lasts
  <2>2. IsJob(job, request', queue')
    BY <2>1 DEF IsJob, job
  <2>3. ASSUME ~st.passed, ~left.ret PROVE WholeOf(job, request', records', updates', calls', queue')
    <3>1. Good(st)
      BY <1>7, <1>11, <2>3 DEF Good
    <3>2. NeededOf(job, request', queue') = Range(RunReplay(queue'[k], NoFault, Fresh).fx)
      <4>1. job[1] # "request" /\ job[2] = k
        BY DEF job
      <4> QED
        BY <4>1 DEF NeededOf
    <3>3. NeededOf(job, request', queue') = Range(st.fx)
      BY <1>6, <1>7, <1>11, <2>1, <2>3, <3>1, <3>2, SameReplay
    <3>4. st.fx \in Seq(Effects)
      BY <1>4 DEF Runs
    <3>5. AllKeyed' /\ \A x \in records' : x.path \in Paths
      BY <1>9 DEF EngineInv, RecordPaths
    <3>6. Keep(st.fx, k, missed) /\ Called(st.fx, txn)
      BY <1>7, <1>11
    <3>7. \A e \in Range(st.fx) : There(e, records', updates', calls', queue')
      BY <1>0, <1>4, <1>5, <3>4, <3>5, <3>6, KeptWhole
    <3> QED
      BY <3>3, <3>7 DEF WholeOf
  <2>4. Finish(job, left, st)
    BY <1>7, <1>11
  <2>5. AllFinished'
    BY <1>8, <2>2, <2>3, <2>4, FinishedMore
  <2> QED
    BY <1>9, <2>5
<1> QED
  BY <1>10, <1>11

(* The invariant with what is finished.                                      *)
FinishedInv == EngineInv /\ AllFinished /\ RecordPaths

LEMMA FinishedStart == EngineInit => FinishedInv
<1> SUFFICES ASSUME EngineInit PROVE AllFinished /\ RecordPaths
  BY EngineStart DEF FinishedInv
<1>1. DOMAIN finished = {} /\ records = {}
  BY DEF EngineInit
<1> QED
  BY <1>1 DEF AllFinished, RecordPaths

LEMMA FinishedStep == FinishedInv /\ [EngineNext]_engineVars => FinishedInv'
<1> SUFFICES ASSUME FinishedInv, [EngineNext]_engineVars PROVE AllFinished' /\ RecordPaths'
  BY EngineStep DEF FinishedInv
<1>1. EngineInv /\ EngineInv' /\ AllFinished /\ RecordPaths
  BY EngineStep DEF FinishedInv
<1>2. ASSUME NEW r \in Executions, Execute(r) PROVE AllFinished' /\ RecordPaths'
  BY <1>1, <1>2, ExecuteFinishes
<1>3. ASSUME NEW w \in Processors, Replay(w) PROVE AllFinished' /\ RecordPaths'
  BY <1>1, <1>3, ReplayFinishes
<1> DEFINE Still ==
             \/ UNCHANGED engineVars
             \/ \E r \in Executions, wf \in Wanted : Ask(r, wf)
             \/ \E w \in Processors, k \in DOMAIN queue : Claim(w, k)
             \/ \E w \in Processors : AcknowledgeReplay(w) \/ AbandonReplay(w)
             \/ \E k \in DOMAIN queue : Exhaust(k)
<1>4. ASSUME Still PROVE AllFinished' /\ RecordPaths'
  <2>1. AllFinished'
    BY <1>1, <1>4, QuietSteps
  <2>2. records' = records
    BY <1>4 DEF engineVars, Ask, Claim, AcknowledgeReplay, AbandonReplay, Exhaust
  <2> QED
    BY <1>1, <2>1, <2>2 DEF RecordPaths
<1>5. Still \/ (\E r \in Executions : Execute(r)) \/ \E w \in Processors : Replay(w)
  BY DEF EngineNext
<1> QED
  BY <1>2, <1>3, <1>4, <1>5

LEMMA FinishedInvariant == EngineSpec => []FinishedInv
<1> QED
  BY FinishedStart, FinishedStep, PTL DEF EngineSpec

(* A run that is done, passed over no error and had not returned before has   *)
(* left every effect of its tree, whatever faults and reruns came before it;  *)
(* a request that failed has left nothing.                                   *)
THEOREM DoneIsWhole == EngineSpec => []AllOrNothing
<1>1. FinishedInv => AllOrNothing
  <2> SUFFICES ASSUME FinishedInv PROVE AllOrNothing
    OBVIOUS
  <2>1. \A job \in DOMAIN finished : ~finished[job].passed /\ ~finished[job].stale => Whole(job)
    BY DEF FinishedInv, AllFinished
  <2>2. ASSUME NEW r \in Executions, request[r].phase = "failed", NEW path, Settled(path, request)
        PROVE  ~(path # <<>> /\ path[1] = <<"request", r>>)
    <3>1. PICK q \in Executions : path[1] = <<"request", q>> /\ request[q].phase = "ok"
      BY <2>2 DEF Settled
    <3> QED
      BY <2>2, <3>1
  <2>3. AllSettled
    BY DEF FinishedInv, EngineInv
  <2> QED
    BY <2>1, <2>2, <2>3 DEF AllOrNothing, AllSettled
<1> QED
  BY <1>1, FinishedInvariant, PTL

=============================================================================
