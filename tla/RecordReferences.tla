--------------------------- MODULE RecordReferences ---------------------------
(* Creates and deletes of records that refer to each other, with their       *)
(* numbers (services/dynamic_service.go). Each request is one transaction    *)
(* under a snapshot; a create takes its numbers from a counter inside it. A  *)
(* callback that is run again finds its items as the run before left them.   *)
(* The locks and the access selectors of deletes are in RecordWrites.        *)
EXTENDS Integers, Sequences, FiniteSets, Functions

CONSTANTS
  Ids,          \* records, those to be created included
  SchemaOf,     \* Ids -> the container of a record
  RefOf,        \* Ids -> the record its objectId field names, or NoRef
  Forced,       \* containers whose field is marked isForceDelete
  Numbered,     \* containers with an autoIncrementId field
  Present,      \* the records there at the start
  Asked,        \* request -> [op, items]: single and bulk creates and deletes
  MaxRuns,      \* bound: runs of one callback
  NoRef         \* refers to nothing

ASSUME ReferencesAssumption ==
  /\ Present \subseteq Ids
  /\ RefOf \in [Ids -> Ids \cup {NoRef}] /\ NoRef \notin Ids
  /\ DOMAIN SchemaOf = Ids /\ Range(SchemaOf) \cap Ids = {}
  /\ MaxRuns \in Nat \ {0}
  /\ \A r \in DOMAIN Asked : /\ Asked[r].op \in {"create", "createMany", "delete", "deleteMany"}
                             /\ Asked[r].items \in Seq(Ids)
                             /\ \A x, y \in Range(Asked[r].items) : SchemaOf[x] = SchemaOf[y]

VARIABLES
  live,         \* the committed records
  counter,      \* container -> its counter, a document named after it
  number,       \* record -> the number it was committed with
  txn,          \* request -> [phase, snap, seq, missed, writes, runs]
  kept,         \* request -> the numbers in its parsed items
  gone          \* deleted record -> [forced, saw]: how, and what the delete saw

refVars == <<live, counter, number, txn, kept, gone>>

Schemas == Range(SchemaOf)

NoTxn == [phase |-> "new", snap |-> {}, seq |-> 0, missed |-> {}, writes |-> {}, runs |-> 0]

RefInit ==
  /\ live = Present
  /\ counter = [s \in Schemas |-> 0]
  /\ number = <<>>
  /\ txn = [r \in DOMAIN Asked |-> NoTxn]
  /\ kept = [r \in DOMAIN Asked |-> <<>>]
  /\ gone = <<>>

RefItems(r) == Range(Asked[r].items)
SchemaAsked(r) == SchemaOf[Asked[r].items[1]]
Creates(r) == Asked[r].op \in {"create", "createMany"}

(* What is new, over what was there.                                         *)
Overlay(new, old) == [x \in DOMAIN new \cup DOMAIN old |-> IF x \in DOMAIN new THEN new[x] ELSE old[x]]

(* A request names its items, a create each of them once, under an           *)
(* identifier that was made for it.                                          *)
ASSUME FreshAssumption ==
  /\ \A r \in DOMAIN Asked : Asked[r].items # <<>>
  /\ \A r \in {q \in DOMAIN Asked : Creates(q)} :
       /\ \A i, j \in DOMAIN Asked[r].items : Asked[r].items[i] = Asked[r].items[j] => i = j
       /\ RefItems(r) \cap Present = {}
       /\ \A q \in {p \in DOMAIN Asked : Creates(p)} \ {r} : RefItems(r) \cap RefItems(q) = {}

-----------------------------------------------------------------------------
(* Transactions. A document written in an open transaction is not to be      *)
(* written by another, nor one that was written after the snapshot.          *)

BeginWork(r) ==
  /\ txn[r].phase = "new"
  /\ txn' = [txn EXCEPT ![r].phase = "open", ![r].snap = live, ![r].seq = counter[SchemaAsked(r)],
                         ![r].missed = {}, ![r].writes = {}, ![r].runs = @ + 1]
  /\ UNCHANGED <<live, counter, number, kept, gone>>

Unwritable(r) ==
  txn[r].missed \cup UNION {txn[q].writes : q \in {o \in DOMAIN Asked \ {r} : txn[o].phase = "written"}}

(* A conflict or another transient error: the driver runs the callback again.*)
RunAgain(r) ==
  /\ txn' = [txn EXCEPT ![r].phase = IF txn[r].runs < MaxRuns THEN "new" ELSE "failed", ![r].writes = {}]
  /\ UNCHANGED <<live, counter, number, gone>>

Fail(r) ==
  /\ txn' = [txn EXCEPT ![r].phase = "failed", ![r].writes = {}]
  /\ UNCHANGED <<live, counter, number, kept, gone>>

Transient(r) ==
  /\ txn[r].phase \in {"open", "written"}
  /\ RunAgain(r) /\ UNCHANGED kept

(* What a commit writes is missed by the snapshots of the open transactions. *)
Missed(r) ==
  [q \in DOMAIN Asked |->
     IF q = r THEN [txn[q] EXCEPT !.phase = "done"]
     ELSE IF txn[q].phase \in {"open", "written"} THEN [txn[q] EXCEPT !.missed = @ \cup txn[r].writes]
     ELSE txn[q]]

-----------------------------------------------------------------------------
(* Creates.                                                                  *)

(* Fault: the validator takes a number of any Go type.                       *)
FaultAnyNumber(r) == TRUE
(* A number taken from the counter, an int64, is none of the types the       *)
(* validator knows for a number that came with the request.                  *)
ValidNumbers(r) == kept[r] = <<>>

(* Items without a number take the next one each.                            *)
AutoIncrement(r) ==
  LET wants(i) == SchemaAsked(r) \in Numbered /\ Asked[r].items[i] \notin DOMAIN kept[r]
      place(x) == CHOOSE i \in DOMAIN Asked[r].items : Asked[r].items[i] = x
      new == {x \in RefItems(r) : wants(place(x))}
  IN Overlay([x \in new |-> txn[r].seq + Cardinality({i \in 1..place(x) : wants(i)})], kept[r])

Create(r) ==
  /\ txn[r].phase = "open" /\ Creates(r)
  /\ IF ~ValidNumbers(r) THEN Fail(r)
     ELSE LET numbers == AutoIncrement(r)
              writes == RefItems(r) \cup (IF numbers = kept[r] THEN {} ELSE {SchemaAsked(r)})
          IN IF SchemaAsked(r) \in writes \cap Unwritable(r) THEN RunAgain(r) /\ UNCHANGED kept
             ELSE /\ txn' = [txn EXCEPT ![r].phase = "written", ![r].writes = writes]
                  /\ kept' = [kept EXCEPT ![r] = numbers]
                  /\ UNCHANGED <<live, counter, number, gone>>

CommitCreate(r) ==
  /\ txn[r].phase = "written" /\ Creates(r)
  /\ live' = live \cup RefItems(r)
  /\ number' = Overlay(kept[r], number)
  /\ counter' = [s \in Schemas |-> IF s \in txn[r].writes THEN txn[r].seq + Cardinality(DOMAIN kept[r]) ELSE counter[s]]
  /\ txn' = Missed(r)
  /\ UNCHANGED <<kept, gone>>

-----------------------------------------------------------------------------
(* Deletes. A reference is an objectId field named after the schema of the   *)
(* record, in another container.                                             *)

Referring(S, x) == {y \in S : RefOf[y] = x /\ SchemaOf[y] # SchemaOf[x]}

(* Fault: the check looks at the fields that may be deleted by force.        *)
FaultSwappedFlag(S, x) == \A y \in Referring(S, x) : SchemaOf[y] \notin Forced
EnsureDeleteReferences(S, x) == \A y \in Referring(S, x) : SchemaOf[y] \in Forced

ForceDeleteReferences(S, x) == {y \in Referring(S, x) : SchemaOf[y] \in Forced}

(* One item: left alone when it is not there, or referred to.                *)
DeleteOne(S, x) ==
  IF x \in S /\ EnsureDeleteReferences(S, x) THEN S \ ({x} \cup ForceDeleteReferences(S, x)) ELSE S

(* The records that are left of S once the items are gone through in order.  *)
RemainingOf(S, items) ==
  LET left[i \in 0..Len(items)] == IF i = 0 THEN S ELSE DeleteOne(left[i - 1], items[i])
  IN left[Len(items)]

Remaining(r) == RemainingOf(txn[r].snap, Asked[r].items)

Delete(r) ==
  /\ txn[r].phase = "open" /\ Asked[r].op \in {"delete", "deleteMany"}
  /\ LET writes == txn[r].snap \ Remaining(r)
     IN IF writes = {} THEN Fail(r)
        ELSE IF writes \cap Unwritable(r) # {} THEN RunAgain(r) /\ UNCHANGED kept
        ELSE /\ txn' = [txn EXCEPT ![r].phase = "written", ![r].writes = writes]
             /\ UNCHANGED <<live, counter, number, kept, gone>>

CommitDelete(r) ==
  /\ txn[r].phase = "written" /\ Asked[r].op \in {"delete", "deleteMany"}
  /\ live' = live \ txn[r].writes
  /\ gone' = Overlay([x \in txn[r].writes |-> [forced |-> x \notin RefItems(r), saw |-> Remaining(r)]], gone)
  /\ txn' = Missed(r)
  /\ UNCHANGED <<counter, number, kept>>

-----------------------------------------------------------------------------

RefNext == \E r \in DOMAIN Asked :
  BeginWork(r) \/ Transient(r) \/ Create(r) \/ CommitCreate(r) \/ Delete(r) \/ CommitDelete(r)

RefSpec == RefInit /\ [][RefNext]_refVars

(* Every record has a number of its own, and no number is lost, though       *)
(* callbacks are run again with the numbers of transactions that were rolled *)
(* back (applyAutoIncrementFields keeps what it finds).                      *)
NumbersOnce ==
  \A s \in Schemas :
    LET its == {x \in DOMAIN number : SchemaOf[x] = s}
    IN {number[x] : x \in its} = 1..counter[s] /\ Cardinality(its) = counter[s]

(* A record somebody asked to delete was referred to by none of the records  *)
(* that are left of those its transaction saw; only a record created at the  *)
(* same time, or later, may refer to it.                                     *)
DeletedWasFree ==
  \A x \in DOMAIN gone : ~gone[x].forced => Referring(live, x) \cap gone[x].saw = {}

(* "Cannot delete: This item is still referenced in schema and cannot be     *)
(* forcibly deleted.": the same of every record a delete removes.            *)
StillReferencedIsKept ==
  \A x \in DOMAIN gone : \A y \in Referring(live, x) \cap gone[x].saw : SchemaOf[y] \in Forced

=============================================================================
