----------------------------- MODULE RecordArrays -----------------------------
(* The rows embedded in one record (services/dynamic_array_service.go): they *)
(* are added, updated, deleted and reordered by requests that read the       *)
(* record, compute the next rows, and write them in a transaction if the     *)
(* rows are still those they read. An update of the whole record shares      *)
(* their lock and writes back the rows it read, whatever they are by then.   *)
EXTENDS Naturals, Sequences, FiniteSets, Functions

CONSTANTS
  Mutation,     \* request -> [op, id, to, order]
  StartRows,    \* the rows there may be at the start
  LocksFail,    \* BOOLEAN: Redis may fail, which lets a request go on
  MaxArrayRuns, \* bound: runs of one callback
  MaxMutations, \* bound: requests of one behaviour
  NoMutation    \* nobody

Mutations == DOMAIN Mutation

ASSUME ArraysAssumption ==
  /\ NoMutation \notin Mutations
  /\ LocksFail \in BOOLEAN /\ {MaxArrayRuns, MaxMutations} \subseteq Nat \ {0}
  /\ \A r \in Mutations : Mutation[r].op \in {"add", "update", "delete", "reorder", "whole"}

VARIABLES
  rows,         \* the committed rows: sequence of [id, by, place]
  rowLock,      \* who holds lock:update of the record
  stage,         \* where each request stands
  found,        \* the rows a request read
  next,         \* the rows it writes
  behind,       \* requests whose snapshot lacks a write of the record
  runs,         \* runs of the callback of a request
  exposed       \* history: requests at work without the lock

arrayVars == <<rows, rowLock, stage, found, next, behind, runs, exposed>>

ArrayInit ==
  /\ rows \in StartRows
  /\ rowLock = NoMutation
  /\ stage = [r \in Mutations |-> "new"]
  /\ found = [r \in Mutations |-> <<>>] /\ next = [r \in Mutations |-> <<>>]
  /\ behind = {} /\ exposed = {}
  /\ runs = [r \in Mutations |-> 0]

To(r, s) == stage' = [stage EXCEPT ![r] = s]

-----------------------------------------------------------------------------
(* What a mutation makes of the rows: at most one sequence, none when it is  *)
(* refused.                                                                  *)

MatchingArrayRowIndexes(s, id) == {i \in DOMAIN s : s[i].id = id}
OneArrayRow(s, id) == Cardinality(MatchingArrayRowIndexes(s, id)) = 1
Index(s, id) == CHOOSE i \in DOMAIN s : s[i].id = id

AddRow(r, s) ==
  IF MatchingArrayRowIndexes(s, Mutation[r].id) # {} THEN {}
  ELSE {Append(s, [id |-> Mutation[r].id, by |-> r, place |-> 0])}

UpdateRow(r, s) ==
  {[s EXCEPT ![i] = [@ EXCEPT !.id = Mutation[r].to, !.by = r]] :
     i \in {j \in MatchingArrayRowIndexes(s, Mutation[r].id) :
              OneArrayRow(s, Mutation[r].id) /\ MatchingArrayRowIndexes(s, Mutation[r].to) \subseteq {j}}}

DeleteRow(r, s) ==
  {SubSeq(s, 1, i - 1) \o SubSeq(s, i + 1, Len(s)) :
     i \in {j \in MatchingArrayRowIndexes(s, Mutation[r].id) : OneArrayRow(s, Mutation[r].id)}}

ReorderRows(r, s) ==
  LET order == Mutation[r].order
      complete == /\ Len(order) = Len(s) /\ Cardinality(Range(order)) = Len(order)
                  /\ \A id \in Range(order) : OneArrayRow(s, id)
  IN IF ~complete THEN {} ELSE {[i \in DOMAIN order |-> [s[Index(s, order[i])] EXCEPT !.place = i - 1]]}

Transform(r, s) ==
  CASE Mutation[r].op = "add"     -> AddRow(r, s)
    [] Mutation[r].op = "update"  -> UpdateRow(r, s)
    [] Mutation[r].op = "delete"  -> DeleteRow(r, s)
    [] Mutation[r].op = "reorder" -> ReorderRows(r, s)
    [] Mutation[r].op = "whole"   -> {s}

-----------------------------------------------------------------------------
(* The lock, for ten seconds, and without Redis for nobody.                  *)

TakeRowLock(r) ==
  /\ stage[r] = "new" /\ Cardinality({q \in Mutations : stage[q] # "new"}) < MaxMutations
  /\ \/ rowLock = NoMutation /\ rowLock' = r /\ To(r, "locked") /\ UNCHANGED exposed
     \/ rowLock # NoMutation /\ UNCHANGED <<rowLock, exposed>> /\ To(r, "refused")
     \/ LocksFail /\ UNCHANGED rowLock /\ To(r, "locked") /\ exposed' = exposed \cup {r}
  /\ UNCHANGED <<rows, found, next, behind, runs>>

RowLockLapse ==
  /\ rowLock # NoMutation
  /\ exposed' = exposed \cup {rowLock}
  /\ rowLock' = NoMutation
  /\ UNCHANGED <<rows, stage, found, next, behind, runs>>

(* The request ends and lets go of the lock if it still has it.              *)
EndMutation(r, s) ==
  /\ To(r, s)
  /\ rowLock' = IF rowLock = r THEN NoMutation ELSE rowLock
  /\ behind' = behind \ {r}
  /\ found' = [found EXCEPT ![r] = <<>>] /\ next' = [next EXCEPT ![r] = <<>>]

-----------------------------------------------------------------------------
(* mutateArrayRows, and of an update of the whole record what concerns rows. *)

FindRows(r) ==
  /\ stage[r] = "locked"
  /\ \/ \E s \in Transform(r, rows) :
          /\ found' = [found EXCEPT ![r] = rows]
          /\ next' = [next EXCEPT ![r] = s]
          /\ To(r, "computed")
          /\ UNCHANGED <<rowLock, behind>>
     \/ Transform(r, rows) = {} /\ EndMutation(r, "refused")
  /\ UNCHANGED <<rows, runs, exposed>>

BeginMutation(r) ==
  /\ stage[r] = "computed"
  /\ To(r, "open")
  /\ behind' = behind \ {r}
  /\ runs' = [runs EXCEPT ![r] = @ + 1]
  /\ UNCHANGED <<rows, rowLock, found, next, exposed>>

(* Fault: the rows are set on the record whatever they are by now.           *)
FaultNoAtomicSelector(r) == TRUE
(* The rows a mutation read are part of the selector of its write.           *)
StillThere(r) == Mutation[r].op = "whole" \/ rows = found[r]

WriteConflict(r) == r \in behind \/ \E q \in Mutations \ {r} : stage[q] = "written"

(* The callback is run again, with the same next rows, or given up.          *)
RerunMutation(r) ==
  /\ stage[r] \in {"open", "written"}
  /\ IF runs[r] < MaxArrayRuns THEN To(r, "computed") /\ UNCHANGED <<rowLock, found, next, behind>>
     ELSE EndMutation(r, "refused")
  /\ UNCHANGED <<rows, runs, exposed>>

SetRows(r) ==
  /\ stage[r] = "open" /\ ~WriteConflict(r)
  /\ IF StillThere(r) THEN To(r, "written") /\ UNCHANGED <<rowLock, found, next, behind>>
     ELSE EndMutation(r, "refused")
  /\ UNCHANGED <<rows, runs, exposed>>

CommitRows(r) ==
  /\ stage[r] = "written"
  /\ rows' = next[r]
  /\ To(r, "done")
  /\ rowLock' = IF rowLock = r THEN NoMutation ELSE rowLock
  /\ behind' = {q \in Mutations : stage[q] = "open"}
  /\ found' = [found EXCEPT ![r] = <<>>] /\ next' = [next EXCEPT ![r] = <<>>]
  /\ UNCHANGED <<runs, exposed>>

ArrayNext ==
  \/ RowLockLapse
  \/ \E r \in Mutations : \/ TakeRowLock(r) \/ FindRows(r) \/ BeginMutation(r)
                          \/ SetRows(r) \/ RerunMutation(r) \/ CommitRows(r)

ArraySpec == ArrayInit /\ [][ArrayNext]_arrayVars

-----------------------------------------------------------------------------

(* Committed mutations take effect one after the other on the rows that are  *)
(* there, locks or not: none undoes what another has done. An update of the  *)
(* whole record puts back rows that another has changed only when one of the *)
(* two was at work without the lock.                                         *)
RowsAreSerial ==
  [][\A r \in Mutations : stage[r] = "written" /\ stage'[r] = "done" =>
       \/ rows' \in Transform(r, rows)
       \/ Mutation[r].op = "whole" /\ exposed # {}]_arrayVars

=============================================================================
