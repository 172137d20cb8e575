----------------------------- MODULE MCWorkflows -----------------------------
(* Definitions of workflows for the interpreter: they combine what its       *)
(* properties tell apart.                                                    *)
EXTENDS WorkflowEngine, TLC

S(type, id) ==
  [id |-> id, type |-> type, mode |-> "", active |-> TRUE, when |-> "always", continueOnError |-> FALSE,
   steps |-> <<>>, elseSteps |-> <<>>, branches |-> <<>>, items |-> 2, target |-> ""]
In(mode, step) == [step EXCEPT !.mode = mode]
T(type, id) == In(Transactional, S(type, id))
O(type, id) == In(OutboxMode, S(type, id))
Each(step, steps) == [step EXCEPT !.steps = steps]
Calling(step, wf) == [step EXCEPT !.target = wf]

W(trigger, mode, steps) ==
  [trigger |-> trigger, mode |-> mode, active |-> TRUE, when |-> "always", stopOnError |-> TRUE,
   runInTransaction |-> FALSE, steps |-> steps]

Workflows ==
  \* two records and an answer, then a call in the background
  ("answer" :> W("manual", Hybrid, <<T("create", "a"), T("create", "b"), T("return", "r"), O("call", "c")>>)) @@
  \* the writes are in the steps of an else, or of a branch
  ("else" :> W("manual", Transactional,
      <<[S("if", "i") EXCEPT !.when = "first", !.steps = <<S("read", "r")>>,
           !.elseSteps = <<S("create", "a"), S("update", "u")>>]>>)) @@
  ("branch" :> W("cron", "",
      <<[S("if", "i") EXCEPT !.branches = <<[when |-> "first", steps |-> <<S("read", "r")>>],
           [when |-> "always", steps |-> <<S("create", "a"), S("create", "b")>>]>>]>>)) @@
  \* a captured loop of writes, of writes and calls, of writes up to a return
  ("loop" :> W("cron", OutboxMode, <<Each(S("for_each", "l"), <<S("create", "a"), S("update", "u")>>)>>)) @@
  ("mixed" :> W("manual", OutboxMode, <<Each(S("for_each", "l"), <<S("create", "a"), S("call", "c")>>)>>)) @@
  ("until" :> W("manual", Hybrid,
      <<Each(O("for_each", "l"), <<T("create", "a"), T("create", "b"), [T("return", "r") EXCEPT !.when = "first"]>>)>>)) @@
  \* a captured group with a call two levels down
  ("deep" :> W("manual", OutboxMode,
      <<[S("if", "i") EXCEPT !.steps = <<S("create", "a"), Each(S("for_each", "l"), <<S("call", "c")>>)>>]>>)) @@
  \* workflows that run others: in their own run, in a captured group, themselves
  ("parent" :> W("manual", Hybrid, <<T("create", "p"), Calling(T("execute_workflow", "x"), "answer"), O("audit", "z")>>)) @@
  ("group" :> W("manual", OutboxMode,
      <<[S("if", "i") EXCEPT !.steps = <<Calling(S("execute_workflow", "x"), "answer"), S("audit", "z")>>]>>)) @@
  ("again" :> W("manual", OutboxMode, <<Calling(S("execute_workflow", "x"), "again")>>)) @@
  \* errors that are passed over, a budget that is not enough
  ("lenient" :> W("manual", Transactional,
      <<S("create", "a"), [S("fail", "f") EXCEPT !.continueOnError = TRUE], S("update", "u")>>)) @@
  ("many" :> W("manual", OutboxMode, <<S("call", "c"), S("call", "d"), S("audit", "e"), S("update", "f")>>)) @@
  ("emit" :> W("cron", Transactional, <<S("create", "a"), S("emit", "e")>>)) @@
  \* around the create of a record
  ("before" :> W("before_create", Transactional, <<S("update", "b")>>)) @@
  ("after" :> W("after_create", Hybrid, <<T("create", "a"), O("call", "c")>>))

\* TLC evaluates anew, at every use, what a .cfg gives a constant, but once what
\* that is defined by.
Library == Workflows

Order == <<"answer", "else", "branch", "loop", "mixed", "until", "deep", "parent", "group", "again", "lenient",
           "many", "emit", "before", "after">>

\* the steps are nested three deep
Below(steps) == steps \cup UNION {Children(s) : s \in steps}
Nested == Below(Below(UNION {Range(Library[wf].steps) : wf \in DOMAIN Library}))
AllSteps == Nested
=============================================================================
