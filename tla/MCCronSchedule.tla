-------------------------- MODULE MCCronSchedule --------------------------
(* Contents "a" and "b" hold two definitions of the workflow; "off" holds  *)
(* the workflow switched off.                                              *)
EXTENDS CronSchedule, TLC

MCRevision == [c \in {"a", "b", "off"} |->
                 CASE c = "a" -> "A" [] c = "b" -> "B" [] c = "off" -> "none"]

MCFires == [f \in {"A", "B"} |-> IF f = "A" THEN 1..6 ELSE {2, 4, 6}]
=============================================================================
