----------------------------- MODULE MCService -----------------------------
(* Instances of Service for TLC: task 1 occurs at every tick, task 2 at one  *)
(* of them.                                                                  *)
EXTENDS Service

OneTask == {1}
TwoTasks == {1, 2}
EachTick == [t \in {1} |-> {1, 2, 3}]
Mixed == [t \in {1, 2} |-> IF t = 1 THEN {1, 2, 3} ELSE {2}]
None == {}
=============================================================================
