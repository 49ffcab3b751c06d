------------------------------ MODULE JobPool ------------------------------
(* What dispatch, reserve and release promise, with no counter and no      *)
(* channel: jobs of tasks are admitted, wait for one of Limit places, work, *)
(* leave and are over.  A task has at most one admitted job that is not    *)
(* over, unless a later one allows overlap.                                *)
EXTENDS Integers, FiniteSets

CONSTANTS Task, Limit

VARIABLES
    count,         \* how many jobs were admitted
    job,           \* job[i]: the task of job i, and whether it allows overlap
    status         \* status[i]: where job i stands

vars == <<count, job, status>>

Job == 1 .. count
Being(what) == {i \in Job : status[i] \in what}
Present == Being({"waiting", "working", "leaving"})

Init == count = 0 /\ job = [i \in 1..0 |-> 0] /\ status = [i \in 1..0 |-> "over"]

Admit(e) ==
    /\ e.overlap \/ \A i \in Present : job[i].task # e.task
    /\ count' = count + 1
    /\ job' = [i \in 1..(count + 1) |-> IF i = count + 1 THEN e ELSE job[i]]
    /\ status' = [i \in 1..(count + 1) |-> IF i = count + 1 THEN "waiting" ELSE status[i]]

Move(i, from, to) ==
    /\ status[i] = from /\ status' = [status EXCEPT ![i] = to]
    /\ UNCHANGED <<count, job>>

Begin(i) == Cardinality(Being({"working"})) < Limit /\ Move(i, "waiting", "working")
Finish(i) == Move(i, "working", "leaving")
Withdraw(i) == Move(i, "waiting", "leaving")
Leave(i) == Move(i, "leaving", "over")

(* The process that holds the pool dies.                                   *)
Collapse ==
    /\ status' = [i \in Job |-> "over"]
    /\ UNCHANGED <<count, job>>

Next ==
    \/ \E e \in [task : Task, overlap : BOOLEAN] : Admit(e)
    \/ \E i \in Job : Begin(i) \/ Finish(i) \/ Withdraw(i) \/ Leave(i)
    \/ Collapse

Spec == Init /\ [][Next]_vars

-----------------------------------------------------------------------------
(* Of two present jobs of a task, the later one allows overlap             *)
(* (architecture.md:65).                                                   *)
Exclusive ==
    \A i, j \in Present : i < j /\ job[i].task = job[j].task => job[j].overlap

(* At most Limit jobs work at a time (architecture.md:66).                 *)
Bounded == Cardinality(Being({"working"})) <= Limit
=============================================================================
