----------------------------- MODULE MCPlanner -----------------------------
(* Instances of Planner for TLC: days of eight hours, zones that go forward  *)
(* or back by one of them, east and west of Greenwich.                      *)
EXTENDS Planner

Place(from, to, switch) == [before |-> from, after |-> to, at |-> switch]
Zones == {
    Place(0, 0, 0),
    Place(-2, -1, 11), Place(-1, -2, 11),  \* west, at one or two o'clock
    Place(1, 2, 8), Place(2, 1, 8),        \* east
    Place(0, 1, 9), Place(1, 0, 9),        \* Greenwich
    Place(-1, -2, 17) }                    \* west, back at midnight
MidnightZones == {Place(-2, -1, 18)}       \* west, forward at midnight
GreenwichZone == {Place(0, 0, 0)}

Only(clocks) == [cron |-> {}, timeOfDay |-> clocks, window |-> {}]
Cron(at, delay) == {[clocks |-> at, every |-> delay]}
Between(from, to, step) == {[start |-> from, stop |-> to, interval |-> step]}
Definitions == {
    Only({0, 4}), Only({1}), Only({7}),
    [cron |-> {}, timeOfDay |-> {3}, window |-> Between(0, 7, 3)],
    [cron |-> {}, timeOfDay |-> {}, window |-> Between(1, 2, 1)],
    [cron |-> Cron({1, 4}, 0), timeOfDay |-> {4}, window |-> {}] }
NoonDefinition == {Only({4})}
EveryDefinition == {[cron |-> Cron({}, 3), timeOfDay |-> {}, window |-> {}]}
NeverDefinition == {[cron |-> Cron({}, 0), timeOfDay |-> {}, window |-> {}]}
FirstDay == 0..7
=============================================================================
