------------------------------ MODULE Planner ------------------------------
(* Planner.Due (internal/scheduler/scheduler.go) as the service loop calls  *)
(* it for one task: tick after tick over (after, through].                  *)
(*                                                                         *)
(* An instant is an integer, a day has Day of them, and a clock value is    *)
(* the number of instants since midnight.  A zone has one transition: the   *)
(* offset is `before` until the instant `at` and `after` from then on.      *)
(* What Go's time package and robfig/cron do is external to the repository. *)
EXTENDS Integers, Sequences, FiniteSets, FiniteSetsExt, SequencesExt

CONSTANTS
    Day,         \* the length of a day
    Horizon,     \* bound: the last instant
    MaxTick,     \* bound: the longest tick
    Zone,        \* the locations: [before, after, at]
    Definition,  \* the schedules: [cron, timeOfDay, window], see below
    Beginnings   \* the instants a service may start at

(* cron is a set of at most one [clocks, every]: a descriptor "@every" has  *)
(* a delay `every` > 0, any other expression fires at its clock values, at  *)
(* none of them when its date never comes.  window is a set of at most one  *)
(* [start, stop, interval].                                                 *)
ASSUME TimeAssumption ==
    /\ Day \in Nat \ {0} /\ Horizon \in Nat /\ MaxTick \in Nat \ {0}
    /\ Beginnings \subseteq 0..Horizon

(* No place is a whole day from Greenwich; parseClock reads times of a day.  *)
ASSUME ZoneAssumption ==
    \A z \in Zone :
        z.before \in (1 - Day)..(Day - 1) /\ z.after \in (1 - Day)..(Day - 1) /\ z.at \in Int

Clocks == 0..(Day - 1)

(* Config.Validate.                                                        *)
Valid(d) ==
    /\ d.cron # {} \/ d.timeOfDay # {} \/ d.window # {}
    /\ \A w \in d.window : w.start <= w.stop /\ w.interval > 0
    /\ \A c, e \in d.cron : c = e
    /\ \A w, v \in d.window : w = v

ASSUME DefinitionAssumption ==
    \A d \in Definition :
        /\ Valid(d) /\ d.timeOfDay \subseteq Clocks
        /\ \A c \in d.cron : c.every \in Nat
        /\ \A w \in d.window : w.start \in Clocks /\ w.stop \in Clocks /\ w.interval \in Nat

VARIABLES
    zone, def,   \* the location and the schedule of the task
    since,       \* history: where the cursor was when the service started
    lastTick,    \* the cursor: Due's after
    through,     \* Due's through
    phase,       \* "idle", or where in Due the loop is: "cron", "dates"
    next,        \* the variable of the loop: `next` of cron, `date` of dates
    times,       \* the occurrences collected so far
    fired        \* history: every execution Due has returned, in order

vars == <<zone, def, since, lastTick, through, phase, next, times, fired>>

Zero == -100 * Day \* time.Time{}
Dates == -2..(Horizon \div Day + 2)

-----------------------------------------------------------------------------
(* Go's calendar.                                                          *)
Offset(u) == IF u < zone.at THEN zone.before ELSE zone.after
DateOf(u) == (u + Offset(u)) \div Day
ClockOf(u) == (u + Offset(u)) % Day

(* time.Date: guess the offset from the wall clock, correct it once.        *)
TimeDate(date, clock) ==
    LET wall == date * Day + clock
        utc == wall - Offset(wall)
        samePeriod == (wall < zone.at) = (utc < zone.at)
    IN  IF Offset(wall) = 0 \/ samePeriod THEN utc ELSE wall - Offset(utc)

(* schedule.Next: five years of an expression's search are two days here.   *)
CronNext(cron, u) ==
    LET found == {v \in (u + 1)..(u + 2 * Day) : ClockOf(v) \in cron.clocks}
    IN  IF cron.every > 0 THEN u + cron.every
        ELSE IF found = {} THEN Zero ELSE Min(found)

-----------------------------------------------------------------------------
Midnight(u) == TimeDate(DateOf(u), 0)

OnDate(u, clock) == TimeDate(DateOf(u), clock)

DayLater(u) == u + Day \* mutant: date.Add(24 * time.Hour)

AddDate(u) == TimeDate(DateOf(u) + 1, ClockOf(u))

Window(u, w) ==
    LET start == OnDate(u, w.start)
    IN  {v \in start..OnDate(u, w.stop) : (v - start) % w.interval = 0}

OfDate(u) ==
    {OnDate(u, clock) : clock \in def.timeOfDay} \cup UNION {Window(u, w) : w \in def.window}

FromAfter(u) == lastTick <= u /\ u <= through \* mutant: after is included

InRange(u) == lastTick < u /\ u <= through

-----------------------------------------------------------------------------
Init ==
    /\ zone \in Zone /\ def \in Definition /\ since \in Beginnings
    /\ lastTick = since /\ through = since
    /\ phase = "idle" /\ next = Zero /\ times = {} /\ fired = <<>>

(* A tick: Due is called, its cron loop begins.  (When the clock has not     *)
(* moved Due returns nothing.)                                             *)
Tick ==
    /\ phase = "idle"
    /\ \E u \in (lastTick + 1)..Horizon : u - lastTick <= MaxTick /\ through' = u
    /\ phase' = IF def.cron = {} THEN "dates" ELSE "cron"
    /\ next' = IF def.cron = {} THEN Midnight(lastTick)
               ELSE CronNext(CHOOSE c \in def.cron : TRUE, lastTick)
    /\ UNCHANGED <<zone, def, since, lastTick, times, fired>>

AddFirst == \* mutant: the loop asks for the occurrence after `after` again
    /\ phase = "cron" /\ next <= through
    /\ times' = times \cup {u \in {next} : InRange(u)}
    /\ \E c \in def.cron : next' = CronNext(c, lastTick)
    /\ UNCHANGED <<zone, def, since, lastTick, through, phase, fired>>

AddCron ==
    /\ phase = "cron" /\ next <= through
    /\ times' = times \cup {u \in {next} : InRange(u)}
    /\ \E c \in def.cron : next' = CronNext(c, next)
    /\ UNCHANGED <<zone, def, since, lastTick, through, phase, fired>>

CronDone ==
    /\ phase = "cron" /\ next > through /\ phase' = "dates" /\ next' = Midnight(lastTick)
    /\ UNCHANGED <<zone, def, since, lastTick, through, times, fired>>

Scheduled == def.timeOfDay # {} \/ def.window # {}

BeforeLast == Scheduled /\ next < Midnight(through) \* mutant: date.Before(lastDate)

MoreDates == Scheduled /\ next <= Midnight(through)

(* An iteration of the date loop: the next date has the clock of this one.   *)
VisitDate ==
    /\ phase = "dates" /\ MoreDates
    /\ times' = times \cup {u \in OfDate(next) : InRange(u)}
    /\ next' = AddDate(next)
    /\ UNCHANGED <<zone, def, since, lastTick, through, phase, fired>>

(* The sort of Due: the i-th is the one with i - 1 before it.  (SetToSortSeq  *)
(* is made with an operator of TLC's that has no definition for a proof.)   *)
Sorted(S) ==
    [i \in 1..Cardinality(S) |-> CHOOSE u \in S : Cardinality({v \in S : v < u}) = i - 1]

KeepTimes == \* mutant: the map of occurrences belongs to the planner
    /\ phase = "dates" /\ ~MoreDates /\ phase' = "idle"
    /\ fired' = fired \o Sorted(times)
    /\ lastTick' = through /\ next' = Zero
    /\ UNCHANGED <<zone, def, since, through, times>>

(* The sort, and the cursor of the service.                                 *)
Return ==
    /\ phase = "dates" /\ ~MoreDates /\ phase' = "idle"
    /\ fired' = fired \o Sorted(times)
    /\ lastTick' = through /\ next' = Zero /\ times' = {}
    /\ UNCHANGED <<zone, def, since, through>>

Next == Tick \/ AddCron \/ CronDone \/ VisitDate \/ Return

Spec == Init /\ [][Next]_vars

(* The loops of Due never wait for anything.                                *)
FairSpec == Spec /\ WF_vars(AddCron \/ CronDone \/ VisitDate \/ Return)

-----------------------------------------------------------------------------
(* Every variable keeps its type, and between two calls nothing of Due is    *)
(* left behind.                                                            *)
TypeOK ==
    /\ zone \in Zone /\ def \in Definition /\ since \in Beginnings
    /\ lastTick \in since..Horizon /\ through \in lastTick..Horizon
    /\ phase \in {"idle", "cron", "dates"} /\ next \in Int
    /\ times \subseteq (lastTick + 1)..through
    /\ fired \in Seq(Int)

(* Over any sequence of ticks no instant is returned twice, not even at the  *)
(* boundary of two ticks or by two forms of one definition, and executions  *)
(* come in the order they are scheduled in.                                 *)
InOrderOnce == \A i, j \in 1..Len(fired) : i < j => fired[i] < fired[j]

Occurs(u) ==
    \/ \E c \in def.cron :
          IF c.every > 0 THEN (u - since) % c.every = 0 ELSE ClockOf(u) \in c.clocks
    \/ \E date \in Dates :
          \/ \E clock \in def.timeOfDay : u = TimeDate(date, clock)
          \/ \E w \in def.window :
                LET start == TimeDate(date, w.start)
                IN  u \in start..TimeDate(date, w.stop) /\ (u - start) % w.interval = 0

(* However time is cut into ticks, what was returned is what the definition  *)
(* means for (since, lastTick].                                             *)
DueExact == phase = "idle" => ToSet(fired) = {u \in (since + 1)..lastTick : Occurs(u)}

Reads(date, clock) ==
    {u \in (-2 * Day)..(Horizon + 2 * Day) : DateOf(u) = date /\ ClockOf(u) = clock}

(* A time of day fires once on each date on which the clock shows it, on the *)
(* dates of a transition too; when it is shown twice, once.                 *)
OnceADay ==
    phase = "idle" /\ def.cron = {} /\ def.window = {} =>
        \A date \in Dates, clock \in def.timeOfDay :
            LET shown == Reads(date, clock)
            IN  shown # {} /\ shown \subseteq (since + 1)..lastTick =>
                    Cardinality(shown \cap ToSet(fired)) = 1

(* Due returns: the loop of the service is not held up by one definition.   *)
DueEnds == phase # "idle" ~> phase = "idle"
=============================================================================
