---------------------------- MODULE CursorProofs ----------------------------
(* Proofs about which occurrences Service starts: what the cursor of the    *)
(* loop, lastTick, says of the past and of the next tick.                  *)
EXTENDS ServiceProofs

Between == {"select", "heartbeat", "list"} \* from one dispatch to the next
Visiting == {"dispatch", "reserve"}        \* while dispatch visits executions

-----------------------------------------------------------------------------
(* No occurrence is lost silently.                                         *)
Started(t, at) == \E i \in Goroutine : execution[i].task = t /\ execution[i].at = at
Told(t, at) == <<t, at>> \in announced \/ Started(t, at)
Left(t, at) == \E e \in todo : e.task = t /\ e.at = at
Wanted(t, at, end) == registry[t].active /\ since < at /\ at <= end.wall

LossInv ==
    ~cancelled =>
      \A t \in Task : \A at \in Schedule[t] :
        /\ pc \in Between /\ Wanted(t, at, lastTick) => Told(t, at)
        /\ pc \in Visiting /\ Wanted(t, at, now) => Told(t, at) \/ Left(t, at)

(* The past stays what it was.                                             *)
LEMMA HistoryGrows ==
    ASSUME TypeOK, [Next]_vars
    PROVE  /\ spawned' \in Nat /\ Goroutine \subseteq Goroutine' /\ announced \subseteq announced'
           /\ \A i \in Goroutine : execution'[i] = execution[i]
           /\ \A i \in Goroutine' \ Goroutine : execution'[i] \in todo
<1> USE DEF TypeOK, PoolTypeOK, Goroutine
<1>1. announced \subseteq announced'
  BY Frame DEF ListTasks, SkipOverlap
<1>2. CASE UNCHANGED <<goroutines, counters>> \/ Start \/ Crash
  BY <1>1, <1>2 DEF goroutines, Start, Crash
<1>3. ASSUME NEW e \in todo, Reserve(e)
      PROVE  /\ spawned' = spawned + 1
             /\ \A i \in Goroutine : execution'[i] = execution[i]
             /\ execution'[spawned + 1] = e
  BY <1>3 DEF Reserve, Spawn, Extend
<1>4. ASSUME NEW i \in Goroutine, Advance(i) PROVE UNCHANGED <<spawned, execution>>
  BY <1>4 DEF Advance, Acquire, Abandon, Begin, StartCommand, StartFails, Exit, Unwind,
     RecordRun, LeaveSlot, Release, Done, KillShell, Move
<1> QED
  BY <1>1, <1>2, <1>3, <1>4, Frame

LEMMA ToldStaysTold ==
    ASSUME TypeOK, [Next]_vars, NEW t, NEW at, Told(t, at)
    PROVE  Told(t, at)'
BY HistoryGrows DEF Told, Started

(* What a tick finds reaches from the cursor to the tick; what lies before  *)
(* the grace is announced.                                                 *)
LEMMA TickReachesBack ==
    ASSUME TypeOK, ListTasks, NEW t \in Task, NEW at \in Schedule[t],
           registry[t].active, lastTick.mono < now.mono, lastTick.wall < at, at <= now.wall
    PROVE  <<t, at>> \in announced' \/ Left(t, at)'
<1> DEFINE found == [task |-> t, at |-> at, overlap |-> registry[t].overlap]
<1> USE DEF TypeOK, LoopTypeOK, Time, Earliest, Gap, After
<1>1. Grace \in Nat /\ Grace >= 1 /\ at \in Nat
  BY GraceIsNat, ScheduleAssumption
<1>2. ASSUME NEW a \in Time, NEW b \in Time, a.mono < b.mono, Within(at, a, b)
      PROVE  found \in Due(a, b)
  BY <1>2 DEF Due
<1>3. PICK bad \in SUBSET Task :
        /\ todo' = {e \in Due(After, now) : e.task \notin bad}
        /\ announced' = announced \cup {<<e.task, e.at>> : e \in Logged(bad)}
  BY DEF ListTasks
<1>4. ASSUME found \in Due(After, now) PROVE <<t, at>> \in announced' \/ Left(t, at)'
  <2>1. CASE t \in bad
    <3>1. found \in Logged(bad)
      BY <1>4, <2>1 DEF Logged
    <3>2. <<found.task, found.at>> \in announced'
      BY <1>3, <3>1
    <3> QED
      BY <3>2
  <2>2. CASE t \notin bad
    <3>1. found \in todo'
      BY <1>3, <1>4, <2>2
    <3> QED
      BY <3>1 DEF Left
  <2> QED
    BY <2>1, <2>2
<1>5. CASE Gap /\ at <= Earliest.wall
  <2>1. found \in Logged(bad)
    BY <1>1, <1>2, <1>5 DEF Within, Logged
  <2>2. <<found.task, found.at>> \in announced'
    BY <1>3, <2>1
  <2> QED
    BY <2>2
<1>6. CASE ~Gap \/ ~(at <= Earliest.wall)
  <2>1. found \in Due(After, now)
    BY <1>1, <1>2, <1>6 DEF Within
  <2> QED
    BY <2>1, <1>4
<1> QED
  BY <1>5, <1>6

LEMMA LossLoop ==
    ASSUME TypeOK, LossInv, Loop, Next, ~cancelled
    PROVE  LossInv'
<1> SUFFICES ASSUME NEW t \in Task, NEW at \in Schedule[t]
             PROVE  /\ pc' \in Between /\ Wanted(t, at, lastTick)' => Told(t, at)'
                    /\ pc' \in Visiting /\ Wanted(t, at, now)'
                         => Told(t, at)' \/ Left(t, at)'
  BY DEF LossInv
<1>1. at \in Nat /\ now \in Time /\ lastTick \in Time /\ since \in Int /\ wall \in Nat
  BY ScheduleAssumption DEF TypeOK, LoopTypeOK, MachineTypeOK
<1>2. Told(t, at) => Told(t, at)'
  BY ToldStaysTold
<1>3. CASE ClearHeartbeat \/ Announce \/ NewTicker \/ CancelSeen \/ Drain \/ StopHeartbeat
  BY <1>3 DEF ClearHeartbeat, Announce, NewTicker, CancelSeen, Drain, StopHeartbeat, Goto,
     Between, Visiting
<1>4. CASE SetCursor \/ ListFails
  BY <1>1, <1>4 DEF SetCursor, ListFails, Goto, Between, Visiting, Wanted, Now, Time
<1>5. CASE Tick
  <2>1. Fired.wall \in Int /\ ~(Fired.wall < at /\ at <= Fired.wall)
    BY <1>1 DEF Fired, TypeOK, LoopTypeOK, MachineTypeOK
  <2>2. UNCHANGED <<registry, announced>> /\ pc = "select"
    BY <1>5 DEF Tick, Goto, work
  <2>3. CASE lastTick' = Fired /\ since' = Fired.wall /\ pc' = "select"
    BY <2>1, <2>3 DEF Wanted, Visiting
  <2>4. CASE UNCHANGED <<lastTick, since>> /\ pc' = "heartbeat"
    BY <1>2, <2>2, <2>4 DEF Between, Visiting, Wanted, LossInv
  <2> QED
    BY <1>5, <2>3, <2>4 DEF Tick, Goto
<1>6. CASE RefreshHeartbeat
  BY <1>2, <1>6 DEF RefreshHeartbeat, Goto, Between, Visiting, Wanted, LossInv, cursor
<1>7. CASE NextExecution
  BY <1>2, <1>7 DEF NextExecution, Goto, Between, Visiting, Wanted, Left, LossInv, cursor,
     work
<1>8. CASE Dispatched
  BY <1>2, <1>8 DEF Dispatched, Goto, Pending, Reached, Between, Visiting, Wanted, Left,
     LossInv
<1>9. ASSUME NEW e \in todo, Reserve(e) \/ SkipOverlap(e)
      PROVE  Wanted(t, at, now)' => Told(t, at)' \/ Left(t, at)'
  <2> SUFFICES ASSUME Wanted(t, at, now)' PROVE Told(t, at)' \/ Left(t, at)'
    OBVIOUS
  <2>1. Told(t, at) \/ Left(t, at)
    BY <1>9 DEF Reserve, SkipOverlap, Goto, Visiting, Wanted, LossInv, cursor
  <2>2. e.task = t /\ e.at = at => Told(t, at)'
    <3>1. CASE Reserve(e)
      <4>1. spawned \in Nat /\ spawned' = spawned + 1 /\ execution'[spawned + 1] = e
        BY <3>1 DEF Reserve, Spawn, Extend, Goroutine, TypeOK, PoolTypeOK
      <4> QED
        BY <4>1 DEF Told, Started, Goroutine
    <3>2. CASE SkipOverlap(e)
      BY <3>2 DEF SkipOverlap, Told
    <3> QED
      BY <1>9, <3>1, <3>2
  <2>3. todo' = todo \ {e}
    BY <1>9 DEF Reserve, SkipOverlap
  <2> QED
    BY <1>2, <2>1, <2>2, <2>3 DEF Left
<1>10. ASSUME NEW e \in todo, Reserve(e) \/ SkipOverlap(e) PROVE pc' \notin Between
  BY <1>10 DEF Reserve, SkipOverlap, Goto, Between
<1>11. CASE ListTasks
  <2> SUFFICES ASSUME Wanted(t, at, now)' PROVE Told(t, at)' \/ Left(t, at)'
    BY <1>11 DEF ListTasks, Goto, Between
  <2>1. UNCHANGED <<now, lastTick, registry>> /\ pc = "list"
    BY <1>11 DEF ListTasks, Goto
  <2>2. lastTick.mono < now.mono /\ UNCHANGED since
    BY <1>1, <1>11, <2>1 DEF ListTasks, Wanted, Time
  <2>3. CASE at <= lastTick.wall
    BY <1>2, <2>1, <2>2, <2>3 DEF Wanted, LossInv, Between
  <2>4. CASE lastTick.wall < at
    BY <1>11, <2>1, <2>2, <2>4, TickReachesBack DEF Wanted, Told
  <2> QED
    BY <1>1, <2>3, <2>4 DEF Time
<1> QED
  BY <1>3, <1>4, <1>5, <1>6, <1>7, <1>8, <1>9, <1>10, <1>11 DEF Loop

LEMMA LossStep == TypeOK /\ LossInv /\ [Next]_vars => LossInv'
<1> SUFFICES ASSUME TypeOK, LossInv, [Next]_vars, ~cancelled' PROVE LossInv'
  BY DEF LossInv
<1>1. CASE Start \/ Crash
  BY <1>1 DEF Start, Crash, LossInv, Between, Visiting
<1>2. CASE Loop /\ Next
  <2>1. ~cancelled
    BY <1>2, Frame DEF Start, Cancel, Loop, Goto, ClearHeartbeat, Announce, NewTicker,
       SetCursor, Tick, RefreshHeartbeat, ListFails, ListTasks, NextExecution, Dispatched,
       Reserve, SkipOverlap, CancelSeen, Drain, StopHeartbeat
  <2> QED
    BY <1>2, <2>1, LossLoop
<1>3. CASE Cancel
  BY <1>3 DEF Cancel
<1>4. ASSUME NEW u \in Editable, Edit(u) PROVE LossInv'
  <2>1. UNCHANGED <<pc, lastTick, now, todo, cancelled>>
    BY <1>4 DEF Edit, work
  <2>2. ASSUME NEW t \in Task, NEW at \in Schedule[t]
        PROVE  /\ pc \in Between /\ Wanted(t, at, lastTick)' => Wanted(t, at, lastTick)
               /\ pc \in Visiting /\ Wanted(t, at, now)' => Wanted(t, at, now)
    <3>1. at \in Nat /\ now \in Time /\ lastTick \in Time
      BY ScheduleAssumption DEF TypeOK, LoopTypeOK
    <3>2. CASE UNCHANGED since /\ registry'[t].active = registry[t].active
      BY <2>1, <3>2 DEF Wanted
    <3>3. CASE since' = IF pc \in Visiting THEN now.wall ELSE lastTick.wall
      BY <2>1, <3>1, <3>3 DEF Wanted, Time, Between, Visiting
    <3> QED
      BY <1>4, <3>2, <3>3 DEF Edit, Visiting, TypeOK, RecordTypeOK
  <2>3. \A t \in Task : \A at \in Schedule[t] :
          (Told(t, at) => Told(t, at)') /\ (Left(t, at) <=> Left(t, at)')
    BY <2>1, ToldStaysTold DEF Left
  <2> QED
    BY <2>1, <2>2, <2>3 DEF LossInv
<1>5. CASE UNCHANGED <<pc, lastTick, now, since, todo, cancelled, registry>>
  <2>1. \A t \in Task : \A at \in Schedule[t] :
          (Told(t, at) => Told(t, at)') /\ (Left(t, at) <=> Left(t, at)')
    BY <1>5, ToldStaysTold DEF Left
  <2> QED
    BY <1>5, <2>1 DEF LossInv, Wanted
<1>6. ASSUME NEW i \in Goroutine, Advance(i)
      PROVE  UNCHANGED <<pc, lastTick, now, since, todo, cancelled, registry>>
  BY <1>6 DEF Advance, Acquire, Abandon, Begin, StartCommand, StartFails, Exit, Unwind,
     RecordRun, LeaveSlot, Release, Done, KillShell, Move, cursor
<1>7. CASE \/ Elapse \/ Suspend \/ SetBack \/ UNCHANGED vars
           \/ \E i \in survivors : SurvivorEnds(i)
  BY <1>5, <1>7 DEF Elapse, Suspend, SetBack, SurvivorEnds, Outside, cursor, work, vars
<1> QED
  BY <1>1, <1>2, <1>3, <1>4, <1>5, <1>6, <1>7 DEF Next, Environment

(* Between ticks, every occurrence up to the cursor, of an enabled task, has *)
(* been started or is in the log, whatever clocks, database and users did:  *)
(* only a start, a tick not after the cursor, a failed read of the tasks,   *)
(* or an enable moves the time from which this counts (service.go:65-93).   *)
THEOREM NothingIsLostSilently == Spec => []NoSilentLoss
<1>1. Init => LossInv
  BY DEF Init, LossInv, Between, Visiting
<1>2. LossInv => NoSilentLoss
  BY DEF LossInv, NoSilentLoss, Between, Wanted, Told, Started
<1> QED
  BY <1>1, <1>2, TypeInit, TypeStep, LossStep, PTL DEF Spec

-----------------------------------------------------------------------------
(* The two clocks.  How far the wall clock of a reading is ahead of its      *)
(* monotonic one changes when the machine sleeps or is set, and only then. *)
Lead(reading) == reading.wall - reading.mono

LEMMA ClocksStep ==
    ASSUME TypeOK, [Next]_vars
    PROVE  /\ wall' \in Nat /\ mono' \in Nat /\ mono <= mono'
           /\ UNCHANGED clocks \/ UNCHANGED <<pc, cursor, work>>
           /\ "suspend" \notin Faults => Lead(Now)' <= Lead(Now)
           /\ "setback" \notin Faults => Lead(Now) <= Lead(Now)' /\ wall <= wall'
<1> USE DEF TypeOK, MachineTypeOK, Lead, Now, clocks
<1>1. CASE Elapse
  BY <1>1 DEF Elapse, Outside
<1>2. CASE Suspend
  BY <1>2 DEF Suspend, Outside, Fault
<1>3. CASE SetBack
  BY <1>3 DEF SetBack, Outside, Fault
<1>4. CASE UNCHANGED clocks
  BY <1>4
<1> QED
  BY <1>1, <1>2, <1>3, <1>4, Frame

(* Where the loop and its readings go; each other step leaves them alone.   *)
Live == {"cursor"} \cup Between \cup Visiting

LEMMA CursorMoves ==
    ASSUME [Next]_vars
    PROVE  \/ UNCHANGED <<pc, nextFire, lastTick, now, todo>>
           \/ /\ pc' \notin Live /\ UNCHANGED <<nextFire, lastTick, now>>
              /\ todo' = {} \/ (pc \notin Visiting /\ UNCHANGED todo)
           \/ /\ pc = "ticker" /\ pc' = "cursor" /\ nextFire' = mono + 1
              /\ UNCHANGED <<lastTick, now, todo>>
           \/ /\ pc = "cursor" /\ pc' = "select" /\ lastTick' = Now
              /\ UNCHANGED <<nextFire, now, todo>>
           \/ /\ pc = "select" /\ mono >= nextFire /\ nextFire' = mono + 1
              /\ UNCHANGED todo
              /\ \/ pc' = "select" /\ lastTick' = Fired /\ UNCHANGED now
                 \/ /\ pc' = "heartbeat" /\ now' = Fired /\ Fired.mono >= lastTick.mono
                    /\ UNCHANGED lastTick
           \/ /\ pc = "heartbeat" /\ pc' = "list"
              /\ UNCHANGED <<nextFire, lastTick, now, todo>>
           \/ /\ pc = "list" /\ pc' = "select" /\ lastTick' = now
              /\ UNCHANGED <<nextFire, now, todo>>
           \/ /\ pc = "list" /\ pc' = "dispatch" /\ todo' \subseteq Due(After, now)
              /\ UNCHANGED <<nextFire, lastTick, now>>
           \/ /\ pc \in Visiting /\ pc' \in Visiting
              /\ UNCHANGED <<nextFire, lastTick, now>>
              /\ UNCHANGED todo \/ \E e \in todo : todo' = todo \ {e}
           \/ /\ pc = "dispatch" /\ pc' = "select" /\ lastTick' = now /\ todo' = {}
              /\ UNCHANGED <<nextFire, now>>
<1> USE DEF Live, Between, Visiting
<1>1. CASE Loop
  <2>1. CASE ClearHeartbeat \/ Announce \/ CancelSeen \/ Drain \/ StopHeartbeat
    BY <2>1 DEF ClearHeartbeat, Announce, CancelSeen, Drain, StopHeartbeat, Goto, cursor, work
  <2>2. CASE NewTicker \/ SetCursor \/ ListFails
    BY <2>2 DEF NewTicker, SetCursor, ListFails, Goto, work
  <2>3. CASE Tick
    BY <2>3 DEF Tick, Goto, work
  <2>4. CASE RefreshHeartbeat \/ NextExecution
    BY <2>4 DEF RefreshHeartbeat, NextExecution, Goto, cursor, work
  <2>5. CASE ListTasks
    BY <2>5 DEF ListTasks, Goto
  <2>6. CASE Dispatched
    BY <2>6 DEF Dispatched, Goto, Reached
  <2>7. ASSUME NEW e \in todo, Reserve(e) \/ SkipOverlap(e)
        PROVE  /\ pc \in Visiting /\ pc' \in Visiting /\ todo' = todo \ {e}
               /\ UNCHANGED <<nextFire, lastTick, now>>
    BY <2>7 DEF Reserve, SkipOverlap, Goto, cursor
  <2> QED
    BY <1>1, <2>1, <2>2, <2>3, <2>4, <2>5, <2>6, <2>7 DEF Loop
<1>2. CASE Start \/ Crash
  BY <1>2 DEF Start, Crash, cursor
<1>3. CASE Environment \/ UNCHANGED vars
  BY <1>2, <1>3 DEF Environment, Elapse, Suspend, SetBack, Cancel, Edit, SurvivorEnds,
     Outside, cursor, work, vars
<1>4. ASSUME NEW i \in Goroutine, Advance(i)
      PROVE  UNCHANGED <<pc, nextFire, lastTick, now, todo>>
  BY <1>4 DEF Advance, Acquire, Abandon, Begin, StartCommand, StartFails, Exit, Unwind,
     RecordRun, LeaveSlot, Release, Done, KillShell, Move, cursor
<1> QED
  BY <1>1, <1>2, <1>3, <1>4 DEF Next

LEMMA FiredIsTyped == TypeOK => Fired \in Time /\ Now \in Time /\ Lead(Fired) = Lead(Now)
BY DEF TypeOK, MachineTypeOK, LoopTypeOK, Fired, Now, Time, Lead

-----------------------------------------------------------------------------
(* The misfire grace.  Without a sleep the wall clock of a later reading is *)
(* not further ahead, so that no gap on the monotonic clock is none on the  *)
(* wall clock.                                                             *)
MisfireInv ==
    /\ Lead(Now) <= Lead(lastTick) /\ Lead(Now) <= Lead(now)
    /\ pc \in {"heartbeat", "list"} => Lead(now) <= Lead(lastTick)
    /\ todo # {} => pc \in Visiting
    /\ MisfireSkipped

LEMMA DueWithinGrace ==
    ASSUME TypeOK, Lead(now) <= Lead(lastTick), NEW e \in Due(After, now)
    PROVE  e.at > now.wall - Grace
<1> USE DEF TypeOK, LoopTypeOK, Time
<1>1. e.at \in Nat /\ After.wall < e.at
  BY ScheduleAssumption DEF Due, Within
<1>2. After.wall \in Int /\ After.wall >= now.wall - Grace
  BY GraceIsNat DEF After, Earliest, Gap, Lead
<1> QED
  BY <1>1, <1>2, GraceIsNat

LEMMA MisfireStep ==
    ASSUME "suspend" \notin Faults, TypeOK, MisfireInv, [Next]_vars
    PROVE  MisfireInv'
<1> USE DEF MisfireInv, Visiting, Live, Between
<1>1. /\ Lead(Now) \in Int /\ Lead(Now)' \in Int /\ Lead(lastTick) \in Int
      /\ Lead(now) \in Int /\ Lead(Now)' <= Lead(Now)
  BY ClocksStep DEF TypeOK, MachineTypeOK, LoopTypeOK, Time, Lead, Now
<1>2. Lead(Fired) = Lead(Now)
  BY FiredIsTyped
<1>3. Lead(Now)' <= Lead(lastTick') /\ Lead(Now)' <= Lead(now')
  BY <1>1, <1>2, CursorMoves
<1>4. pc' \in {"heartbeat", "list"} => Lead(now') <= Lead(lastTick')
  BY <1>1, <1>2, CursorMoves
<1>5. todo' # {} => pc' \in Visiting
  BY CursorMoves
<1>6. MisfireSkipped'
  <2>1. CASE todo' \subseteq Due(After, now) /\ UNCHANGED now /\ pc = "list"
    BY <2>1, DueWithinGrace DEF MisfireSkipped
  <2>2. CASE todo' \subseteq todo /\ (UNCHANGED now \/ todo' = {})
    BY <2>2 DEF MisfireSkipped
  <2> QED
    BY <2>1, <2>2, CursorMoves
<1> QED
  BY <1>3, <1>4, <1>5, <1>6

(* On a machine that does not sleep, no execution older than the misfire    *)
(* grace is ever handed to dispatch, however late the tick, and also when   *)
(* the clock is set back (service.go:87-91; architecture.md:64).           *)
THEOREM LateOnesAreSkipped ==
    ASSUME "suspend" \notin Faults
    PROVE  Spec => []MisfireSkipped
<1>1. Init => MisfireInv
  BY DEF Init, MisfireInv, MisfireSkipped, Lead, Now
<1>2. MisfireInv => MisfireSkipped
  BY DEF MisfireInv
<1> QED
  BY <1>1, <1>2, TypeInit, TypeStep, MisfireStep, PTL DEF Spec

-----------------------------------------------------------------------------
(* At most once.  Every occurrence started so far lies at or before         *)
(* something the next range cannot reach back beyond: the cursor between   *)
(* ticks, the tick itself while it is dispatched, and, because a start or a *)
(* tick not after the cursor moves it back, the next value of the ticker.   *)
StartedBy(end) == \A i \in Goroutine : execution[i].at <= end

ReadingsInv ==
    /\ Lead(lastTick) <= Lead(Now) /\ Lead(now) <= Lead(Now)
    /\ pc \in {"heartbeat", "list"} => lastTick.mono <= now.mono /\ Lead(lastTick) <= Lead(now)
    /\ pc \in {"heartbeat", "list"} \cup Visiting => now.mono <= mono /\ now.mono <= nextFire

PastInv ==
    /\ StartedBy(wall)
    /\ pc \in Live => StartedBy(nextFire + Lead(Now))
    /\ pc \in Between => StartedBy(lastTick.wall)
    /\ pc \in Visiting => StartedBy(now.wall)

SameOccurrence(e, f) == e.task = f.task /\ e.at = f.at

TodoInv ==
    /\ todo # {} => pc \in Visiting
    /\ \A e \in todo : e.at <= now.wall
    /\ \A e, f \in todo : SameOccurrence(e, f) => e = f
    /\ \A e \in todo : \A i \in Goroutine : ~SameOccurrence(e, execution[i])

OnceInv == ReadingsInv /\ PastInv /\ TodoInv /\ AtMostOnce

LEMMA ReadingsStep ==
    ASSUME "setback" \notin Faults, TypeOK, ReadingsInv, [Next]_vars
    PROVE  ReadingsInv'
<1> USE DEF ReadingsInv, Visiting, Live, Between
<1>1. /\ Lead(Now) \in Int /\ Lead(Now)' \in Int /\ Lead(lastTick) \in Int
      /\ Lead(now) \in Int /\ Lead(Now) <= Lead(Now)'
      /\ mono \in Nat /\ mono' \in Nat /\ mono <= mono' /\ nextFire \in Nat
      /\ now.mono \in Int /\ lastTick.mono \in Int
  BY ClocksStep DEF TypeOK, MachineTypeOK, LoopTypeOK, Time, Lead, Now
<1>2. Lead(Fired) = Lead(Now) /\ Fired.mono = nextFire
  BY FiredIsTyped DEF Fired
<1>3. Lead(lastTick') <= Lead(Now)' /\ Lead(now') <= Lead(Now)'
  BY <1>1, <1>2, CursorMoves
<1>4. pc' \in {"heartbeat", "list"}
        => lastTick'.mono <= now'.mono /\ Lead(lastTick') <= Lead(now')
  BY <1>1, <1>2, CursorMoves
<1>5. pc' \in {"heartbeat", "list"} \cup Visiting
        => now'.mono <= mono' /\ now'.mono <= nextFire'
  BY <1>1, <1>2, CursorMoves
<1> QED
  BY <1>3, <1>4, <1>5

(* What was started stays below a bound that does not sink, unless dispatch *)
(* starts something later.                                                 *)
LEMMA StartedByStep ==
    ASSUME TypeOK, [Next]_vars, NEW x \in Int, NEW y \in Int, x <= y, StartedBy(x),
           \A e \in todo : e.at <= y
    PROVE  \A i \in Goroutine' : execution'[i].at <= y
<1>1. \A i \in Goroutine : execution[i].at \in Nat
  BY DEF TypeOK, PoolTypeOK, Execution
<1> QED
  BY <1>1, HistoryGrows DEF StartedBy

LEMMA PastStep ==
    ASSUME "setback" \notin Faults, TypeOK, ReadingsInv, PastInv, TodoInv, [Next]_vars
    PROVE  PastInv'
<1>1. /\ Lead(Now) \in Int /\ Lead(Now)' \in Int /\ Lead(Now) <= Lead(Now)'
      /\ wall \in Nat /\ wall' \in Nat /\ wall <= wall' /\ mono \in Nat /\ nextFire \in Nat
      /\ mono' \in Nat /\ nextFire' \in Nat
      /\ now \in Time /\ lastTick \in Time /\ now.wall \in Int /\ lastTick.wall \in Int
      /\ \A e \in todo : e.at \in Nat
  BY ClocksStep, TypeStep DEF TypeOK, MachineTypeOK, LoopTypeOK, Time, Lead, Now, Execution
<1>2. Fired.wall = nextFire + Lead(Now) /\ Now.wall = wall /\ Lead(Now) = wall - mono
  BY <1>1 DEF Fired, Lead, Now
(* What dispatch has in hand is older than the clocks and the next tick.   *)
<1>3. \A e \in todo : e.at <= now.wall /\ e.at <= wall /\ e.at <= nextFire + Lead(Now)
  <2> SUFFICES ASSUME NEW e \in todo
               PROVE  e.at <= now.wall /\ e.at <= wall /\ e.at <= nextFire + Lead(Now)
    OBVIOUS
  <2>1. pc \in Visiting /\ e.at <= now.wall
    BY DEF TodoInv
  <2>2. now.wall = now.mono + Lead(now) /\ now.mono \in Int /\ Lead(now) <= Lead(Now)
    BY <1>1 DEF Lead, Time, ReadingsInv
  <2>3. now.mono <= mono /\ now.mono <= nextFire
    BY <2>1 DEF ReadingsInv
  <2> QED
    BY <1>1, <1>2, <2>1, <2>2, <2>3 DEF Lead, Time
<1>4. \A i \in Goroutine' : execution'[i].at <= wall'
  <2>1. StartedBy(wall)
    BY DEF PastInv
  <2>2. \A e \in todo : e.at <= wall'
    BY <1>1, <1>3
  <2>3. wall \in Int /\ wall' \in Int /\ wall <= wall'
    BY <1>1
  <2> HIDE DEF PastInv
  <2> QED
    BY <2>1, <2>2, <2>3, StartedByStep
<1>5. ASSUME pc' \in Live PROVE \A i \in Goroutine' : execution'[i].at <= nextFire' + Lead(Now)'
  <2>1. nextFire' + Lead(Now)' \in Int
    BY <1>1
  <2>2. CASE pc \in Live /\ nextFire <= nextFire'
    BY <1>1, <1>3, <2>1, <2>2, StartedByStep DEF PastInv
  <2>3. CASE nextFire' = mono + 1
    <3>1. wall <= nextFire' + Lead(Now)'
      BY <1>1, <1>2, <2>3
    <3> QED
      BY <1>1, <1>3, <2>1, <3>1, StartedByStep DEF PastInv
  <2>4. (pc \in Live /\ nextFire <= nextFire') \/ nextFire' = mono + 1
    BY <1>1, <1>5, CursorMoves DEF Live, Between, Visiting
  <2> QED
    BY <2>2, <2>3, <2>4
<1>6. ASSUME pc' \in Between PROVE \A i \in Goroutine' : execution'[i].at <= lastTick'.wall
  <2>1. CASE UNCHANGED lastTick /\ pc \in Between
    BY <1>1, <2>1, StartedByStep DEF PastInv, TodoInv, Between, Visiting
  <2>2. CASE lastTick' = Now
    BY <1>1, <1>2, <1>3, <2>2, StartedByStep DEF PastInv
  <2>3. CASE pc = "select" /\ lastTick' = Fired
    BY <1>1, <1>2, <1>3, <2>3, StartedByStep DEF PastInv, Live, Between
  <2>4. CASE pc = "list" /\ lastTick' = now
    <3>1. lastTick.wall <= now.wall
      BY <2>4, <1>1 DEF ReadingsInv, Lead, Time
    <3> QED
      BY <1>1, <1>3, <2>4, <3>1, StartedByStep DEF PastInv, Between
  <2>5. CASE pc = "dispatch" /\ lastTick' = now
    BY <1>1, <1>3, <2>5, StartedByStep DEF PastInv, Visiting
  <2> QED
    BY <1>6, <2>1, <2>2, <2>3, <2>4, <2>5, CursorMoves DEF Live, Between, Visiting
<1>7. ASSUME pc' \in Visiting PROVE \A i \in Goroutine' : execution'[i].at <= now'.wall
  <2>1. CASE UNCHANGED now /\ pc \in Visiting
    BY <1>1, <1>3, <2>1, StartedByStep DEF PastInv
  <2>2. CASE UNCHANGED now /\ pc = "list"
    <3>1. lastTick.wall <= now.wall
      BY <2>2, <1>1 DEF ReadingsInv, Lead, Time
    <3> QED
      BY <1>1, <1>3, <2>2, <3>1, StartedByStep DEF PastInv, Between
  <2> QED
    BY <1>7, <2>1, <2>2, CursorMoves DEF Live, Between, Visiting
<1> QED
  BY <1>4, <1>5, <1>6, <1>7 DEF PastInv, StartedBy

LEMMA DueIsNew ==
    ASSUME TypeOK, ReadingsInv, PastInv, pc = "list", NEW e \in Due(After, now)
    PROVE  /\ e.at <= now.wall /\ \A i \in Goroutine : execution[i].at < e.at
           /\ \A f \in Due(After, now) : SameOccurrence(e, f) => e = f
<1> USE DEF TypeOK, LoopTypeOK, Time
<1>1. e.at \in Nat /\ After.wall < e.at /\ e.at <= now.wall
  BY ScheduleAssumption DEF Due, Within
<1>2. After.wall \in Int /\ lastTick.wall <= After.wall
  BY GraceIsNat DEF After, Earliest, Gap, Lead, ReadingsInv
<1>3. ASSUME NEW i \in Goroutine PROVE execution[i].at < e.at
  <2>1. execution[i].at \in Nat /\ execution[i].at <= lastTick.wall
    BY DEF PastInv, StartedBy, Between, PoolTypeOK, Execution
  <2> QED
    BY <1>1, <1>2, <2>1
<1>4. \A f \in Due(After, now) : SameOccurrence(e, f) => e = f
  BY DEF Due, SameOccurrence
<1> QED
  BY <1>1, <1>3, <1>4

(* Only Reserve starts something, and dispatch strikes it off.             *)
LEMMA Spawns ==
    ASSUME TypeOK, [Next]_vars
    PROVE  \/ UNCHANGED <<spawned, execution>>
           \/ \E e \in todo :
                /\ todo' = todo \ {e} /\ UNCHANGED now
                /\ spawned' = spawned + 1 /\ execution'[spawned + 1] = e
<1>1. CASE UNCHANGED <<goroutines, counters>> \/ Start \/ Crash
  BY <1>1 DEF goroutines, Start, Crash
<1>2. ASSUME NEW e \in todo, Reserve(e)
      PROVE  /\ todo' = todo \ {e} /\ UNCHANGED now
             /\ spawned' = spawned + 1 /\ execution'[spawned + 1] = e
  BY <1>2 DEF Reserve, Spawn, Extend, Goroutine, cursor, TypeOK, PoolTypeOK
<1>3. ASSUME NEW i \in Goroutine, Advance(i) PROVE UNCHANGED <<spawned, execution>>
  BY <1>3 DEF Advance, Acquire, Abandon, Begin, StartCommand, StartFails, Exit, Unwind,
     RecordRun, LeaveSlot, Release, Done, KillShell, Move
<1> QED
  BY <1>1, <1>2, <1>3, Frame

LEMMA TodoStep ==
    ASSUME TypeOK, ReadingsInv, PastInv, TodoInv, [Next]_vars
    PROVE  TodoInv'
<1>1. todo' # {} => pc' \in Visiting
  BY CursorMoves DEF TodoInv, Visiting, Live, Between
<1>2. CASE todo' = {}
  BY <1>1, <1>2 DEF TodoInv
<1>3. CASE todo' \subseteq Due(After, now) /\ pc = "list" /\ UNCHANGED now
  <2>1. Goroutine' = Goroutine /\ UNCHANGED execution
    <3>1. todo = {}
      BY <1>3 DEF TodoInv, Visiting
    <3> QED
      BY <3>1, Spawns DEF Goroutine
  <2>2. \A i \in Goroutine : execution[i].at \in Nat
    BY DEF TypeOK, PoolTypeOK, Execution
  <2>3. \A e \in todo' : \A i \in Goroutine' : ~SameOccurrence(e, execution'[i])
    BY <1>3, <2>1, <2>2, DueIsNew DEF SameOccurrence
  <2>4. \A e \in todo' : e.at <= now'.wall
    BY <1>3, DueIsNew
  <2>5. \A e, f \in todo' : SameOccurrence(e, f) => e = f
    BY <1>3, DueIsNew
  <2> QED
    BY <1>1, <2>3, <2>4, <2>5 DEF TodoInv
<1>4. CASE todo' \subseteq todo /\ UNCHANGED now
  <2>1. \A e \in todo' : \A i \in Goroutine' : ~SameOccurrence(e, execution'[i])
    <3> SUFFICES ASSUME NEW e \in todo', NEW i \in Goroutine'
                 PROVE  ~SameOccurrence(e, execution'[i])
      OBVIOUS
    <3>1. CASE i \in Goroutine
      BY <1>4, <3>1, HistoryGrows DEF TodoInv
    <3>2. CASE i \notin Goroutine
      <4>1. PICK f \in todo : todo' = todo \ {f} /\ execution'[i] = f
        BY <3>2, Spawns DEF Goroutine, TypeOK, PoolTypeOK
      <4> QED
        BY <4>1 DEF TodoInv
    <3> QED
      BY <3>1, <3>2
  <2>2. \A e \in todo' : e.at <= now'.wall
    BY <1>4 DEF TodoInv
  <2>3. \A e, f \in todo' : SameOccurrence(e, f) => e = f
    BY <1>4 DEF TodoInv
  <2> QED
    BY <1>1, <2>1, <2>2, <2>3 DEF TodoInv
<1>5. \/ todo' = {} \/ (todo' \subseteq todo /\ UNCHANGED now)
      \/ todo' \subseteq Due(After, now) /\ pc = "list" /\ UNCHANGED now
      \/ UNCHANGED todo /\ pc = "select"
  BY CursorMoves
<1> QED
  BY <1>2, <1>3, <1>4, <1>5 DEF TodoInv, Visiting

LEMMA OnceStep ==
    ASSUME "setback" \notin Faults, TypeOK, OnceInv, [Next]_vars
    PROVE  OnceInv'
<1> USE DEF OnceInv
<1>1. ReadingsInv' /\ PastInv' /\ TodoInv'
  BY ReadingsStep, PastStep, TodoStep
<1>2. ASSUME UNCHANGED <<spawned, execution>> PROVE AtMostOnce'
  BY <1>2 DEF AtMostOnce, Goroutine, Same
<1>3. ASSUME NEW e \in todo, spawned' = spawned + 1, execution'[spawned + 1] = e
      PROVE  AtMostOnce'
  <2>1. /\ Goroutine' = Goroutine \cup {spawned + 1}
        /\ \A i \in Goroutine : execution'[i] = execution[i] /\ ~SameOccurrence(e, execution[i])
    BY <1>3, HistoryGrows DEF Goroutine, TypeOK, PoolTypeOK, TodoInv
  <2> SUFFICES ASSUME NEW i \in Goroutine', NEW j \in Goroutine', i # j,
                      execution'[i].task = execution'[j].task
               PROVE  execution'[i].at # execution'[j].at
    BY DEF AtMostOnce, Same
  <2>2. CASE i \in Goroutine /\ j \in Goroutine
    BY <2>1, <2>2 DEF AtMostOnce, Same
  <2>3. CASE i = spawned + 1 \/ j = spawned + 1
    BY <1>3, <2>1, <2>3 DEF SameOccurrence
  <2> QED
    BY <2>1, <2>2, <2>3
<1> QED
  BY <1>1, <1>2, <1>3, Spawns

(* No occurrence is started twice, through late ticks, sleeps of the machine, *)
(* failed reads, crashes and restarts, as long as nobody sets the clock     *)
(* back (service.go:65-93; scheduler.go:23-24).                            *)
THEOREM StartedAtMostOnce ==
    ASSUME "setback" \notin Faults
    PROVE  Spec => []AtMostOnce
<1>1. Init => OnceInv
  <2> SUFFICES ASSUME Init PROVE OnceInv
    OBVIOUS
  <2>1. Goroutine = {}
    BY DEF Init, Goroutine
  <2>2. ReadingsInv
    BY DEF Init, ReadingsInv, Lead, Now, Visiting
  <2>3. PastInv /\ AtMostOnce
    BY <2>1 DEF PastInv, StartedBy, AtMostOnce
  <2>4. TodoInv
    BY DEF Init, TodoInv
  <2> QED
    BY <2>2, <2>3, <2>4 DEF OnceInv
<1>2. OnceInv => AtMostOnce
  BY DEF OnceInv
<1> QED
  BY <1>1, <1>2, TypeInit, TypeStep, OnceStep, PTL DEF Spec
=============================================================================
