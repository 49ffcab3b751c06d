--------------------------- MODULE ServiceProofs ---------------------------
(* Proofs about Service for all values of its constants.                   *)
EXTENDS Service, FiniteSetTheorems, TLAPS

-----------------------------------------------------------------------------
(* Which steps change which variables.  The lemmas below read the next-state *)
(* relation through this one.                                              *)
LEMMA Frame ==
    ASSUME [Next]_vars
    PROVE  /\ UNCHANGED clocks \/ Elapse \/ Suspend \/ SetBack
           /\ UNCHANGED cancelled \/ Start \/ Cancel
           /\ UNCHANGED <<startedAt, starts, inherited>> \/ Start
           /\ UNCHANGED faults \/ faults' = faults + 1
           /\ UNCHANGED registry \/ \E t \in Editable : Edit(t)
           /\ \/ UNCHANGED heartbeat
              \/ ClearHeartbeat \/ Announce \/ RefreshHeartbeat \/ StopHeartbeat
           /\ UNCHANGED announced \/ ListTasks \/ \E e \in todo : SkipOverlap(e)
           /\ UNCHANGED rows \/ \E i \in Goroutine : RecordRun(i)
           /\ UNCHANGED begun \/ \E i \in Goroutine : Acquire(i)
           /\ survivors' \subseteq survivors \/ Crash \/ \E i \in Goroutine : KillShell(i)
           /\ \/ UNCHANGED <<goroutines, counters>> \/ Start \/ Crash
              \/ \E e \in todo : Reserve(e)
              \/ \E i \in Goroutine : Advance(i)
           /\ \/ UNCHANGED cursor \/ NewTicker \/ SetCursor \/ Tick
              \/ ListFails \/ ListTasks \/ Dispatched \/ \E t \in Editable : Edit(t)
           /\ \/ UNCHANGED todo \/ ListTasks \/ Dispatched \/ Crash
              \/ \E e \in todo : Reserve(e) \/ SkipOverlap(e)
           /\ UNCHANGED pc \/ Start \/ Loop \/ Crash
<1> USE DEF Next, vars, cursor, work, goroutines, counters, clocks, budget
<1>1. CASE UNCHANGED vars
  BY <1>1
<1>2. CASE Start
  BY <1>2 DEF Start
<1>3. CASE Loop
  BY <1>3 DEF Loop, Goto, ClearHeartbeat, Announce, NewTicker, SetCursor, Tick,
     RefreshHeartbeat, ListFails, ListTasks, NextExecution, Dispatched, Reserve,
     SkipOverlap, CancelSeen, Drain, StopHeartbeat, CallWorks, CallFails, StoreWorks,
     StoreFault, Unplanned, Fault
<1>4. CASE Environment
  BY <1>4 DEF Environment, Elapse, Suspend, SetBack, Cancel, Crash, Edit, Fault,
     Outside, SurvivorEnds
<1>5. ASSUME NEW i \in Goroutine, Advance(i)
      PROVE  /\ UNCHANGED <<pc, cursor, todo, announced, clocks, cancelled, registry,
                            heartbeat, startedAt, starts, inherited>>
             /\ UNCHANGED faults \/ faults' = faults + 1
             /\ UNCHANGED rows \/ RecordRun(i)
             /\ UNCHANGED begun \/ Acquire(i)
             /\ UNCHANGED survivors \/ KillShell(i)
  BY <1>5 DEF Advance, Acquire, Abandon, Begin, StartCommand, StartFails, Exit, Unwind,
     RecordRun, LeaveSlot, Release, Done, KillShell, Move, StoreWorks, StoreFault,
     Fault
<1> QED
  BY <1>1, <1>2, <1>3, <1>4, <1>5

-----------------------------------------------------------------------------
(* Type correctness is inductive by itself.                                *)
LEMMA GraceIsNat == Grace \in Nat /\ Grace >= 1
BY FlagAssumption DEF Grace

LEMMA DueIsTyped ==
    ASSUME RecordTypeOK, NEW a \in Time, NEW b \in Time
    PROVE  /\ Due(a, b) \subseteq Execution
           /\ {<<e.task, e.at>> : e \in Due(a, b)} \subseteq Task \X Nat
BY ScheduleAssumption, SMTT(30) DEF Due, Within, RecordTypeOK, Execution, Time

LEMMA TypeInit == Init => TypeOK
<1> SUFFICES ASSUME Init PROVE TypeOK
  OBVIOUS
<1>1. 1..0 = {}
  OBVIOUS
<1>2. PoolTypeOK
  BY <1>1 DEF Init, PoolTypeOK, Goroutine
<1>3. registry \in [Task -> [active : BOOLEAN, overlap : BOOLEAN]]
  BY DEF Init
<1>4. heartbeat \in [last : Int, running : BOOLEAN, started : Int]
  BY DEF Init, Never
<1>5. lastTick \in Time /\ now \in Time
  BY DEF Init, Time
<1>6. cancelled \in BOOLEAN
  BY DEF Init
<1>7. MachineTypeOK
  BY <1>6 DEF Init, MachineTypeOK
<1>8. LoopTypeOK
  BY <1>5 DEF Init, LoopTypeOK
<1>9. RecordTypeOK
  BY <1>3, <1>4 DEF Init, RecordTypeOK
<1> QED
  BY <1>2, <1>7, <1>8, <1>9 DEF TypeOK

LEMMA GoroutinesGrow ==
    ASSUME TypeOK, [Next]_vars
    PROVE  spawned' \in Nat /\ spawned <= spawned' /\ Goroutine \subseteq Goroutine'
<1>1. spawned \in Nat /\ (spawned' = spawned \/ spawned' = spawned + 1)
  BY Frame DEF TypeOK, PoolTypeOK, goroutines, Start, Crash, Reserve, Spawn, Advance,
     Acquire, Abandon, Begin, StartCommand, StartFails, Exit, Unwind, RecordRun, LeaveSlot,
     Release, Done, KillShell, Move
<1> QED
  BY <1>1 DEF Goroutine

LEMMA MachineStep == TypeOK /\ [Next]_vars => MachineTypeOK'
<1> SUFFICES ASSUME TypeOK, MachineTypeOK, [Next]_vars PROVE MachineTypeOK'
  BY DEF TypeOK
<1>1. cancelled' \in BOOLEAN
  <2>1. UNCHANGED cancelled \/ cancelled' = TRUE \/ cancelled' = FALSE
    BY Frame DEF Start, Cancel
  <2> QED
    BY <2>1 DEF MachineTypeOK
<1>2. wall' \in Nat /\ mono' \in Nat
  BY Frame DEF clocks, Elapse, Suspend, SetBack, MachineTypeOK
<1>3. startedAt' \in Nat /\ starts' \in Nat
  <2>1. UNCHANGED <<startedAt, starts>> \/ Start
    BY Frame
  <2> QED
    BY <2>1 DEF Start, MachineTypeOK
<1>4. inherited' \in 0..spawned'
  <2>1. UNCHANGED inherited \/ inherited' = spawned
    BY Frame DEF Start
  <2> QED
    BY <2>1, GoroutinesGrow DEF MachineTypeOK, TypeOK, PoolTypeOK
<1>5. faults' \in Nat
  <2>1. faults' = faults \/ faults' = faults + 1
    BY Frame
  <2> QED
    BY <2>1 DEF MachineTypeOK
<1> QED
  BY <1>1, <1>2, <1>3, <1>4, <1>5 DEF MachineTypeOK

LEMMA LoopStep == TypeOK /\ [Next]_vars => LoopTypeOK'
<1> SUFFICES ASSUME LoopTypeOK, RecordTypeOK, MachineTypeOK, [Next]_vars
             PROVE  LoopTypeOK'
  BY DEF TypeOK
<1>1. /\ nextFire' \in Nat /\ lastTick' \in Time /\ now' \in Time /\ since' \in Int
  BY Frame DEF cursor, NewTicker, SetCursor, Tick, ListFails, ListTasks, Dispatched, Edit,
     Reached, Now, Fired, Time, LoopTypeOK, MachineTypeOK
<1>2. todo' \subseteq Execution
  <2>1. Earliest \in Time /\ After \in Time
    BY GraceIsNat DEF Earliest, After, Time, LoopTypeOK
  <2>2. Due(After, now) \subseteq Execution
    BY <2>1, DueIsTyped DEF LoopTypeOK
  <2> QED
    BY Frame, <2>2 DEF ListTasks, Dispatched, Crash, Reserve, SkipOverlap, LoopTypeOK
<1>3. pc' \in {"down", "clear", "announce", "ticker", "cursor", "select", "heartbeat",
               "list", "dispatch", "reserve", "drain", "stopping"}
  <2>1. UNCHANGED pc \/ Start \/ Loop \/ Crash
    BY Frame
  <2>2. CASE Loop
    BY <2>2 DEF Loop, Goto, ClearHeartbeat, Announce, NewTicker, SetCursor, Tick,
       RefreshHeartbeat, ListFails, ListTasks, NextExecution, Dispatched, Reserve,
       SkipOverlap, CancelSeen, Drain, StopHeartbeat
  <2> QED
    BY <2>1, <2>2 DEF Start, Crash, LoopTypeOK
<1>4. pc' = "reserve" => todo' # {}
  <2> SUFFICES ASSUME pc' = "reserve" PROVE todo' # {}
    OBVIOUS
  <2>1. UNCHANGED pc \/ NextExecution
    BY Frame DEF Start, Crash, Loop, Goto, ClearHeartbeat, Announce, NewTicker, SetCursor,
       Tick, RefreshHeartbeat, ListFails, ListTasks, Dispatched, Reserve, SkipOverlap,
       CancelSeen, Drain, StopHeartbeat
  <2>2. CASE UNCHANGED pc
    BY <2>2, Frame DEF ListTasks, Dispatched, Crash, Reserve, SkipOverlap, Goto, LoopTypeOK
  <2>3. CASE NextExecution
    BY <2>3 DEF NextExecution, Pending, work
  <2> QED
    BY <2>1, <2>2, <2>3
<1> QED
  BY <1>1, <1>2, <1>3, <1>4 DEF LoopTypeOK

LEMMA PoolStep == TypeOK /\ [Next]_vars => PoolTypeOK'
<1> SUFFICES ASSUME PoolTypeOK, LoopTypeOK, [Next]_vars PROVE PoolTypeOK'
  BY DEF TypeOK
<1> USE DEF PoolTypeOK, Goroutine
<1>1. CASE UNCHANGED <<goroutines, counters>>
  BY <1>1 DEF goroutines, counters
<1>2. CASE Start
  BY <1>2 DEF Start, goroutines
<1>3. CASE Crash
  BY <1>3 DEF Crash, Stage
<1>4. ASSUME NEW e \in todo, Reserve(e) PROVE PoolTypeOK'
  <2>1. /\ spawned' = spawned + 1 /\ e \in Execution
        /\ execution' \in [1..(spawned + 1) -> Execution]
        /\ stage' \in [1..(spawned + 1) -> Stage]
    BY <1>4 DEF Reserve, Spawn, Extend, Stage, LoopTypeOK
  <2> QED
    BY <1>4, <2>1 DEF Reserve, Execution
<1>5. ASSUME NEW i \in Goroutine, Advance(i) PROVE PoolTypeOK'
  <2>1. stage' \in [Goroutine -> Stage] /\ UNCHANGED <<spawned, execution>>
    BY <1>5 DEF Advance, Acquire, Abandon, Begin, StartCommand, StartFails, Exit, Unwind,
       RecordRun, LeaveSlot, Release, Done, KillShell, Move, Stage
  <2>2. running' \in [Task -> Int] /\ slots' \in Int /\ active' \in Int
    BY <1>5 DEF Advance, Acquire, Abandon, Begin, StartCommand, StartFails, Exit, Unwind,
       RecordRun, LeaveSlot, GiveSlotBack, Release, Unreserve, Done, KillShell, counters
  <2> QED
    BY <2>1, <2>2
<1> QED
  BY <1>1, <1>2, <1>3, <1>4, <1>5, Frame

LEMMA RecordStep == TypeOK /\ [Next]_vars => RecordTypeOK'
<1> SUFFICES ASSUME TypeOK, [Next]_vars PROVE RecordTypeOK'
  OBVIOUS
<1> USE DEF TypeOK, RecordTypeOK
<1>1. registry' \in [Task -> [active : BOOLEAN, overlap : BOOLEAN]]
  <2>1. ASSUME NEW t \in Editable, Edit(t)
        PROVE  registry' \in [Task -> [active : BOOLEAN, overlap : BOOLEAN]]
    <3>1. \/ registry' = [registry EXCEPT ![t].active = ~@]
          \/ registry' = [registry EXCEPT ![t].overlap = ~@]
      BY <2>1 DEF Edit
    <3> QED
      BY <3>1, ZenonT(30)
  <2> QED
    BY <2>1, Frame
<1>2. heartbeat' \in [last : Int, running : BOOLEAN, started : Int]
  <2>1. \/ UNCHANGED heartbeat
        \/ heartbeat' = Stopped(startedAt) \/ heartbeat' = Stopped(wall)
        \/ Beat(startedAt) \/ Beat(now.wall)
    BY Frame DEF ClearHeartbeat, Announce, RefreshHeartbeat, StopHeartbeat
  <2>2. /\ startedAt \in Int /\ wall \in Int /\ now.wall \in Int
        /\ heartbeat \in [last : Int, running : BOOLEAN, started : Int]
    BY DEF LoopTypeOK, MachineTypeOK, Time
  <2>3. ASSUME NEW at \in Int, Beat(at)
        PROVE  heartbeat' \in [last : Int, running : BOOLEAN, started : Int]
    BY <2>2, <2>3 DEF Beat
  <2>4. ASSUME NEW at \in Int
        PROVE  Stopped(at) \in [last : Int, running : BOOLEAN, started : Int]
    BY DEF Stopped, Never
  <2> QED
    BY <2>1, <2>2, <2>3, <2>4
<1>3. Goroutine \subseteq Goroutine'
  BY GoroutinesGrow
<1>4. rows' \subseteq rows \cup Goroutine /\ begun' \subseteq begun \cup Goroutine
  BY Frame DEF RecordRun, SaveRow, Acquire
<1>5. survivors' \subseteq survivors \cup Goroutine
  BY Frame DEF Crash, In, KillShell
<1>6. announced' \subseteq Task \X Nat
  <2>1. CASE ListTasks
    <3>1. Earliest \in Time /\ After \in Time /\ now \in Time /\ lastTick \in Time
      BY GraceIsNat DEF Earliest, After, Time, LoopTypeOK
    <3>2. ASSUME NEW bad
          PROVE  {<<e.task, e.at>> : e \in Logged(bad)} \subseteq Task \X Nat
      BY <3>1, DueIsTyped DEF Logged
    <3> QED
      BY <2>1, <3>2 DEF ListTasks
  <2>2. ASSUME NEW e \in todo, SkipOverlap(e) PROVE announced' \subseteq Task \X Nat
    BY <2>2 DEF SkipOverlap, LoopTypeOK, Execution
  <2> QED
    BY <2>1, <2>2, Frame
<1> QED
  BY <1>1, <1>2, <1>3, <1>4, <1>5, <1>6

LEMMA TypeStep == TypeOK /\ [Next]_vars => TypeOK'
BY MachineStep, LoopStep, PoolStep, RecordStep DEF TypeOK

(* Every variable keeps a value of its kind, and dispatch never reaches for *)
(* an execution when none is left (service.go:45-126).                     *)
THEOREM TypeCorrect == Spec => []TypeOK
BY TypeInit, TypeStep, PTL DEF Spec

-----------------------------------------------------------------------------
(* The reservations, the semaphore and the WaitGroup.                      *)

(* While Run has not reached its loop, or has left it, no goroutine of a    *)
(* living process is unfinished.                                           *)
IdleIsEmpty == pc \in {"down", "clear", "announce", "stopping"} => In(Counted) = {}

CountInv == TypeOK /\ CountersExact /\ IdleIsEmpty

LEMMA FiniteIn ==
    ASSUME TypeOK, NEW S, NEW T \in SUBSET In(S)
    PROVE  IsFiniteSet(T) /\ Cardinality(T) \in Nat
<1>1. IsFiniteSet(1..spawned)
  BY FS_Interval DEF TypeOK, PoolTypeOK
<1>2. T \subseteq 1..spawned
  BY DEF In, Goroutine
<1> QED
  BY <1>1, <1>2, FS_Subset, FS_CardinalityType

(* What one move does to the sets the counters count.                      *)
LEMMA CountMove ==
    ASSUME TypeOK, NEW i \in Goroutine, NEW to \in Stage, NEW S,
           stage' = [stage EXCEPT ![i] = to], UNCHANGED spawned
    PROVE  Cardinality(In(S)') = Cardinality(In(S))
             + (IF to \in S THEN 1 ELSE 0) - (IF stage[i] \in S THEN 1 ELSE 0)
<1>1. IsFiniteSet(In(S)) /\ Cardinality(In(S)) \in Nat
  BY FiniteIn
<1>2. CASE to \in S
  <2>1. In(S)' = In(S) \cup {i}
    BY <1>2 DEF In, Goroutine, TypeOK, PoolTypeOK
  <2>2. i \in In(S) <=> stage[i] \in S
    BY DEF In
  <2>3. Cardinality(In(S) \cup {i})
          = IF i \in In(S) THEN Cardinality(In(S)) ELSE Cardinality(In(S)) + 1
    BY <1>1, FS_AddElement
  <2> QED
    BY <1>1, <1>2, <2>1, <2>2, <2>3
<1>3. CASE to \notin S
  <2>1. In(S)' = In(S) \ {i}
    BY <1>3 DEF In, Goroutine, TypeOK, PoolTypeOK
  <2>2. i \in In(S) <=> stage[i] \in S
    BY DEF In
  <2>3. Cardinality(In(S) \ {i})
          = IF i \in In(S) THEN Cardinality(In(S)) - 1 ELSE Cardinality(In(S))
    BY <1>1, FS_RemoveElement
  <2> QED
    BY <1>1, <1>3, <2>1, <2>2, <2>3
<1> QED
  BY <1>2, <1>3

LEMMA ReservedMove ==
    ASSUME TypeOK, NEW i \in Goroutine, NEW to \in Stage, NEW t,
           stage' = [stage EXCEPT ![i] = to], UNCHANGED <<spawned, execution>>
    PROVE  /\ (to \in Reserved <=> stage[i] \in Reserved)
                => ReservedFor(t)' = ReservedFor(t)
           /\ to \notin Reserved => ReservedFor(t)' = ReservedFor(t) \ {i}
BY DEF ReservedFor, In, Goroutine, TypeOK, PoolTypeOK

(* A move of goroutine i, and what the action does to the counters.        *)
LEMMA AdvanceCounts ==
    ASSUME CountInv, pc # "down", NEW i \in Goroutine, Advance(i)
    PROVE  CountersExact'
<1> USE DEF CountInv
<1>1. PICK to \in Stage :
        /\ stage' = [stage EXCEPT ![i] = to]
        /\ UNCHANGED <<pc, spawned, execution>>
  BY DEF Advance, Acquire, Abandon, Begin, StartCommand, StartFails, Exit, Unwind,
     RecordRun, LeaveSlot, Release, Done, KillShell, Move, Stage
<1>2. stage[i] \in Stage /\ stage'[i] = to /\ execution[i].task \in Task
  BY <1>1 DEF TypeOK, PoolTypeOK, Execution
<1>3. /\ Cardinality(In(Holding)) \in Nat /\ Cardinality(In(Counted)) \in Nat
      /\ \A t : Cardinality(ReservedFor(t)) \in Nat
  BY FiniteIn DEF ReservedFor
<1>4. slots' = Cardinality(In(Holding)')
  <2>1. Cardinality(In(Holding)') = Cardinality(In(Holding))
          + (IF to \in Holding THEN 1 ELSE 0) - (IF stage[i] \in Holding THEN 1 ELSE 0)
    BY <1>1, CountMove
  <2>2. slots' = slots
          + (IF to \in Holding THEN 1 ELSE 0) - (IF stage[i] \in Holding THEN 1 ELSE 0)
    BY <1>2 DEF Advance, Acquire, Abandon, Begin, StartCommand, StartFails, Exit, Unwind,
       RecordRun, LeaveSlot, GiveSlotBack, Release, Done, KillShell, Move, Holding, counters,
       TypeOK, PoolTypeOK
  <2> QED
    BY <2>1, <2>2, <1>3 DEF CountersExact
<1>5. active' = Cardinality(In(Counted)')
  <2>1. Cardinality(In(Counted)') = Cardinality(In(Counted))
          + (IF to \in Counted THEN 1 ELSE 0) - (IF stage[i] \in Counted THEN 1 ELSE 0)
    BY <1>1, CountMove
  <2>2. active' = active
          + (IF to \in Counted THEN 1 ELSE 0) - (IF stage[i] \in Counted THEN 1 ELSE 0)
    BY <1>2 DEF Advance, Acquire, Abandon, Begin, StartCommand, StartFails, Exit, Unwind,
       RecordRun, LeaveSlot, Release, Done, KillShell, Move, Counted, Reserved, counters,
       TypeOK, PoolTypeOK
  <2> QED
    BY <2>1, <2>2, <1>3 DEF CountersExact
<1>6. ASSUME NEW t \in Task PROVE running'[t] = Cardinality(ReservedFor(t)')
  <2>1. running[t] = Cardinality(ReservedFor(t)) /\ running \in [Task -> Int]
    BY DEF CountersExact, TypeOK, PoolTypeOK
  <2>2. CASE Release(i)
    <3>1. stage[i] = "unslotted" /\ to = "released"
      BY <1>2, <2>2 DEF Release, Move, TypeOK, PoolTypeOK
    <3>2. ReservedFor(t)' = ReservedFor(t) \ {i}
      BY <3>1, <1>1, ReservedMove DEF Reserved
    <3>3. i \in ReservedFor(t) <=> execution[i].task = t
      BY <3>1 DEF ReservedFor, In, Reserved
    <3>4. Cardinality(ReservedFor(t)')
            = IF execution[i].task = t THEN Cardinality(ReservedFor(t)) - 1
                                       ELSE Cardinality(ReservedFor(t))
      <4>1. IsFiniteSet(ReservedFor(t))
        BY FiniteIn DEF ReservedFor
      <4>2. Cardinality(ReservedFor(t) \ {i})
              = IF i \in ReservedFor(t) THEN Cardinality(ReservedFor(t)) - 1
                                        ELSE Cardinality(ReservedFor(t))
        BY <4>1, FS_RemoveElement
      <4> QED
        BY <4>2, <3>2, <3>3
    <3>5. running'[t] = IF execution[i].task = t THEN running[t] - 1 ELSE running[t]
      BY <2>1, <2>2, <1>2 DEF Release, Unreserve
    <3> QED
      BY <3>4, <3>5, <2>1
  <2>3. CASE ~Release(i)
    <3>1. UNCHANGED running /\ (to \in Reserved <=> stage[i] \in Reserved)
      BY <1>2, <2>3 DEF Advance, Acquire, Abandon, Begin, StartCommand, StartFails, Exit,
         Unwind, RecordRun, LeaveSlot, Done, KillShell, Move, Reserved, counters,
         TypeOK, PoolTypeOK
    <3>2. ReservedFor(t)' = ReservedFor(t)
      BY <3>1, <1>1, ReservedMove
    <3> QED
      BY <3>1, <3>2, <2>1
  <2> QED
    BY <2>2, <2>3
<1> QED
  BY <1>4, <1>5, <1>6 DEF CountersExact

LEMMA StartCounts ==
    ASSUME CountInv, Start
    PROVE  CountersExact' /\ IdleIsEmpty'
<1>1. In(Counted) = {} /\ In(Counted)' = {}
  BY DEF CountInv, IdleIsEmpty, Start, goroutines, In, Goroutine
<1>2. In(Reserved)' = {} /\ In(Holding)' = {} /\ \A t : ReservedFor(t)' = {}
  BY <1>1 DEF In, Counted, Reserved, Holding, ReservedFor
<1> QED
  BY <1>1, <1>2, FS_EmptySet DEF Start, CountersExact, IdleIsEmpty

LEMMA ReserveCounts ==
    ASSUME CountInv, NEW e \in todo, Reserve(e)
    PROVE  CountersExact'
<1> USE DEF CountInv
<1> DEFINE j == spawned + 1
<1>1. /\ spawned \in Nat /\ e \in Execution
      /\ pc = "reserve" /\ pc' = "dispatch"
      /\ spawned' = j /\ j \notin Goroutine /\ Goroutine' = Goroutine \cup {j}
      /\ \A i \in Goroutine : stage'[i] = stage[i] /\ execution'[i] = execution[i]
      /\ stage'[j] = "queued" /\ execution'[j] = e
  BY DEF Reserve, Goto, Spawn, Extend, Goroutine, TypeOK, PoolTypeOK, LoopTypeOK
<1>2. /\ In(Holding)' = In(Holding) /\ In(Counted)' = In(Counted) \cup {j}
      /\ j \notin In(Counted)
  BY <1>1 DEF In, Holding, Counted, Reserved
<1>3. ASSUME NEW t \in Task
      PROVE  /\ ReservedFor(t)' = IF e.task = t THEN ReservedFor(t) \cup {j}
                                                ELSE ReservedFor(t)
             /\ j \notin ReservedFor(t)
  BY <1>1 DEF ReservedFor, In, Reserved
<1>4. slots' = Cardinality(In(Holding)')
  BY <1>1, <1>2 DEF Reserve, CountersExact
<1>5. active' = Cardinality(In(Counted)')
  <2>1. IsFiniteSet(In(Counted))
    BY FiniteIn
  <2>2. Cardinality(In(Counted) \cup {j}) = Cardinality(In(Counted)) + 1
    BY <1>2, <2>1, FS_AddElement
  <2> QED
    BY <1>1, <1>2, <2>2 DEF Reserve, CountersExact
<1>6. ASSUME NEW t \in Task PROVE running'[t] = Cardinality(ReservedFor(t)')
  <2>1. IsFiniteSet(ReservedFor(t))
    BY FiniteIn DEF ReservedFor
  <2>2. Cardinality(ReservedFor(t) \cup {j}) = Cardinality(ReservedFor(t)) + 1
    BY <1>3, <2>1, FS_AddElement
  <2>3. running'[t] = IF e.task = t THEN running[t] + 1 ELSE running[t]
    BY <1>1 DEF Reserve, TypeOK, PoolTypeOK, Execution
  <2> QED
    BY <1>1, <1>3, <2>2, <2>3 DEF CountersExact
<1> QED
  BY <1>4, <1>5, <1>6 DEF CountersExact

(* No step but Start, Crash, Reserve and the moves touches what is counted. *)
LEMMA CountStep == CountInv /\ [Next]_vars => CountInv'
<1> SUFFICES ASSUME CountInv, [Next]_vars PROVE CountersExact' /\ IdleIsEmpty'
  BY TypeStep DEF CountInv
<1>1. CASE Start
  BY <1>1, StartCounts
<1>2. CASE Crash
  <2>1. In(Counted)' = {} /\ pc' = "down"
    BY <1>2 DEF Crash, In, Counted, Reserved, Goroutine
  <2> QED
    BY <2>1 DEF CountersExact, IdleIsEmpty
<1>3. ASSUME NEW e \in todo, Reserve(e) PROVE CountersExact' /\ IdleIsEmpty'
  BY <1>3, ReserveCounts DEF IdleIsEmpty, Reserve, Goto
<1>4. ASSUME NEW i \in Goroutine, Advance(i) PROVE CountersExact' /\ IdleIsEmpty'
  <2>1. UNCHANGED pc
    BY <1>4 DEF Advance, Acquire, Abandon, Begin, StartCommand, StartFails, Exit,
       Unwind, RecordRun, LeaveSlot, Release, Done, KillShell, Move
  <2>2. CountersExact'
    BY <1>4, <2>1, AdvanceCounts DEF CountersExact
  <2>3. IdleIsEmpty'
    <3> SUFFICES ASSUME In(Counted) = {} PROVE In(Counted)' = {}
      BY <2>1 DEF IdleIsEmpty, CountInv
    <3>1. i \in In(Counted)
      BY <1>4 DEF Advance, Acquire, Abandon, Begin, StartCommand, StartFails, Exit,
         Unwind, RecordRun, LeaveSlot, Release, Done, KillShell, Move, In, Counted, Reserved
    <3> QED
      BY <3>1
  <2> QED
    BY <2>2, <2>3
<1>5. CASE UNCHANGED <<goroutines, counters>> /\ ~Start /\ ~Crash
  <2>1. /\ \A S : In(S)' = In(S)
        /\ \A t : ReservedFor(t)' = ReservedFor(t)
        /\ UNCHANGED <<running, slots, active>>
    BY <1>5 DEF goroutines, counters, In, ReservedFor, Goroutine
  <2>2. pc # "down" \/ UNCHANGED pc
    BY <1>5, Frame DEF Loop, Goto, ClearHeartbeat, Announce, NewTicker, SetCursor, Tick,
       RefreshHeartbeat, ListFails, ListTasks, NextExecution, Dispatched, Reserve,
       SkipOverlap, CancelSeen, Drain, StopHeartbeat
  <2>3. CountersExact'
    BY <2>1, <2>2 DEF CountInv, CountersExact
  <2>4. IdleIsEmpty'
    <3>1. CASE Drain
      <4>1. Cardinality(In(Counted)) = 0 /\ IsFiniteSet(In(Counted))
        BY <3>1, FiniteIn DEF Drain, Quiet, Goto, CountInv, CountersExact
      <4> QED
        BY <4>1, <2>1, FS_EmptySet DEF IdleIsEmpty
    <3>2. CASE ~Drain
      <4>1. pc' \in {"down", "clear", "announce", "stopping"}
              => pc \in {"down", "clear", "announce", "stopping"}
        BY <3>2, <1>5, Frame DEF Loop, Goto, ClearHeartbeat, Announce, NewTicker, SetCursor,
           Tick, RefreshHeartbeat, ListFails, ListTasks, NextExecution, Dispatched, Reserve,
           SkipOverlap, CancelSeen, StopHeartbeat
      <4> QED
        BY <4>1, <2>1 DEF CountInv, IdleIsEmpty
    <3> QED
      BY <3>1, <3>2
  <2> QED
    BY <2>3, <2>4
<1> QED
  BY <1>1, <1>2, <1>3, <1>4, <1>5, Frame

LEMMA CountInit == Init => CountInv
<1> SUFFICES ASSUME Init PROVE CountersExact /\ IdleIsEmpty
  BY TypeInit DEF CountInv
<1>1. Goroutine = {}
  BY DEF Init, Goroutine
<1>2. In(Counted) = {}
  BY <1>1 DEF In
<1> QED
  BY <1>2 DEF Init, CountersExact, IdleIsEmpty

(* The reservation map, the semaphore and the WaitGroup count exactly the   *)
(* goroutines between the matching calls, for any tasks, schedules, limits, *)
(* faults and number of starts (service.go:109-123).                       *)
THEOREM CountersAreExact == Spec => []CountersExact
<1>1. CountInv => CountersExact
  BY DEF CountInv
<1> QED
  BY <1>1, CountInit, CountStep, PTL DEF Spec

-----------------------------------------------------------------------------
(* Overlap and concurrency.                                                *)

(* Only Reserve brings a goroutine into Reserved, only Acquire into Holding. *)
LEMMA Shrinks ==
    ASSUME CountInv, [Next]_vars
    PROVE  /\ \/ \E e \in todo : Reserve(e)
              \/ In(Reserved)' \subseteq In(Reserved) /\ UNCHANGED execution
           /\ \/ \E i \in Goroutine : Acquire(i)
              \/ In(Holding)' \subseteq In(Holding)
<1> USE DEF CountInv, TypeOK, PoolTypeOK
<1>1. CASE UNCHANGED <<goroutines, counters>>
  BY <1>1 DEF goroutines, In, Goroutine
<1>2. CASE Start
  BY <1>2 DEF Start, goroutines, In, Goroutine
<1>3. CASE Crash
  BY <1>3 DEF Crash, In, Goroutine, Reserved, Holding, Counted
<1>4. ASSUME NEW e \in todo, Reserve(e)
      PROVE  In(Holding)' \subseteq In(Holding)
  BY <1>4 DEF Reserve, Spawn, Extend, In, Goroutine, Holding
<1>5. ASSUME NEW i \in Goroutine, Advance(i)
      PROVE  /\ In(Reserved)' \subseteq In(Reserved) /\ UNCHANGED execution
             /\ Acquire(i) \/ In(Holding)' \subseteq In(Holding)
  BY <1>5 DEF Advance, Acquire, Abandon, Begin, StartCommand, StartFails, Exit, Unwind,
     RecordRun, LeaveSlot, Release, Done, KillShell, Move, In, Goroutine, Reserved, Holding
<1> QED
  BY <1>1, <1>2, <1>3, <1>4, <1>5, Frame

LEMMA NobodyReserved ==
    ASSUME CountInv, pc # "down", NEW t \in Task, running[t] <= 0
    PROVE  \A i \in In(Reserved) : execution[i].task # t
<1>1. IsFiniteSet(ReservedFor(t)) /\ Cardinality(ReservedFor(t)) \in Nat
  BY FiniteIn DEF CountInv, ReservedFor
<1>2. Cardinality(ReservedFor(t)) = 0
  BY <1>1 DEF CountInv, CountersExact
<1>3. ReservedFor(t) = {}
  BY <1>1, <1>2, FS_EmptySet
<1> QED
  BY <1>3 DEF ReservedFor

LEMMA OverlapStep == CountInv /\ NoOverlap /\ [Next]_vars => NoOverlap'
<1> SUFFICES ASSUME CountInv, NoOverlap, [Next]_vars PROVE NoOverlap'
  OBVIOUS
<1>1. ASSUME NEW e \in todo, Reserve(e) PROVE NoOverlap'
  <2> DEFINE n == spawned + 1
  <2>1. /\ spawned \in Nat /\ spawned' = n /\ e \in Execution /\ pc # "down"
        /\ \A i \in Goroutine : execution'[i] = execution[i]
        /\ execution'[n] = e
        /\ In(Reserved)' = In(Reserved) \cup {n}
    BY <1>1 DEF Reserve, Goto, Spawn, Extend, Goroutine, In, Reserved, CountInv, TypeOK,
       PoolTypeOK, LoopTypeOK
  <2>2. e.overlap \/ \A i \in In(Reserved) : execution[i].task # e.task
    BY <1>1, <2>1, NobodyReserved DEF Reserve, Free, Execution
  <2>3. In(Reserved) \subseteq Goroutine /\ \A i \in Goroutine : i \in Nat /\ i < n
    BY <2>1 DEF In, Goroutine
  <2> SUFFICES ASSUME NEW i \in In(Reserved)', NEW j \in In(Reserved)', i < j,
                      execution'[i].task = execution'[j].task
               PROVE  execution'[j].overlap
    BY DEF NoOverlap, Same
  <2>4. i \in In(Reserved) /\ execution'[i] = execution[i]
    BY <2>1, <2>3
  <2>5. CASE j \in In(Reserved)
    <3>1. execution'[j] = execution[j]
      BY <2>1, <2>3, <2>5
    <3> QED
      BY <3>1, <2>4, <2>5 DEF NoOverlap, Same
  <2>6. CASE j = n
    BY <2>1, <2>2, <2>4, <2>6
  <2> QED
    BY <2>1, <2>5, <2>6
<1>2. ASSUME In(Reserved)' \subseteq In(Reserved), UNCHANGED execution PROVE NoOverlap'
  BY <1>2 DEF NoOverlap, Same
<1> QED
  BY <1>1, <1>2, Shrinks

(* An execution is never started while an earlier one of its task is        *)
(* unfinished, unless its definition allowed overlap when the tick read it: *)
(* for every interleaving, edit, fault and restart (service.go:109-136).    *)
THEOREM OverlapIsAllowed == Spec => []NoOverlap
<1>1. Init => NoOverlap
  BY DEF Init, NoOverlap, In, Goroutine
<1> QED
  BY <1>1, CountInit, CountStep, OverlapStep, PTL DEF Spec

LEMMA LimitStep == CountInv /\ ConcurrencyLimit /\ [Next]_vars => ConcurrencyLimit'
<1> SUFFICES ASSUME CountInv, ConcurrencyLimit, [Next]_vars PROVE ConcurrencyLimit'
  OBVIOUS
<1>1. IsFiniteSet(In(Holding)) /\ Cardinality(In(Holding)) \in Nat /\ MaxConcurrency \in Nat
  BY FiniteIn, FlagAssumption DEF CountInv, MaxConcurrency
<1>2. ASSUME NEW i \in Goroutine, Acquire(i) PROVE ConcurrencyLimit'
  <2>1. i \in In(Counted)
    BY <1>2 DEF Acquire, Move, In, Counted, Reserved
  <2>2. pc # "down"
    BY <2>1 DEF CountInv, IdleIsEmpty
  <2>3. Cardinality(In(Holding)) < MaxConcurrency
    BY <1>2, <2>2 DEF Acquire, SlotFree, CountInv, CountersExact
  <2>4. Cardinality(In(Holding)') = Cardinality(In(Holding)) + 1
    <3>1. /\ stage' = [stage EXCEPT ![i] = "holding"] /\ UNCHANGED spawned
          /\ stage[i] = "queued" /\ "holding" \in Stage
      BY <1>2 DEF Acquire, Move, Stage
    <3>2. Cardinality(In(Holding)') = Cardinality(In(Holding))
            + (IF "holding" \in Holding THEN 1 ELSE 0)
            - (IF stage[i] \in Holding THEN 1 ELSE 0)
      BY <3>1, CountMove DEF CountInv
    <3> QED
      BY <1>1, <3>1, <3>2 DEF Holding
  <2> QED
    BY <1>1, <2>3, <2>4 DEF ConcurrencyLimit
<1>3. ASSUME In(Holding)' \subseteq In(Holding) PROVE ConcurrencyLimit'
  <2>1. Cardinality(In(Holding)') <= Cardinality(In(Holding)) /\ Cardinality(In(Holding)') \in Nat
    BY <1>1, <1>3, FS_Subset, FS_CardinalityType
  <2> QED
    BY <1>1, <2>1 DEF ConcurrencyLimit
<1> QED
  BY <1>2, <1>3, Shrinks

(* There are never more runs in the runner than the clamped --concurrency  *)
(* (service.go:32-34, 63, 117-120).                                        *)
THEOREM LimitIsKept == Spec => []ConcurrencyLimit
<1>1. Init => ConcurrencyLimit
  <2>1. ASSUME Init PROVE In(Holding) = {}
    BY <2>1 DEF Init, In, Goroutine
  <2>2. MaxConcurrency \in Nat
    BY FlagAssumption DEF MaxConcurrency
  <2> QED
    BY <2>1, <2>2, FS_EmptySet DEF ConcurrencyLimit
<1> QED
  BY <1>1, CountInit, CountStep, LimitStep, PTL DEF Spec

-----------------------------------------------------------------------------
(* The service implements JobPool.                                         *)

(* What the mapping says of a goroutine depends on its stage and on what it *)
(* was started with.                                                       *)
LEMMA SameStatus ==
    ASSUME UNCHANGED <<spawned, execution, stage>>
    PROVE  UNCHANGED Pool!vars
BY DEF Pool!vars, PoolJob, PoolStatus, Goroutine, Holding

LEMMA PoolCardinality == ASSUME NEW S PROVE Pool!Cardinality(S) = Cardinality(S)
BY DEF Pool!Cardinality, Cardinality

LEMMA PoolSets ==
    /\ Pool!Present = In(Reserved)
    /\ Pool!Being({"working"}) = In(Holding)
BY DEF Pool!Present, Pool!Being, Pool!Job, PoolStatus, In, Goroutine, Reserved, Holding

LEMMA PoolMove ==
    ASSUME TypeOK, NEW i \in Goroutine, NEW to, stage' = [stage EXCEPT ![i] = to],
           UNCHANGED <<spawned, execution>>
    PROVE  /\ stage'[i] = to
           /\ Pool!Move(i, PoolStatus(i), PoolStatus(i)')
           /\ PoolStatus(i)' = PoolStatus(i) => UNCHANGED Pool!vars
<1>1. /\ Goroutine' = Goroutine /\ stage'[i] = to
      /\ \A k \in Goroutine : k # i => stage'[k] = stage[k]
  BY DEF Goroutine, TypeOK, PoolTypeOK
<1>2. \A k \in Goroutine : k # i => PoolStatus(k)' = PoolStatus(k)
  BY <1>1 DEF PoolStatus
<1>3. [k \in Goroutine |-> PoolStatus(k)]' =
        [[k \in Goroutine |-> PoolStatus(k)] EXCEPT ![i] = PoolStatus(i)']
  BY <1>1, <1>2
<1>4. [k \in Goroutine |-> PoolJob(k)]' = [k \in Goroutine |-> PoolJob(k)]
  BY <1>1 DEF PoolJob
<1>5. [k \in Goroutine |-> PoolStatus(k)][i] = PoolStatus(i)
  OBVIOUS
<1> QED
  BY <1>1, <1>2, <1>3, <1>4, <1>5 DEF Pool!Move, Pool!vars

LEMMA PoolAdvance ==
    ASSUME CountInv, NEW i \in Goroutine, Advance(i)
    PROVE  [Pool!Next]_(Pool!vars)
<1> USE DEF CountInv
<1>1. CASE Acquire(i)
  <2>1. /\ stage[i] = "queued" /\ stage' = [stage EXCEPT ![i] = "holding"]
        /\ UNCHANGED <<spawned, execution>>
    BY <1>1 DEF Acquire, Move
  <2>2. Cardinality(Pool!Being({"working"})) < MaxConcurrency
    <3>1. pc # "down"
      BY <2>1 DEF IdleIsEmpty, In, Counted, Reserved
    <3> QED
      BY <1>1, <3>1, PoolSets DEF Acquire, SlotFree, CountersExact
  <2>3. Pool!Begin(i)
    <3>a. Pool!Move(i, PoolStatus(i), PoolStatus(i)')
      BY <2>1, PoolMove
    <3>b. PoolStatus(i) = "waiting" /\ PoolStatus(i)' = "working"
      BY <2>1, PoolMove DEF PoolStatus, Holding
    <3> QED
      BY <2>2, <3>a, <3>b, PoolCardinality DEF Pool!Begin
  <2> QED
    BY <2>3 DEF Pool!Next, Pool!Job, Goroutine
<1>2. CASE Abandon(i)
  <2>1. /\ stage[i] = "queued" /\ stage' = [stage EXCEPT ![i] = "unslotted"]
        /\ UNCHANGED <<spawned, execution>>
    BY <1>2 DEF Abandon, Move
  <2>2. Pool!Withdraw(i)
    <3>a. Pool!Move(i, PoolStatus(i), PoolStatus(i)')
      BY <2>1, PoolMove
    <3>b. PoolStatus(i) = "waiting" /\ PoolStatus(i)' = "leaving"
      BY <2>1, PoolMove DEF PoolStatus, Holding
    <3> QED
      BY <2>1, <3>a, <3>b DEF Pool!Withdraw
  <2> QED
    BY <2>2 DEF Pool!Next, Pool!Job, Goroutine
<1>3. CASE LeaveSlot(i)
  <2>1. /\ stage[i] = "recorded" /\ stage' = [stage EXCEPT ![i] = "unslotted"]
        /\ UNCHANGED <<spawned, execution>>
    BY <1>3 DEF LeaveSlot, Move
  <2>2. Pool!Finish(i)
    <3>a. Pool!Move(i, PoolStatus(i), PoolStatus(i)')
      BY <2>1, PoolMove
    <3>b. PoolStatus(i) = "working" /\ PoolStatus(i)' = "leaving"
      BY <2>1, PoolMove DEF PoolStatus, Holding
    <3> QED
      BY <2>1, <3>a, <3>b DEF Pool!Finish
  <2> QED
    BY <2>2 DEF Pool!Next, Pool!Job, Goroutine
<1>4. CASE Release(i)
  <2>1. /\ stage[i] = "unslotted" /\ stage' = [stage EXCEPT ![i] = "released"]
        /\ UNCHANGED <<spawned, execution>>
    BY <1>4 DEF Release, Move
  <2>2. Pool!Leave(i)
    <3>a. Pool!Move(i, PoolStatus(i), PoolStatus(i)')
      BY <2>1, PoolMove
    <3>b. PoolStatus(i) = "leaving" /\ PoolStatus(i)' = "over"
      BY <2>1, PoolMove DEF PoolStatus, Holding
    <3> QED
      BY <2>1, <3>a, <3>b DEF Pool!Leave
  <2> QED
    BY <2>2 DEF Pool!Next, Pool!Job, Goroutine
<1>5. CASE Begin(i) \/ Exit(i) \/ RecordRun(i) \/ Done(i) \/ KillShell(i)
  <2>1. PICK to :
          /\ stage' = [stage EXCEPT ![i] = to] /\ UNCHANGED <<spawned, execution>>
          /\ \/ stage[i] \in Holding /\ to \in Holding
             \/ stage[i] = "released" /\ to = "done"
    BY <1>5 DEF Begin, StartCommand, StartFails, Exit, RecordRun, Done, KillShell, Move,
       Holding
  <2>2. PoolStatus(i)' = PoolStatus(i)
    BY <2>1, PoolMove DEF PoolStatus, Holding
  <2> QED
    BY <2>1, <2>2, PoolMove
<1> QED
  BY <1>1, <1>2, <1>3, <1>4, <1>5 DEF Advance, Unwind

LEMMA PoolAdmit ==
    ASSUME CountInv, NEW e \in todo, Reserve(e)
    PROVE  Pool!Next
<1> DEFINE f == [task |-> e.task, overlap |-> e.overlap]
           n == spawned + 1
<1>1. /\ spawned \in Nat /\ spawned' = n /\ e \in Execution /\ pc # "down"
      /\ execution' = [k \in 1..n |-> IF k \in Goroutine THEN execution[k] ELSE e]
      /\ stage' = [k \in 1..n |-> IF k \in Goroutine THEN stage[k] ELSE "queued"]
  BY DEF Reserve, Goto, Spawn, Extend, CountInv, TypeOK, PoolTypeOK, LoopTypeOK
<1>2. f.overlap \/ \A i \in Pool!Present : [k \in Goroutine |-> PoolJob(k)][i].task # f.task
  <2>1. e.overlap \/ \A i \in In(Reserved) : execution[i].task # e.task
    BY <1>1, NobodyReserved DEF Reserve, Free, Execution
  <2> QED
    BY <2>1, PoolSets DEF PoolJob, In
<1>3. [k \in Goroutine |-> PoolJob(k)]' =
        [k \in 1..n |-> IF k = n THEN f ELSE [m \in Goroutine |-> PoolJob(m)][k]]
  BY <1>1 DEF Goroutine, PoolJob
<1>4. [k \in Goroutine |-> PoolStatus(k)]' =
        [k \in 1..n |-> IF k = n THEN "waiting" ELSE [m \in Goroutine |-> PoolStatus(m)][k]]
  BY <1>1 DEF Goroutine, PoolStatus, Holding
<1>5. f \in [task : Task, overlap : BOOLEAN]
  BY <1>1 DEF Execution
<1>6. Pool!Admit(f)
  BY <1>1, <1>2, <1>3, <1>4 DEF Pool!Admit
<1> QED
  BY <1>5, <1>6 DEF Pool!Next

LEMMA PoolStepSimulates ==
    ASSUME CountInv, [Next]_vars
    PROVE  [Pool!Next]_(Pool!vars)
<1>1. CASE UNCHANGED <<goroutines, counters>> \/ Start
  BY <1>1, SameStatus DEF goroutines, Start
<1>2. CASE Crash
  <2>1. /\ UNCHANGED <<spawned, execution>>
        /\ \A i \in Goroutine : stage'[i] \in {"released", "done", "lost"}
    BY <1>2 DEF Crash, Counted, Reserved, CountInv, TypeOK, PoolTypeOK, Stage
  <2>2. /\ [k \in Goroutine |-> PoolStatus(k)]' = [k \in Goroutine |-> "over"]
        /\ [k \in Goroutine |-> PoolJob(k)]' = [k \in Goroutine |-> PoolJob(k)]
    BY <2>1 DEF Goroutine, PoolStatus, PoolJob, Holding
  <2>3. Pool!Collapse
    BY <2>1, <2>2 DEF Pool!Collapse, Pool!Job, Goroutine
  <2> QED
    BY <2>3 DEF Pool!Next
<1>3. ASSUME NEW e \in todo, Reserve(e) PROVE [Pool!Next]_(Pool!vars)
  BY <1>3, PoolAdmit
<1>4. ASSUME NEW i \in Goroutine, Advance(i) PROVE [Pool!Next]_(Pool!vars)
  BY <1>4, PoolAdvance
<1> QED
  BY <1>1, <1>2, <1>3, <1>4, Frame

(* The reservation map with its integers, the semaphore channel and the     *)
(* deferred calls do what JobPool says of sets of jobs (service.go:98-145). *)
THEOREM ServiceImplementsPool == Spec => ImplementsPool
<1>1. Init => Pool!Init
  BY DEF Init, Pool!Init, Goroutine, PoolJob, PoolStatus
<1> QED
  BY <1>1, CountInit, CountStep, PoolStepSimulates, PTL DEF Spec, ImplementsPool, Pool!Spec
=============================================================================
