---------------------------- MODULE RecordProofs ----------------------------
(* Proofs about what Service leaves in the store: the heartbeat row and the *)
(* rows of the runs.                                                       *)
EXTENDS ServiceProofs

-----------------------------------------------------------------------------
(* The heartbeat row.                                                      *)
InLoop == {"ticker", "cursor", "select", "heartbeat", "list", "dispatch", "reserve", "drain"}

(* What Beat keeps or sets: the row is empty when the instance announces    *)
(* itself.                                                                 *)
RowEmptied == pc = "announce" => heartbeat.started = Never

HeartbeatInv == TypeOK /\ RowEmptied /\ HeartbeatHonest

(* How the loop moves between the places the row is about.                 *)
LEMMA LoopEntered ==
    ASSUME [Next]_vars
    PROVE  /\ pc' = "announce" => (UNCHANGED pc \/ ClearHeartbeat)
           /\ pc' \in InLoop => (pc \in InLoop \/ Announce)
           /\ Start \/ Crash \/ StopHeartbeat => pc' \notin InLoop \cup {"announce"}
<1> USE DEF InLoop
<1>1. CASE Loop
  BY <1>1 DEF Loop, Goto, ClearHeartbeat, Announce, NewTicker, SetCursor, Tick,
     RefreshHeartbeat, ListFails, ListTasks, NextExecution, Dispatched, Reserve,
     SkipOverlap, CancelSeen, Drain, StopHeartbeat, Start, Crash
<1>2. Start \/ Crash \/ StopHeartbeat => pc' \notin InLoop \cup {"announce"}
  BY DEF Start, Crash, StopHeartbeat, Goto
<1> QED
  BY <1>1, <1>2, Frame DEF Start, Crash

LEMMA HeartbeatStep == HeartbeatInv /\ [Next]_vars => HeartbeatInv'
<1> SUFFICES ASSUME HeartbeatInv, [Next]_vars PROVE RowEmptied' /\ HeartbeatHonest'
  BY TypeStep DEF HeartbeatInv
<1>1. HeartbeatHonest <=> (pc \in InLoop => heartbeat.running /\ heartbeat.started = startedAt)
  BY DEF HeartbeatHonest, InLoop
<1>2. HeartbeatHonest' <=>
        (pc' \in InLoop => heartbeat'.running /\ heartbeat'.started = startedAt')
  BY DEF HeartbeatHonest, InLoop
<1>3. startedAt \in Nat /\ Never = -1
  BY DEF HeartbeatInv, TypeOK, MachineTypeOK, Never
<1>4. CASE ClearHeartbeat
  BY <1>2, <1>4 DEF ClearHeartbeat, Goto, Stopped, RowEmptied, InLoop
<1>5. CASE Announce
  BY <1>2, <1>5 DEF Announce, Goto, Beat, RowEmptied, HeartbeatInv, InLoop
<1>6. CASE RefreshHeartbeat
  BY <1>1, <1>2, <1>3, <1>6 DEF RefreshHeartbeat, Goto, Beat, RowEmptied, HeartbeatInv, InLoop
<1>7. CASE Start \/ StopHeartbeat
  BY <1>2, <1>7, LoopEntered DEF RowEmptied
<1>8. CASE UNCHANGED <<heartbeat, startedAt>> /\ ~ClearHeartbeat /\ ~Announce
  BY <1>1, <1>2, <1>8, LoopEntered DEF RowEmptied, HeartbeatInv
<1> QED
  BY <1>4, <1>5, <1>6, <1>7, <1>8, Frame

LEMMA HeartbeatInit == Init => HeartbeatInv
BY TypeInit DEF Init, HeartbeatInv, RowEmptied, HeartbeatHonest

(* In the loop the row says running and tells when this very instance       *)
(* started, whatever row a crashed one left (service.go:50-59; sqlite.go:  *)
(* 167-187).                                                               *)
THEOREM HeartbeatIsHonest == Spec => []HeartbeatHonest
<1>1. HeartbeatInv => HeartbeatHonest
  BY DEF HeartbeatInv
<1> QED
  BY <1>1, HeartbeatInit, HeartbeatStep, PTL DEF Spec

-----------------------------------------------------------------------------
(* The rows of the runs.                                                   *)
Ran == {"recorded", "unslotted", "released", "done"}
RunInv == \A i \in begun : stage[i] # "queued" /\ (stage[i] \in Ran => i \in rows)

(* As long as the database works, a run that was begun and is past the call *)
(* of RecordRun has its row.                                               *)
LEMMA RunStep ==
    ASSUME "store" \notin Faults, CountInv, RunInv, [Next]_vars
    PROVE  RunInv'
<1> USE DEF CountInv, TypeOK, PoolTypeOK, RecordTypeOK
<1>1. CASE UNCHANGED <<goroutines, counters>> \/ Start
  <2>1. UNCHANGED stage
    BY <1>1 DEF goroutines, Start
  <2>2. UNCHANGED begun /\ rows \subseteq rows'
    BY <1>1, Frame DEF Acquire, RecordRun, Move, SaveRow, goroutines, Start
  <2> QED
    BY <2>1, <2>2 DEF RunInv
<1>2. CASE Crash
  <2>1. /\ UNCHANGED <<rows, begun>>
        /\ \A i \in Goroutine : stage'[i] = stage[i] \/ stage'[i] = "lost"
    BY <1>2 DEF Crash
  <2> QED
    BY <2>1 DEF RunInv, Ran
<1>3. ASSUME NEW e \in todo, Reserve(e) PROVE RunInv'
  <2>1. UNCHANGED <<rows, begun>> /\ \A i \in Goroutine : stage'[i] = stage[i]
    BY <1>3 DEF Reserve, Goto, Spawn, Extend, Goroutine
  <2> QED
    BY <2>1 DEF RunInv
<1>4. ASSUME NEW i \in Goroutine, Advance(i) PROVE RunInv'
  <2>1. \A k \in Goroutine : k # i => stage'[k] = stage[k]
    BY <1>4 DEF Advance, Acquire, Abandon, Begin, StartCommand, StartFails, Exit, Unwind,
       RecordRun, LeaveSlot, Release, Done, KillShell, Move
  <2>2. /\ begun' \subseteq begun \cup {i} /\ rows \subseteq rows'
        /\ i \in begun' => stage'[i] # "queued" /\ (stage'[i] \in Ran => i \in rows')
    <3>1. CASE Acquire(i)
      BY <3>1 DEF Acquire, Move, Ran
    <3>2. CASE RecordRun(i)
      BY <3>2 DEF RecordRun, Move, StoreFault, Fault, SaveRow, Ran
    <3>3. CASE ~Acquire(i) /\ ~RecordRun(i)
      <4>1. UNCHANGED <<rows, begun>> /\ stage'[i] # "queued"
        BY <1>4, <3>3 DEF Advance, Abandon, Begin, StartCommand, StartFails, Exit, Unwind,
           LeaveSlot, Release, Done, KillShell, Move
      <4>2. stage'[i] \in Ran => stage[i] \in Ran \cup {"queued"}
        BY <1>4, <3>3 DEF Advance, Abandon, Begin, StartCommand, StartFails, Exit, Unwind,
           LeaveSlot, Release, Done, KillShell, Move, Ran
      <4> QED
        BY <4>1, <4>2 DEF RunInv
    <3> QED
      BY <3>1, <3>2, <3>3
  <2> QED
    BY <2>1, <2>2 DEF RunInv
<1> QED
  BY <1>1, <1>2, <1>3, <1>4, Frame

LEMMA RunsAreRecorded ==
    ASSUME "store" \notin Faults
    PROVE  Spec => [](CountInv /\ NoOverlap /\ HeartbeatInv /\ RunInv)
<1>1. Init => CountInv /\ NoOverlap /\ HeartbeatInv /\ RunInv
  <2>1. Init => RunInv
    BY DEF Init, RunInv
  <2>2. Init => NoOverlap
    BY DEF Init, NoOverlap, In, Goroutine
  <2> QED
    BY <2>1, <2>2, CountInit, HeartbeatInit
<1>2. CountInv /\ NoOverlap /\ HeartbeatInv /\ RunInv /\ [Next]_vars
        => (CountInv /\ NoOverlap /\ HeartbeatInv /\ RunInv)'
  BY CountStep, OverlapStep, HeartbeatStep, RunStep
<1> QED
  BY <1>1, <1>2, PTL DEF Spec

(* When the row says the service is stopped, no shell of a run is under its *)
(* care, and every run that was begun and not cut short by a crash is in    *)
(* the store: for every order of signal, goroutines, crashes and starts, as *)
(* long as the database works (service.go:50-56, 70-72).  It says nothing   *)
(* of what a killed shell had started, which may go on (runner.go:61).      *)
THEOREM StoppedIsQuiet ==
    ASSUME "store" \notin Faults
    PROVE  Spec => []StoppedMeansQuiet
<1>1. CountInv /\ HeartbeatInv /\ RunInv => StoppedMeansQuiet
  <2> SUFFICES ASSUME CountInv, HeartbeatInv, RunInv, ~heartbeat.running,
                      NEW i \in begun \ In({"lost"})
               PROVE  i \in rows
    BY DEF StoppedMeansQuiet
  <2>1. i \in Goroutine /\ stage[i] \in Stage \ {"lost"}
    BY DEF CountInv, TypeOK, PoolTypeOK, RecordTypeOK, In
  <2>2. pc \in {"down", "clear", "announce", "stopping"}
    BY DEF HeartbeatInv, HeartbeatHonest, TypeOK, LoopTypeOK
  <2>3. i \notin In(Counted)
    BY <2>2 DEF CountInv, IdleIsEmpty
  <2>4. stage[i] = "done"
    BY <2>1, <2>3 DEF In, Counted, Reserved, Stage
  <2> QED
    BY <2>4 DEF RunInv, Ran
<1> QED
  BY <1>1, RunsAreRecorded, PTL

(* When a command of a task that allows no overlap runs, every earlier run  *)
(* of the task is in the store: the reservation is given back only after    *)
(* RecordRun has returned (service.go:114-121; runner.go:40).              *)
THEOREM RunsAreInOrder ==
    ASSUME "store" \notin Faults
    PROVE  Spec => []RecordedInOrder
<1>1. CountInv /\ NoOverlap /\ RunInv => RecordedInOrder
  <2> SUFFICES ASSUME CountInv, NoOverlap, RunInv,
                      NEW j \in In({"running"}), NEW i \in begun \ In({"lost"}),
                      i < j, Same(i, j), ~execution[j].overlap
               PROVE  i \in rows
    BY DEF RecordedInOrder
  <2>1. i \in Goroutine /\ stage[i] \in Stage \ {"lost"}
    BY DEF CountInv, TypeOK, PoolTypeOK, RecordTypeOK, In
  <2>2. j \in In(Reserved)
    BY DEF In, Reserved
  <2>3. i \notin In(Reserved)
    BY <2>2 DEF NoOverlap
  <2>4. stage[i] \in {"released", "done"}
    BY <2>1, <2>3 DEF In, Reserved, Stage
  <2> QED
    BY <2>4 DEF RunInv, Ran
<1> QED
  BY <1>1, RunsAreRecorded, PTL

-----------------------------------------------------------------------------
(* What killed shells leave behind.                                        *)

(* A shell is killed only in a service that starts nothing more, so that    *)
(* whatever survives in one that still starts commands is older than it.    *)
SurvivorsAreOld == pc # "down" /\ ~cancelled => survivors \subseteq 1..inherited

ApartInv == CountInv /\ NoOverlap /\ SurvivorsAreOld /\ CommandsApart

LEMMA OldStep == CountInv /\ SurvivorsAreOld /\ [Next]_vars => SurvivorsAreOld'
<1> SUFFICES ASSUME CountInv, SurvivorsAreOld, [Next]_vars, pc' # "down", ~cancelled'
             PROVE  survivors' \subseteq 1..inherited'
  BY DEF SurvivorsAreOld
<1>1. CASE Start
  BY <1>1 DEF Start, CountInv, TypeOK, RecordTypeOK, Goroutine
<1>2. CASE ~Start
  <2>1. ~cancelled /\ UNCHANGED inherited
    BY <1>2, Frame DEF Cancel, CountInv, TypeOK, MachineTypeOK
  <2>2. pc # "down"
    BY <1>2, Frame DEF Crash, Loop, Goto, ClearHeartbeat, Announce, NewTicker, SetCursor,
       Tick, RefreshHeartbeat, ListFails, ListTasks, NextExecution, Dispatched, Reserve,
       SkipOverlap, CancelSeen, Drain, StopHeartbeat
  <2>3. survivors' \subseteq survivors
    BY <2>1, Frame DEF Crash, KillShell
  <2> QED
    BY <2>1, <2>2, <2>3 DEF SurvivorsAreOld
<1> QED
  BY <1>1, <1>2

(* Which step brings a command of a run to life.                           *)
LEMMA OnlyStartCommand ==
    ASSUME CountInv, [Next]_vars, NEW j \in In({"running"})'
    PROVE  \/ j \in In({"running"})
           \/ j \in Goroutine /\ StartCommand(j)
<1> USE DEF CountInv, TypeOK, PoolTypeOK
<1>1. CASE UNCHANGED <<goroutines, counters>> \/ Start
  BY <1>1 DEF goroutines, Start, In, Goroutine
<1>2. CASE Crash
  BY <1>2 DEF Crash, In, Goroutine
<1>3. ASSUME NEW e \in todo, Reserve(e) PROVE j \in In({"running"})
  BY <1>3 DEF Reserve, Spawn, Extend, In, Goroutine
<1>4. ASSUME NEW i \in Goroutine, Advance(i)
      PROVE  j \in In({"running"}) \/ (j = i /\ StartCommand(i))
  BY <1>4 DEF Advance, Acquire, Abandon, Begin, StartCommand, StartFails, Exit, Unwind,
     RecordRun, LeaveSlot, Release, Done, KillShell, Move, In, Goroutine
<1> QED
  BY <1>1, <1>2, <1>3, <1>4, Frame

LEMMA ApartStep == ApartInv /\ [Next]_vars => CommandsApart'
<1> SUFFICES ASSUME ApartInv, [Next]_vars,
                    NEW j \in In({"running"})', NEW i \in survivors', i < j,
                    Same(i, j)', ~execution'[j].overlap
             PROVE  i <= inherited'
  BY DEF CommandsApart
<1> USE DEF ApartInv
<1>1. /\ j \in Goroutine /\ stage[j] \in {"holding", "running"}
      /\ j \in In({"running"}) \/ StartCommand(j)
  BY OnlyStartCommand DEF In, StartCommand, Move
<1>2. pc # "down"
  BY <1>1 DEF CountInv, IdleIsEmpty, In, Counted, Reserved
<1>3. UNCHANGED inherited
  BY <1>2, Frame DEF Start
<1>4. ~Crash
  BY DEF Crash, In, Counted, Reserved, Goroutine
<1>5. i \in survivors \/ (i \in Goroutine /\ KillShell(i))
  BY <1>4, Frame DEF KillShell
<1>6. i \in Goroutine /\ UNCHANGED <<execution[i], execution[j]>>
  <2>1. i \in Goroutine
    BY <1>5 DEF CountInv, TypeOK, RecordTypeOK
  <2>2. \A k \in Goroutine : execution'[k] = execution[k]
    <3>1. ASSUME NEW e \in todo, Reserve(e)
          PROVE  \A k \in Goroutine : execution'[k] = execution[k]
      BY <3>1 DEF CountInv, TypeOK, PoolTypeOK, Reserve, Spawn, Extend, Goroutine
    <3> QED
      BY <3>1, Shrinks
  <2> QED
    BY <1>1, <2>1, <2>2
<1>7. Same(i, j) /\ ~execution[j].overlap
  BY <1>6 DEF Same
<1>8. CASE StartCommand(j)
  <2>1. i \in survivors /\ ~cancelled
    BY <1>8 DEF StartCommand
  <2> QED
    BY <2>1, <1>2, <1>3 DEF SurvivorsAreOld
<1>9. CASE j \in In({"running"}) /\ i \in survivors
  BY <1>9, <1>3, <1>7 DEF CommandsApart
<1>10. CASE j \in In({"running"}) /\ KillShell(i)
  BY <1>6, <1>7, <1>10 DEF NoOverlap, KillShell, Move, In, Reserved
<1> QED
  BY <1>1, <1>5, <1>8, <1>9, <1>10

(* A command of a task that allows no overlap meets what survived of an     *)
(* earlier run of the task only if an earlier instance left it: a service   *)
(* kills shells only once it starts nothing more, for every order of signal,*)
(* goroutines, crashes, edits and starts (service.go:105-123; runner.go:61).*)
THEOREM CommandsStayApart == Spec => []CommandsApart
<1>1. Init => SurvivorsAreOld /\ CommandsApart /\ NoOverlap
  BY DEF Init, SurvivorsAreOld, CommandsApart, NoOverlap, In, Goroutine
<1>2. ApartInv /\ [Next]_vars => ApartInv'
  BY CountStep, OverlapStep, OldStep, ApartStep DEF ApartInv
<1>3. ApartInv => CommandsApart
  BY DEF ApartInv
<1> QED
  BY <1>1, <1>2, <1>3, CountInit, PTL DEF Spec, ApartInv
=============================================================================
