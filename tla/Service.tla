------------------------------ MODULE Service ------------------------------
(* The scheduler process: internal/service/service.go with the runner it   *)
(* starts for each execution, the heartbeat row it keeps in the store, and *)
(* the two clocks Go reads.                                                *)
(*                                                                         *)
(* Time is counted in ticks of the service.  A Go time carries a wall      *)
(* clock and a monotonic reading; Before, After and Sub use the monotonic  *)
(* one when both operands have it, the planner uses the wall clock.        *)
(* A goroutine of dispatch is known by its rank in the order of the `go`   *)
(* statements; it stays in the state, as history, when it is over.         *)
EXTENDS Integers, FiniteSets

CONSTANTS
    Task,          \* the registered tasks, by row id (listed ORDER BY id)
    Schedule,      \* Schedule[t]: the wall times at which t occurs
    Overlapping,   \* the tasks whose definition first says allow_overlap
    Editable,      \* the tasks the CLI enables, disables or updates
    MisfireGrace,  \* --misfire-grace, in ticks
    Concurrency,   \* --concurrency
    Faults,        \* which of "suspend", "setback", "crash", "store", "definition" happen
    MaxFaults,     \* bound: how many faults happen
    MaxTime,       \* bound: both clocks stop here
    MaxStarts,     \* bound: how often the service is started
    MaxRuns        \* bound: the goroutines fairness speaks about

ASSUME TaskAssumption == Task \subseteq Nat
ASSUME ScheduleAssumption == Schedule \in [Task -> SUBSET Nat]
ASSUME RegistryAssumption == Overlapping \subseteq Task /\ Editable \subseteq Task
ASSUME FlagAssumption == MisfireGrace \in Int /\ Concurrency \in Int
ASSUME BoundAssumption ==
    /\ MaxFaults \in Nat /\ MaxTime \in Nat /\ MaxStarts \in Nat /\ MaxRuns \in Nat
ASSUME FaultAssumption ==
    Faults \subseteq {"suspend", "setback", "crash", "store", "definition"}

VARIABLES
    wall, mono,    \* the clocks of the machine
    pc,            \* where Service.Run stands
    nextFire,      \* monotonic time of the ticker's next value
    lastTick, now, \* the variables of Run
    todo,          \* the executions dispatch still has to visit
    cancelled,     \* ctx is done
    running,       \* Service.running
    slots,         \* length of the semaphore channel
    active,        \* counter of the WaitGroup
    spawned,       \* how many goroutines dispatch has started so far
    execution,     \* execution[i]: what goroutine i was started with
    stage,         \* stage[i]: where goroutine i stands
    rows,          \* the goroutines whose run is recorded in the store
    registry,      \* the tasks table
    heartbeat,     \* the service_heartbeats row
    startedAt,     \* when the instance started
    survivors,     \* the runs of which something goes on although their shell was
                   \* killed, or their service
    starts, faults, \* how many so far
    since,         \* history: the wall time from which NoSilentLoss counts
    begun,         \* history: the goroutines that entered runner.Run
    inherited,     \* history: the goroutines up to this one are of earlier instances
    announced      \* history: the occurrences whose skipping the log tells

cursor == <<nextFire, lastTick, now, since>>
goroutines == <<spawned, execution, stage>>
counters == <<running, slots, active>>
work == <<todo, goroutines, counters, announced>>
clocks == <<wall, mono>>
budget == <<starts, faults>>
vars == <<pc, cursor, work, clocks, budget, cancelled, registry, heartbeat,
          startedAt, inherited, rows, begun, survivors>>

-----------------------------------------------------------------------------
(* The clamps of New.                                                      *)
MaxConcurrency == IF Concurrency <= 0 THEN 4 ELSE Concurrency
Grace == IF MisfireGrace < 1 THEN 1 ELSE MisfireGrace

Never == -1
Time == [wall : Int, mono : Int]
Now == [wall |-> wall, mono |-> mono]
Execution == [task : Task, at : Nat, overlap : BOOLEAN]
Stage == {"queued", "holding", "running", "finished", "recorded", "unslotted",
          "released", "done", "lost"}
Reserved == {"queued", "holding", "running", "finished", "recorded", "unslotted"}
Holding == {"holding", "running", "finished", "recorded"}
Counted == Reserved \cup {"released"}

Goroutine == 1 .. spawned
In(stages) == {i \in Goroutine : stage[i] \in stages}
ReservedFor(t) == {i \in In(Reserved) : execution[i].task = t}

(* A call to the store with ctx fails once ctx is done; any call fails when *)
(* the database does.                                                       *)
Fault(kind) == kind \in Faults /\ faults < MaxFaults /\ faults' = faults + 1
StoreFault == Fault("store") /\ UNCHANGED starts
StoreWorks == UNCHANGED budget
CallFails == (cancelled /\ UNCHANGED budget) \/ StoreFault
CallWorks == ~cancelled /\ StoreWorks

(* Planner.Due over all the listed tasks: the occurrences in (after, through]. *)
FromStart(at, after, through) == \* mutant: the start of the range belongs to it
    after.wall <= at /\ at <= through.wall

BeforeEnd(at, after, through) == \* mutant: the end of the range does not
    after.wall < at /\ at < through.wall

Within(at, after, through) == after.wall < at /\ at <= through.wall

Due(after, through) ==
    IF through.mono <= after.mono THEN {}
    ELSE UNION {{[task |-> t, at |-> at, overlap |-> registry[t].overlap] :
                   at \in {a \in Schedule[t] : Within(a, after, through)}} :
                t \in {u \in Task : registry[u].active}}

(* Tasks come in the order of their ids, executions of one in time order.  *)
First(e) ==
    e \in todo /\ \A f \in todo : e.task < f.task \/ (e.task = f.task /\ e.at <= f.at)

-----------------------------------------------------------------------------
(* Service.Run                                                             *)
Init ==
    /\ wall = 0 /\ mono = 0
    /\ pc = "down" /\ nextFire = 0
    /\ lastTick = [wall |-> 0, mono |-> 0] /\ now = [wall |-> 0, mono |-> 0]
    /\ todo = {} /\ cancelled = FALSE
    /\ running = [t \in Task |-> 0] /\ slots = 0 /\ active = 0
    /\ spawned = 0 /\ execution = [i \in 1..0 |-> 0] /\ stage = [i \in 1..0 |-> "done"]
    /\ rows = {}
    /\ registry \in [Task -> [active : {TRUE}, overlap : BOOLEAN]]
    /\ \A t \in Task : registry[t].overlap <=> t \in Overlapping
    /\ heartbeat = [last |-> Never, running |-> FALSE, started |-> Never]
    /\ startedAt = 0 /\ starts = 0 /\ faults = 0
    /\ since = 0 /\ begun = {} /\ announced = {} /\ survivors = {} /\ inherited = 0

(* What the steps of the loop leave alone.                                 *)
Goto(from, to) ==
    /\ pc = from /\ pc' = to
    /\ UNCHANGED <<clocks, cancelled, registry, startedAt, inherited, rows, begun, survivors>>

(* New, and Run up to startedAt.                                           *)
Start ==
    /\ pc = "down" /\ starts < MaxStarts
    /\ pc' = "clear" /\ starts' = starts + 1
    /\ startedAt' = wall /\ cancelled' = FALSE /\ inherited' = spawned
    /\ running' = [t \in Task |-> 0] /\ slots' = 0 /\ active' = 0
    /\ UNCHANGED <<cursor, todo, goroutines, announced, clocks, faults, registry,
                   heartbeat, rows, begun, survivors>>

(* The row StopHeartbeat writes.                                           *)
StoppedWithStart(at) == \* mutant: the start time of the old row stays
    [last |-> at, running |-> FALSE, started |-> heartbeat.started]

Stopped(at) == [last |-> at, running |-> FALSE, started |-> Never]

(* StopHeartbeat before anything else; an error ends Run before the deferred *)
(* StopHeartbeat is in place.                                                *)
ClearHeartbeat ==
    /\ \/ CallWorks /\ Goto("clear", "announce") /\ heartbeat' = Stopped(startedAt)
       \/ CallFails /\ Goto("clear", "down") /\ UNCHANGED heartbeat
    /\ UNCHANGED <<cursor, work>>

(* UpdateHeartbeat keeps the start time of the row unless it is empty.     *)
Beat(at) ==
    heartbeat' = [last |-> at, running |-> TRUE,
                  started |-> IF heartbeat.started = Never THEN at ELSE heartbeat.started]

Announce ==
    /\ \/ CallWorks /\ Goto("announce", "ticker") /\ Beat(startedAt)
       \/ CallFails /\ Goto("announce", "stopping") /\ UNCHANGED heartbeat
    /\ UNCHANGED <<cursor, work>>

NewTicker ==
    /\ Goto("ticker", "cursor") /\ nextFire' = mono + 1
    /\ UNCHANGED <<lastTick, now, since, work, budget, heartbeat>>

SetCursor ==
    /\ Goto("cursor", "select") /\ lastTick' = Now /\ since' = wall
    /\ UNCHANGED <<nextFire, now, work, budget, heartbeat>>

(* The ticker holds one value, the time at which it fired; a late reader     *)
(* finds the first it missed, and the next is the first still to come.       *)
Fired == [wall |-> wall - (mono - nextFire), mono |-> nextFire]

Tick ==
    /\ mono >= nextFire /\ nextFire' = mono + 1
    /\ \/ /\ Fired.mono < lastTick.mono /\ Goto("select", "select")
          /\ lastTick' = Fired /\ since' = Fired.wall /\ UNCHANGED now
       \/ /\ Fired.mono >= lastTick.mono /\ Goto("select", "heartbeat")
          /\ now' = Fired /\ UNCHANGED <<lastTick, since>>
    /\ UNCHANGED <<work, budget, heartbeat>>

(* An error of the heartbeat is logged, no more.                           *)
RefreshHeartbeat ==
    /\ Goto("heartbeat", "list")
    /\ \/ CallWorks /\ Beat(now.wall)
       \/ CallFails /\ UNCHANGED heartbeat
    /\ UNCHANGED <<cursor, work>>

(* The cursor moves on although the tasks could not be read.               *)
ListFails ==
    /\ CallFails /\ Goto("list", "select") /\ lastTick' = now /\ since' = now.wall
    /\ UNCHANGED <<nextFire, now, work, heartbeat>>

Earliest == [wall |-> now.wall - Grace, mono |-> now.mono - Grace]
Gap == lastTick.mono < Earliest.mono

AfterTheGap == lastTick \* mutant: the gap is logged, no more

After == IF Gap THEN Earliest ELSE lastTick

(* Planner.Due fails for the tasks of bad (a zone or an expression that can  *)
(* no longer be read): each is logged and left out of this tick.            *)
Unplanned(bad) ==
    \/ bad = {} /\ StoreWorks
    \/ bad # {} /\ Fault("definition") /\ UNCHANGED starts

Logged(bad) ==
    {e \in Due(After, now) : e.task \in bad} \cup (IF Gap THEN Due(lastTick, Earliest) ELSE {})

ListTasks ==
    /\ ~cancelled /\ Goto("list", "dispatch")
    /\ \E bad \in SUBSET Task :
         /\ Unplanned(bad) /\ todo' = {e \in Due(After, now) : e.task \notin bad}
         /\ announced' = announced \cup {<<e.task, e.at>> : e \in Logged(bad)}
    /\ since' = IF now.mono <= lastTick.mono THEN now.wall ELSE since
    /\ UNCHANGED <<nextFire, lastTick, now, goroutines, counters, heartbeat>>

(* The check of ctx before each execution, and the return of dispatch.     *)
PendingForever == ~cancelled \* mutant: the end of the executions is missed

Pending == todo # {} /\ ~cancelled

NextExecution ==
    /\ Pending /\ Goto("dispatch", "reserve")
    /\ UNCHANGED <<cursor, work, budget, heartbeat>>

(* The cursor after a tick.                                                *)
Reached == now

Dispatched ==
    /\ ~Pending /\ Goto("dispatch", "select") /\ todo' = {} /\ lastTick' = Reached
    /\ UNCHANGED <<nextFire, now, since, goroutines, counters, announced, budget, heartbeat>>

SlotTaken == slots <= MaxConcurrency \* mutant: one more than the channel holds

SlotFree == slots < MaxConcurrency

Extend(f, v) == [i \in 1..(spawned + 1) |-> IF i \in Goroutine THEN f[i] ELSE v]

SpawnWithSlot(e) == \* mutant: the loop itself waits for the semaphore
    /\ SlotFree /\ spawned' = spawned + 1
    /\ execution' = Extend(execution, e) /\ stage' = Extend(stage, "queued")

Spawn(e) ==
    /\ spawned' = spawned + 1
    /\ execution' = Extend(execution, e) /\ stage' = Extend(stage, "queued")

FreeForTwo(e) == e.overlap \/ running[e.task] <= 1 \* mutant: off by one

Free(e) == e.overlap \/ running[e.task] <= 0

(* reserve, active.Add(1) and the go statement.                            *)
Reserve(e) ==
    /\ First(e) /\ Free(e) /\ Goto("reserve", "dispatch") /\ todo' = todo \ {e}
    /\ running' = [running EXCEPT ![e.task] = @ + 1]
    /\ active' = active + 1
    /\ Spawn(e)
    /\ UNCHANGED <<cursor, slots, announced, budget, heartbeat>>

SkipOverlap(e) ==
    /\ First(e) /\ ~Free(e) /\ Goto("reserve", "dispatch") /\ todo' = todo \ {e}
    /\ announced' = announced \cup {<<e.task, e.at>>}
    /\ UNCHANGED <<cursor, goroutines, counters, budget, heartbeat>>

CancelSeen ==
    /\ cancelled /\ Goto("select", "drain")
    /\ UNCHANGED <<cursor, work, budget, heartbeat>>

(* active.Wait.                                                            *)
QuietAtOnce == TRUE \* mutant: Run returns without active.Wait

Quiet == active = 0

Drain ==
    /\ Quiet /\ Goto("drain", "stopping")
    /\ UNCHANGED <<cursor, work, budget, heartbeat>>

(* The deferred StopHeartbeat, with a context of its own.                  *)
StopHeartbeat ==
    /\ Goto("stopping", "down") /\ UNCHANGED <<cursor, work>>
    /\ \/ StoreWorks /\ heartbeat' = Stopped(wall)
       \/ StoreFault /\ UNCHANGED heartbeat

-----------------------------------------------------------------------------
(* The goroutines of dispatch.                                             *)
Move(i, from, to) ==
    /\ stage[i] \in from /\ stage' = [stage EXCEPT ![i] = to]
    /\ UNCHANGED <<pc, cursor, todo, spawned, execution, announced, clocks,
                   cancelled, registry, heartbeat, startedAt, inherited>>

Acquire(i) ==
    /\ SlotFree /\ Move(i, {"queued"}, "holding")
    /\ slots' = slots + 1 /\ begun' = begun \cup {i}
    /\ UNCHANGED <<running, active, budget, rows, survivors>>

AbandonWithoutDone(i) == \* mutant: the defers come after the select
    /\ cancelled /\ Move(i, {"queued"}, "done")
    /\ UNCHANGED <<counters, budget, rows, begun, survivors>>

Abandon(i) ==
    /\ cancelled /\ Move(i, {"queued"}, "unslotted")
    /\ UNCHANGED <<counters, budget, rows, begun, survivors>>

StartAnyway(i) == \* mutant: a command is started although ctx is done
    /\ Move(i, {"holding"}, "running")
    /\ UNCHANGED <<counters, budget, rows, begun, survivors>>

(* exec.CommandContext starts nothing once ctx is done.                    *)
StartCommand(i) ==
    /\ ~cancelled /\ Move(i, {"holding"}, "running")
    /\ UNCHANGED <<counters, budget, rows, begun, survivors>>

(* No log file, no shell, or ctx is done.                                  *)
StartFails(i) ==
    /\ Move(i, {"holding"}, "finished")
    /\ UNCHANGED <<counters, budget, rows, begun, survivors>>

(* The shell of the command ends by itself.                                *)
Exit(i) ==
    /\ Move(i, {"running"}, "finished")
    /\ UNCHANGED <<counters, budget, rows, begun, survivors>>

(* When ctx is done the shell is killed, and the shell only: what it was    *)
(* waiting for goes on, unless it had become the command itself.           *)
KillShell(i) ==
    /\ cancelled /\ Move(i, {"running"}, "finished")
    /\ UNCHANGED <<counters, budget, rows, begun>>
    /\ \/ survivors' = survivors \cup {i}
       \/ UNCHANGED survivors

(* The row is written with a context of its own, failed runs included.     *)
SaveNothing(i) == UNCHANGED rows \* mutant: nobody records the run

SaveRow(i) == rows' = rows \cup {i}

RecordRun(i) ==
    /\ Move(i, {"finished"}, "recorded")
    /\ \/ StoreWorks /\ SaveRow(i)
       \/ StoreFault /\ UNCHANGED rows
    /\ UNCHANGED <<counters, begun, survivors>>

KeepSlot == UNCHANGED slots \* mutant: the slot is never given back

GiveSlotBack == slots' = slots - 1

LeaveSlot(i) ==
    /\ Move(i, {"recorded"}, "unslotted") /\ GiveSlotBack
    /\ UNCHANGED <<running, active, budget, rows, begun, survivors>>

KeepReservation(t) == UNCHANGED running \* mutant: release is missing

DropReservations(t) == \* mutant: release deletes the key whatever its count
    running' = [running EXCEPT ![t] = 0]

Unreserve(t) == running' = [running EXCEPT ![t] = @ - 1]

Release(i) ==
    /\ Move(i, {"unslotted"}, "released") /\ Unreserve(execution[i].task)
    /\ UNCHANGED <<slots, active, budget, rows, begun, survivors>>

Done(i) ==
    /\ Move(i, {"released"}, "done") /\ active' = active - 1
    /\ UNCHANGED <<running, slots, budget, rows, begun, survivors>>

-----------------------------------------------------------------------------
(* The environment.                                                        *)
Outside ==
    UNCHANGED <<cursor, work, starts, heartbeat, startedAt, inherited, rows, begun, survivors>>

Elapse ==
    /\ wall < MaxTime /\ mono < MaxTime /\ wall' = wall + 1 /\ mono' = mono + 1
    /\ Outside /\ UNCHANGED <<pc, cancelled, registry, faults>>

(* While the machine sleeps, the monotonic clock of Go stands still.       *)
Suspend ==
    /\ Fault("suspend") /\ \E w \in (wall + 2)..MaxTime : wall' = w
    /\ Outside /\ UNCHANGED <<pc, mono, cancelled, registry>>

SetBack ==
    /\ Fault("setback") /\ \E w \in 0..(wall - 1) : wall' = w
    /\ Outside /\ UNCHANGED <<pc, mono, cancelled, registry>>

(* SIGINT or SIGTERM.                                                      *)
Cancel ==
    /\ pc # "down" /\ ~cancelled /\ cancelled' = TRUE
    /\ Outside /\ UNCHANGED <<pc, clocks, registry, faults>>

(* SetTaskActive or UpdateTask of a concurrent CLI process.                *)
Edit(t) ==
    /\ \/ /\ registry' = [registry EXCEPT ![t].active = ~@]
          /\ since' = IF pc \in {"dispatch", "reserve"} THEN now.wall ELSE lastTick.wall
       \/ registry' = [registry EXCEPT ![t].overlap = ~@] /\ UNCHANGED since
    /\ UNCHANGED <<nextFire, lastTick, now, work, starts, heartbeat, startedAt, inherited,
                   rows, begun, survivors, pc, clocks, cancelled, faults>>

(* The process dies; the shells it started do not.                         *)
Crash ==
    /\ pc # "down" /\ Fault("crash") /\ pc' = "down" /\ todo' = {}
    /\ running' = [t \in Task |-> 0] /\ slots' = 0 /\ active' = 0
    /\ survivors' = survivors \cup In({"running"})
    /\ stage' = [i \in Goroutine |-> IF stage[i] \in Counted THEN "lost" ELSE stage[i]]
    /\ UNCHANGED <<cursor, spawned, execution, announced, clocks, starts, cancelled,
                   registry, heartbeat, startedAt, inherited, rows, begun>>

SurvivorEnds(i) ==
    /\ survivors' = survivors \ {i}
    /\ UNCHANGED <<pc, cursor, work, clocks, budget, cancelled, registry, heartbeat,
                   startedAt, inherited, rows, begun>>

-----------------------------------------------------------------------------
Loop == \/ ClearHeartbeat \/ Announce \/ NewTicker \/ SetCursor \/ Tick
        \/ RefreshHeartbeat \/ ListFails \/ ListTasks \/ NextExecution \/ Dispatched
        \/ CancelSeen \/ Drain \/ StopHeartbeat
        \/ \E e \in todo : Reserve(e) \/ SkipOverlap(e)

Begin(i) == StartCommand(i) \/ StartFails(i)
Unwind(i) == RecordRun(i) \/ LeaveSlot(i) \/ Release(i) \/ Done(i)
Advance(i) ==
    Acquire(i) \/ Abandon(i) \/ Begin(i) \/ Exit(i) \/ KillShell(i) \/ Unwind(i)

Environment ==
    \/ Elapse \/ Suspend \/ SetBack \/ Cancel \/ Crash
    \/ \E t \in Editable : Edit(t)
    \/ \E i \in survivors : SurvivorEnds(i)

Next == Start \/ Loop \/ Environment \/ \E i \in Goroutine : Advance(i)

Spec == Init /\ [][Next]_vars

(* The Go runtime runs every goroutine that can run; a select with several  *)
(* ready cases picks one at random, so a case ready at every visit is taken *)
(* in the end; waiting senders of a channel are served in order.  Nothing   *)
(* is assumed of a command, except that its shell ends when it is killed.   *)
LoopFairness == WF_vars(Loop) /\ SF_vars(CancelSeen)
Fairly(i) ==
    /\ SF_vars(i \in Goroutine /\ (Acquire(i) \/ Abandon(i)))
    /\ WF_vars(i \in Goroutine /\ (Begin(i) \/ Unwind(i) \/ KillShell(i)))
CommandsEnd == \A i \in 1..MaxRuns : WF_vars(i \in Goroutine /\ Exit(i))

FairSpec == Spec /\ LoopFairness /\ \A i \in 1..MaxRuns : Fairly(i)

-----------------------------------------------------------------------------
MachineTypeOK ==
    /\ wall \in Nat /\ mono \in Nat /\ cancelled \in BOOLEAN
    /\ startedAt \in Nat /\ starts \in Nat /\ faults \in Nat
    /\ inherited \in 0..spawned

LoopTypeOK ==
    /\ pc \in {"down", "clear", "announce", "ticker", "cursor", "select", "heartbeat",
               "list", "dispatch", "reserve", "drain", "stopping"}
    /\ nextFire \in Nat /\ lastTick \in Time /\ now \in Time /\ since \in Int
    /\ todo \subseteq Execution /\ (pc = "reserve" => todo # {})

PoolTypeOK ==
    /\ running \in [Task -> Int] /\ slots \in Int /\ active \in Int
    /\ spawned \in Nat
    /\ execution \in [Goroutine -> Execution] /\ stage \in [Goroutine -> Stage]

RecordTypeOK ==
    /\ registry \in [Task -> [active : BOOLEAN, overlap : BOOLEAN]]
    /\ heartbeat \in [last : Int, running : BOOLEAN, started : Int]
    /\ rows \subseteq Goroutine /\ begun \subseteq Goroutine /\ survivors \subseteq Goroutine
    /\ announced \subseteq Task \X Nat

(* Every variable holds a value of its kind, and dispatch never reaches for *)
(* an execution when none is left (service.go:105-109).                    *)
TypeOK == MachineTypeOK /\ LoopTypeOK /\ PoolTypeOK /\ RecordTypeOK

Same(i, j) == execution[i].task = execution[j].task

(* The reservation map, the semaphore and the WaitGroup count exactly the   *)
(* goroutines between the matching pair of calls (service.go:109-123).     *)
CountersExact ==
    pc # "down" =>
      /\ \A t \in Task : running[t] = Cardinality(ReservedFor(t))
      /\ slots = Cardinality(In(Holding))
      /\ active = Cardinality(In(Counted))

(* While an execution holds its task's reservation, no later execution of   *)
(* the task is started unless its definition allowed overlap when the tick  *)
(* read it (service.go:128-136; architecture.md:65).                       *)
NoOverlap ==
    \A i, j \in In(Reserved) : i < j /\ Same(i, j) => execution[j].overlap

(* Never more runs in the runner than the limit (service.go:117-120;       *)
(* architecture.md:66).                                                    *)
ConcurrencyLimit == Cardinality(In(Holding)) <= MaxConcurrency

(* No occurrence is started twice, whatever the cursor goes through: late   *)
(* ticks, failed reads, crashes and restarts (scheduler.go:23-24), as long *)
(* as nobody sets the clock back.                                          *)
AtMostOnce ==
    \A i, j \in Goroutine : i # j /\ Same(i, j) => execution[i].at # execution[j].at

(* An occurrence that is older than the misfire grace when its tick comes   *)
(* is not started (service.go:87-91; architecture.md:64, README.md:219-221). *)
MisfireSkipped == \A e \in todo : e.at > now.wall - Grace

(* Between ticks, every occurrence between the last reset of the cursor     *)
(* (the start, a tick not after it, a failed read of the tasks) or the last *)
(* enable or disable, and the cursor, of an enabled task, has been started, *)
(* or the log tells that it was skipped (service.go:65-93).                *)
NoSilentLoss ==
    pc = "select" /\ ~cancelled =>
      \A t \in Task : \A at \in Schedule[t] :
        registry[t].active /\ since < at /\ at <= lastTick.wall =>
          \/ <<t, at>> \in announced
          \/ \E i \in Goroutine : execution[i].task = t /\ execution[i].at = at

(* When the heartbeat row says the service is stopped, no shell of a run is *)
(* under its care any more, and every run that was begun and not cut short  *)
(* by a crash is in the store (service.go:50-56, 70; architecture.md:67).   *)
(* What a killed shell had started may still go on (runner.go:61).          *)
StoppedMeansQuiet ==
    ~heartbeat.running => begun \ In({"lost"}) \subseteq rows

(* A command of a task that allows no overlap runs beside what survived of  *)
(* an earlier run of the task only if an earlier instance of the service    *)
(* left that behind: within one instance killing the shells never lets two  *)
(* commands of the task meet (service.go:105-117; runner.go:61;             *)
(* architecture.md:65).                                                    *)
CommandsApart ==
    \A j \in In({"running"}) : \A i \in survivors :
      i < j /\ Same(i, j) /\ ~execution[j].overlap => i <= inherited

(* In the loop the row says running and tells when this very instance       *)
(* started, also after a crash left the row of another (service.go:50-59). *)
HeartbeatHonest ==
    pc \in {"ticker", "cursor", "select", "heartbeat", "list", "dispatch", "reserve", "drain"}
      => heartbeat.running /\ heartbeat.started = startedAt

(* When a command of a task that allows no overlap runs, every earlier run  *)
(* of the task is in the store: the store gets the runs of such a task in  *)
(* the order of their starts (service.go:114-121, runner.go:40).           *)
RecordedInOrder ==
    \A j \in In({"running"}) : \A i \in begun \ In({"lost"}) :
      i < j /\ Same(i, j) /\ ~execution[j].overlap => i \in rows

(* Shutdown ends: commands are killed, what waits for a slot gives up, the  *)
(* WaitGroup reaches zero (service.go:69-72; architecture.md:67).          *)
ShutdownCompletes == cancelled ~> pc = "down"

(* Dispatching never waits for a command, however long it runs: each tick   *)
(* finds its way back to the select (architecture.md:81).                  *)
DispatchNeverBlocks == pc = "dispatch" ~> pc \in {"select", "down"}

(* The service is a JobPool: reservation map and semaphore do what the      *)
(* abstract specification says of sets of jobs.                            *)
PoolJob(i) == [task |-> execution[i].task, overlap |-> execution[i].overlap]
PoolStatus(i) ==
    CASE stage[i] = "queued" -> "waiting"
      [] stage[i] \in Holding -> "working"
      [] stage[i] = "unslotted" -> "leaving"
      [] OTHER -> "over"
Pool == INSTANCE JobPool WITH
    Limit <- MaxConcurrency, count <- spawned,
    job <- [i \in Goroutine |-> PoolJob(i)], status <- [i \in Goroutine |-> PoolStatus(i)]
ImplementsPool == Pool!Spec

(* If commands end, what was started gets its turn and gives back its slot  *)
(* and its reservation (service.go:117-121).                               *)
EveryRunServed ==
    CommandsEnd =>
      \A i \in 1..MaxRuns : i \in In(Counted) ~> i \notin In(Counted)
=============================================================================
