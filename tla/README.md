# RunBinder verification project

TLA+ specifications of [RunBinder](../src/README.md), a command-line task
scheduler with one background service per storage directory, with the TLC
models that check them on small instances and TLAPS proofs of the results that
should hold for every instance. File names below are relative to
`src/internal/`.

## 1. The system

| Component | Source | State | Operations | Interacts with |
| --- | --- | --- | --- | --- |
| Service loop | `service/service.go` | cursor `lastTick`, ticker, reservation map, semaphore, WaitGroup | `Run`, `dispatch`, `reserve`, `release` | planner (call), runner (goroutines), store (rows), context (SIGTERM) |
| Runner | `runner/runner.go` | the child process of a run | `Run`, `execute` | store (`RecordRun`), task log |
| Scheduler | `scheduler/scheduler.go` | none | `Due` | Go's time zones, robfig/cron |
| Service lifecycle | `app/service.go`, `cli/service.go`, `cli/nuke.go` | which processes exist | `Run`, `StartDetached`, `Stop`, `Status`, `Reset` | lock file, PID file, signals, heartbeat row |
| Lock and processes | `service/lock_unix.go`, `process.go`, `process_unix.go` | flock, PID file | `AcquireLock`, `Close`, `WritePID`, `ReadPID`, `RemovePID`, `StopProcess` | kernel |
| Store | `store/sqlite.go` | tables `tasks`, `runs`, `service_heartbeats` | one SQL statement each, `UpdateTask` two | every process that opens it |
| Migrations | `store/migrations.go` | `schema_migrations` | `migrate` in one transaction | other openers of the file |
| Task registry | `app/tasks.go`, `app/definitions.go` | definition files | `Add`, `Update`, `SetActive`, `Remove`, `Run` | store; the service sees it at its next tick |
| Definitions | `taskconfig/config.go` | none | `Parse`, `Validate`, `Canonical` | planner, registry |
| Logs, paths, CLI | `platform/`, `cli/` | files | `Write`, `Tail`, prompts | user |

**What is hard.** The loop, one goroutine per run, a signal and the CLI in other
processes interleave freely. The machine sleeps and its clock is set back; Go
compares monotonic readings where they exist and the planner compares wall
times. The service may be killed at any statement: the reservation map dies with
it, its children and its database row do not. Several CLI processes probe a lock
a starting service needs, and remove a PID file it may just have written. Days
are not all 24 hours long and do not all begin at midnight.

**What makes each part correct.**

* Loop: an occurrence is started at most once and is not lost silently; late ones
  are skipped; runs of one task do not overlap unless allowed; the limit is
  kept; a tick never waits for a command; shutdown ends and, as far as the
  database answers, leaves a true heartbeat row and complete bookkeeping.
* Scheduler: however time is cut into ticks, every occurrence is returned once,
  in order, on the day it belongs to; `Due` returns.
* Lifecycle: one service at a time; a command's report was true; a service can be
  found to be stopped.
* Registry: each command takes effect at one instant and reports what it did; an
  enable is not taken back by a command beside it.
* Migrations: a database goes from one complete version to another at once,
  whoever opens it and dies opening it; who has it open has every table it
  names; opening ends.
* Runs: the service records into the database that has the name; `list` shows
  the latest run.

`PROJECT.json` lists every component, what is covered, and the hazards at the
lines where they bite.

## 2. Modules

| Module | Models | Checked by |
| --- | --- | --- |
| `Service` | `service.go`, `runner.go`, the heartbeat and run rows, the two clocks | `MCService`, `Service_*.cfg` |
| `JobPool` | abstract: what `dispatch` promises about starting jobs | refinement `ImplementsPool` of `Service` |
| `ServiceProofs` | theorems about the goroutines of `Service`, types and counters | TLAPS |
| `RecordProofs` | theorems about its rows: heartbeat and runs | TLAPS |
| `CursorProofs` | theorems about its cursor: nothing lost, late or twice | TLAPS |
| `Lifecycle` | `app/service.go`, lock, PID file, signals | `MCLifecycle`, `Lifecycle_*.cfg` |
| `LifecycleProofs` | theorems about `Lifecycle` | TLAPS |
| `Planner` | `scheduler.go` under a sequence of ticks | `MCPlanner`, `Planner_*.cfg` |
| `PlannerProofs` | theorems about `Planner` | TLAPS |
| `Registry` | `app/tasks.go`, the task statements of `sqlite.go`, `Load` | `MCRegistry`, `Registry_race.cfg` |
| `Catalog` | abstract: atomic commands over the tasks table | refinement `ImplementsCatalog` of `Registry` |
| `RegistryProofs` | theorems about `Registry` | TLAPS |
| `Migrations` | `OpenSQLite` and `migrate`, several processes and releases | as part of `Storage` |
| `MigrationsProofs` | theorems about `Migrations` | TLAPS |
| `Schema` | abstract: what opening a database promises | refinement `ImplementsSchema` of `Migrations` |
| `Stored` | `formatTime` and the text order of what it writes | as part of `Storage` |
| `Storage` | composes the two with `Service.Run`'s lock, `Runner.Run`, `RecordRun`, `LastRun` and `Reset` | `MCStorage`, `Storage_*.cfg` |
| `StorageProofs` | theorems about `Storage` | TLAPS |

### Service

`pc` follows `Run` from statement to statement; between two values of it other
goroutines, processes or the clock may act. The loop's steps are `Start`,
`ClearHeartbeat`, `Announce`, `NewTicker`, `SetCursor`; per tick `Tick`,
`RefreshHeartbeat`, `ListFails` or `ListTasks`, then `NextExecution` with
`Reserve` or `SkipOverlap` for each execution in the order of `dispatch`, and
`Dispatched`; and on the way out `CancelSeen`, `Drain`, `StopHeartbeat`. A
goroutine of `dispatch` has a `stage`: it takes a slot (`Acquire`) or gives up
(`Abandon`), runs its command (`StartCommand`, `StartFails`, `Exit`,
`KillShell`), writes its row (`RecordRun`) and runs its deferred calls one by one (`LeaveSlot`,
`Release`, `Done`). Goroutines are numbered in the order they are started and
stay in the state when they are over, so that properties can speak of the past.

The environment advances the clocks (`Elapse`), puts the machine to sleep
(`Suspend`: the wall clock moves and the monotonic one does not), sets the clock
back (`SetBack`), sends SIGTERM (`Cancel`), edits a task between any two steps
(`Edit`) and kills the process (`Crash`). `Due` is abstracted to a set of wall
times per task, of which a call returns those in `(after, through]`; `Planner`
looks inside. The command of a run, log lines and SQL are abstracted to their
outcomes. Store errors are the fault `"store"`; an error of `Due` for some of the
tasks, which `dispatch` logs before it goes on with the others, is the fault
`"definition"` (`Unplanned`, `Logged`).

The end of a run is not the end of what it started. `exec.CommandContext` kills
`/bin/sh` and nothing else, and since the output goes to a file `Wait` does not
wait for anybody who still holds it. `Exit` is the shell that ends by itself;
`KillShell` ends the run and may put it among the `survivors`, the runs of which
something goes on; a crash leaves every running command there. `inherited`
is history: the goroutines up to that number belong to earlier instances.

`JobPool` knows only jobs, which ones are waiting or running and the limit.
`Service` instantiates it with the refinement mapping `PoolJob`/`PoolStatus`:
the reservation map, the semaphore and the deferred calls do not appear in it.

### Lifecycle

A service process has a `stage` that follows `app.Service.Run` from
`AcquireLock` to the end of its deferred calls; a client (`service --detach`,
`service stop`, `nuke`) has a `pc` that follows `StartDetached`, `Stop` or
`Reset` call by call. Each system call or SQL statement that touches shared
state is a step of its own: `RemovePID` with an expected PID is a read
(`MatchPID`) and a removal; the PID file and the row are read in two steps
(`PollProcess`, `PollHeartbeat`); `StartDetached` reads the clock (`NoteStart`)
and then forks (`SpawnChild`). A client in `Removing` has made up its mind to
remove the PID file and does not look again; the history variable `overtaken`
names the services that wrote the file while one stood there, the only ones
`Published` excuses. `fresh` stands for the comparison of the row's
`last_at` with a client's `startedAt`: it is the set of clients for which
`!Last.Before(startedAt)` holds. A SIGTERM is pending from `StopProcess` until
the process goes; the process may notice it at any later statement. Each
statement of a service on its row may fail, for whatever reason: before the loop
that ends `Run`, the error of the deferred `StopHeartbeat` is ignored. The history
variable `stale` remembers that a row was left running, by such an error or by a
crash. PIDs are given out once.

`StartDetached` never waits for its child. As long as it runs, a child that is gone
is a zombie, and signal 0 finds it (`Answers`): its parent polls until the five
seconds are over, and the error "exited during startup" (`app/service.go:111`) is
not reached on Unix. A `stop` beside it sees the service end only when that
parent has gone too.

### Planner

One task, one zone, any ticks. `Tick` is the call of `Due`, `AddCron` an
iteration of its cron loop and `CronDone` its end, `VisitDate` an iteration of
the date loop, `Return` the sort and the assignment of the cursor in
`service.go:93`. `next` is the variable of whichever loop `Due` is in. The calendar (`TimeDate` is Go's `time.Date`
with its single correction of the guessed offset, `CronNext` is robfig's
`Next`, zero time included) is external and modelled by what the code relies on.
Days have eight hours in the instances; nothing in the algorithm depends on 24.
`Sorted` is the sort at the end of `Due`, written by ranks: the one of the
community modules rests on an operator that only TLC evaluates.

### Registry

A client is a CLI process that runs `add`, `update`, `enable`, `disable`, `remove`
or `run`; `pc` says which call comes next. Reading the file (`Load`), the SELECT
(`FindTask`, or `SetActive`, `Remove` and `Run` after `resolve`) and the statement
that writes (`AddTask`, `WriteTask`, `SetTaskActive`, `RemoveTask`) are steps of
their own, because SQLite is only held for one statement. Any of them may fail
(`Fail`), and files are edited in between (`Edit`). A version stands for what
`update` compares: hash, working directory and path. `file` holds one definition
per namespace. Opening the database is left to `Migrations`.

`Catalog` has one action per command: between being asked and answered a command
changes the table once, and its answer is about the table at that instant. The
refinement mapping is the identity, and a command is open while its `pc` is not
idle. The one action of `Catalog` that nobody would specify is `UpdateNothing`:
`UpdateTask` ignores `RowsAffected` (`store/sqlite.go:68`), unlike
`SetTaskActive` and `RemoveTask`, so an `update` whose task is removed between its
two statements says "Updated task" and has updated nothing. Without that action
the refinement fails.

### Migrations and Schema

`pc` of a process follows `migrate`: the pragmas (`Open`, which fails when
`journal_mode` finds the file in use, because `busy_timeout` is set after it),
`CREATE TABLE IF NOT EXISTS` (`Create`, `FindTable`, or `FindLocked` and then
`CreateAfterWait` or `TimeOut`), the two reads and their verdict (`ReadApplied`,
`RefuseLegacy`), one step per missing migration (`ApplyMigration`,
`CannotWrite`), and `RejectUnknown`, `Commit` or `CommitFails`. The deferred
`Rollback`, `db.Close` and the death of the process are `End`. What SQLite does
is external and is the rest of the model: a transaction works on a snapshot
(`snap`), one process at a time has the write lock of a file (`writer`), a
transaction that begins by writing waits for it (outside `migrate` such a
statement may also fail: `WriteFails`), and one that has read first
fails at once when the lock is taken or its snapshot is out of date (`behind`).
A file is what a name stands for until `nuke` deletes it: who has it open keeps
it, `file` is the one with the name. Each process is of a release that knows the
migrations `1..known[p]`, so that older and newer binaries meet. The statements
of a migration are one element of `done`, its row one of `marked`; the model keeps
them apart so that a database in which they differ could be reached.

`Schema` knows files, the versions in them and who has what open; opening is one
step, which writes all the missing versions or none. A process whose snapshot already
has exactly its migrations counts as through (`Settled`), because what others
commit before its own empty `Commit` no longer concerns it.

### Stored and Storage

`Storage` runs `Migrations` from the service (`Daemon`, under the service's lock)
and from commands, and lets whoever has the database open run tasks: `StartRun`
reads the clock, `RecordRun` writes the row to the file the process opened,
`LoseRun` is a failed insert. `Reset` holds the service's lock while it deletes
the file. `LastRun` is the query of `list`, over the file that has the name. The
lock's own races are those of `Lifecycle`.

`Stored` keeps of RFC3339Nano what its text order depends on: the local second,
and the characters that follow it, as numbers. The zone of a process is a
function from instants to offsets, so that clocks can go back.

## 3. Runs

| Run | Instance | What it shows |
| --- | --- | --- |
| `service_runs` | two tasks, one slot, grace of two ticks, clock to 4, a crash, two starts | counters exact, no overlap, limit, misfire grace, rows in order, at most once, heartbeat row honest, stopped means quiet, commands of one instance apart, implements `JobPool` |
| `service_clocks` | an edited task, two slots, one of: sleep, clock set back, store error, unreadable definition | overlap only as the definition of the tick allows, no silent loss |
| `service_live` | one task with overlap, one slot, fairness | shutdown ends, ticks never wait, every run gets its slot |
| `service_suspend` | a sleep of the machine | **violated**: the misfire grace of README 219-221 |
| `lifecycle_race` | two clients, foreground starts, two services, one killed, three commands | one service at a time; from `WritePID` to the end of its loop a service has its PID in the file; the row says running for a service that runs, or for one that was killed or could not write that it stopped; "not running" and "started" were true |
| `planner_ticks` | eight zones, six definitions, ticks of up to ten instants over three days | once, in order, exactly what the definition means; once a day; `Due` ends |
| `planner_midnight` | a zone that skips midnight, west of Greenwich | **violated**: once a day |
| `planner_every` | `@every` three instants, ticks of at most two | **violated**: returns what the definition means |
| `planner_never` | a cron date that never comes | **violated**: `Due` ends |
| `storage_open` | a service and a command, two releases, two files, one of: death, timeout, failed commit; two runs, a zone whose clocks go back beside UTC | no file between two versions, migrations once and in order, tables found, the advice to delete is right, the service keeps its database, the latest run as far as the text order goes, implements `Schema`, every open ends |
| `storage_zone` | both processes in UTC | **violated**: `list` shows the latest run |
| `registry_race` | two clients, four commands, two namespaces, two versions, one edit | ids unique, an enable is not taken back, implements `Catalog` |

**Bounds.** Every bound is a constant named `Max...` or `Horizon` and appears in a
guard. Three or four ticks are enough for a late tick, the grace boundary, a
repeated tick and a restart; two tasks and one slot are the least that make a
run wait for another task's; two slots the least in which two runs of one task
could overlap. One fault per behaviour keeps the runs small and is what each
property speaks about; `Lifecycle` needs two services to compete and two
clients to race, and three commands for start, stop and a third in between;
the registry's fourth command is the one beside add, enable and update or remove
of one task; two openers suffice for SQLite's lock, which has one holder and treats all
who wait alike, and two migrations for a partial upgrade and for an older binary
beside a newer. The three instants of `MCStorage` are two in one second, one
fraction a beginning of the other, and one more than a second later, after the
clocks went back. The planner's days hold a transition, the day before and the
day after. Deadlock is not checked: services stop, and bounded clocks and budgets
run out.

**Fairness** (`Service!FairSpec`). Weak fairness of the loop and of each goroutine's
steps is what the Go scheduler gives. A `select` with several arms ready picks
one at random, so an arm that is ready at every visit is taken in the end
(strong fairness of `CancelSeen`), and senders waiting on a channel are served
in order (strong fairness of `Acquire` or `Abandon` of one goroutine).
`CommandsEnd` (a
command exits) is assumed only where a property is about getting a slot, and
after cancellation the shell of a command is killed by `exec.CommandContext`, and
its end is all that `Wait` waits for (weak fairness of `KillShell`). `Planner!FairSpec`
says that the loops of `Due`, which wait for nothing, go on. `Storage!FairSpec` says
that a process that can take the next step of `migrate` takes it
(`WF_private(Migrate(p))`); nobody is assumed to time out, to die or to close, so
`EveryOpenEnds` shows that nobody waits for a lock whose holder waits.

**Findings.**

1. *Sleep* (`service_suspend`): `now` and `lastTick` carry monotonic readings,
   which stand still while the machine sleeps, so no gap is seen and everything
   that fell into the sleep is started.
2. *Skipped midnight* (`planner_midnight`): where the clock goes from 24:00 to
   01:00 and the zone is west of Greenwich, `time.Date` answers 23:00 of the day
   before for that midnight; the date loop then never names the date, and none of
   its times of day fire. East of Greenwich the answer is 01:00 of the date
   itself; `AddDate` keeps that clock, so on the tick that spans the midnight after
   it the loop stops before the new date, whose `00:00:00` is lost (the same
   run with `Place(1, 2, 15)` and `Only({0})`). Where the clocks go back over a
   midnight, a tick that straddles the transition begins after the date it ends on
   (`Place(2, 0, 15)`, `Only({7})`).
3. *`@every`* (`planner_every`): the delay counts from the cursor, which
   moves every tick; only a delay of one tick ever comes due.
4. *Dates that never come* (`planner_never`): `Validate` accepts
   `0 0 30 2 *`; `Next` answers the zero time, which is never after `through`,
   and the loop of the service spins. TLC shows it as a state whose only step,
   `AddCron`, changes nothing.

5. *Latest run* (`storage_zone`): `LastRun` orders by text, RFC3339Nano drops the
   zeros at the end of a fraction, and `Z` sorts after digits: in UTC a run
   started at `.2` is taken for later than one at `.25` of the same second. With
   other offsets the sign sorts before digits and the fraction does no harm, but
   rows of before the clocks go back, or of a process in another zone, sort by
   their local time. `LatestAtOneOffset` and `LatestWithinOffsets` say what remains
   true.

Three races are part of the model and are excused by what the properties say
rather than absent. `Stop` and `StartDetached` remove the PID file after closing
their probe, whoever wrote it by then, and the removal after a comparison is no
more atomic: `Published` excuses a service that was overtaken in this way, and
only that. `StartedMeansServing` excuses a command during which another service
held the lock after `app/service.go:85`, because the row does not say whose it is.
And what a command had started survives its service, after a graceful stop as well
as after a crash, and may run beside the commands of the next one: `NoOverlap`
speaks of the runs of one process, `StoppedMeansQuiet` of shells and rows, and
`CommandsApart` says that only what an earlier instance left behind meets a later
command of a task that allows no overlap. Within one instance that takes an argument: the
shells are killed while other goroutines still run, so it must be known that from
then on no command starts.

## 4. Proofs

| Theorem | Statement |
| --- | --- |
| `ServiceProofs!TypeCorrect` | `Spec => []TypeOK` |
| `ServiceProofs!CountersAreExact` | `Spec => []CountersExact` |
| `ServiceProofs!OverlapIsAllowed` | `Spec => []NoOverlap` |
| `ServiceProofs!LimitIsKept` | `Spec => []ConcurrencyLimit` |
| `ServiceProofs!ServiceImplementsPool` | `Spec => ImplementsPool` |
| `RecordProofs!HeartbeatIsHonest` | `Spec => []HeartbeatHonest` |
| `RecordProofs!StoppedIsQuiet` | `Spec => []StoppedMeansQuiet`, if no store fault |
| `RecordProofs!RunsAreInOrder` | `Spec => []RecordedInOrder`, if no store fault |
| `RecordProofs!CommandsStayApart` | `Spec => []CommandsApart` |
| `CursorProofs!NothingIsLostSilently` | `Spec => []NoSilentLoss` |
| `CursorProofs!LateOnesAreSkipped` | `Spec => []MisfireSkipped`, if the machine does not sleep |
| `CursorProofs!StartedAtMostOnce` | `Spec => []AtMostOnce`, if nobody sets the clock back |
| `LifecycleProofs!TypeCorrect` | `Spec => []TypeOK` |
| `LifecycleProofs!OneServiceAtATime` | `Spec => []SingleService` |
| `LifecycleProofs!RowIsHonest` | `Spec => []RowFollowsService` |
| `LifecycleProofs!ThePIDStaysInPlace` | `Spec => []Published` |
| `LifecycleProofs!NotRunningIsJust` | `Spec => NotRunningIsTrue` |
| `LifecycleProofs!StartedIsJust` | `Spec => StartedMeansServing` |
| `PlannerProofs!PlannerTypes` | `Spec => []TypeOK` |
| `PlannerProofs!EachOnceInOrder` | `Spec => []InOrderOnce` |
| `PlannerProofs!NothingElseIsDue` | `Spec => []DueExact`, without `@every`, in an ordinary zone that keeps clock values on their date |
| `PlannerProofs!FiresOnceADay` | `Spec => []OnceADay`, in an ordinary zone |
| `PlannerProofs!ExactInFixedZones` | both, without `@every`, in a zone that never moves its clocks |
| `RegistryProofs!TypeCorrect` | `Spec => []TypeOK`, ids included |
| `RegistryProofs!EnabledStaysEnabled` | `Spec => []EnableSticks` |
| `RegistryProofs!CommandsAreAtomic` | `Spec => ImplementsCatalog` |
| `MigrationsProofs!TypeCorrect` | `SchemaSpec => []SchemaTypeOK` |
| `MigrationsProofs!NeverHalfMigrated` | `SchemaSpec => []AlwaysComplete` |
| `MigrationsProofs!TablesAreThere` | `SchemaSpec => []UsersFindTheirTables` |
| `MigrationsProofs!OnceAndInOrder` | `SchemaSpec => []AppliedOnce` |
| `MigrationsProofs!AdviceIsRight` | `SchemaSpec => LegacyIsLegacy` |
| `MigrationsProofs!OpeningIsAtomic` | `SchemaSpec => ImplementsSchema` |
| `StorageProofs!OpenersAreMigrations` | `Spec => SchemaSpec` |
| `StorageProofs!DatabaseIsKept` | `Spec => []ServiceKeepsItsDatabase` |
| `StorageProofs!StorageTypes` | `Spec => []TypeOK` |
| `StorageProofs!TextOrderIsTimeOrder` | of `Before` and `FormatTime`, for any fractions |
| `StorageProofs!LatestIsShown` | `Spec => []LatestAtOneOffset` |
| `StorageProofs!NotFarBehind` | `Spec => []LatestWithinOffsets` |

They hold for every number of tasks, processes, clients and migrations, every
schedule, zone, limit and bound, from the named assumptions on the constants only,
but for those about `DueExact` and `OnceADay`, whose conditions are discussed
below, and four that assume, as their statement says, that one kind of fault is not
among `Faults`. None of the four holds without it: the run `service_suspend` shows the
grace violated by a sleep; a clock set back lets the loop meet an occurrence
again; and where a run's row cannot be written, `Runner.Run` returns the error
and the reservation is given back all the same.

*Service.* The types alone are inductive. `CountersExact` says that each counter is
the cardinality of the set of goroutines at the stages that hold it; with types
it is inductive too, because each step moves one goroutine across one boundary
and changes the counter of that boundary (lemma `CountMove`). `NoOverlap` needs
more than itself: the guard of `reserve` reads the map, so it is the exactness of
the map that turns "no reservation" into "no live run of that task". The limit
follows from the exact semaphore and its capacity, and the refinement from all
three: each step maps to one of `JobPool` or to a stutter.

*The rows of the service.* `Announce` keeps the start time of the row it finds, if
there is one, so `HeartbeatHonest` needs to know that the row was emptied before
(`RowEmptied`). `StoppedMeansQuiet` and `RecordedInOrder` follow from the exact
counters and one invariant of the runs (`RunInv`): a run whose goroutine is past
`RecordRun` and that was begun is in the store. For `CommandsApart` the invariant
adds that in an instance which is not being stopped all survivors are inherited
(`SurvivorsAreOld`): a shell is killed only once the context is done, which a new
command does not start under, and one that runs at that moment beside the one
that is killed is of another task or allows overlap, by `NoOverlap`.

*The cursor.* `LossInv` says what was answered for at each place of the loop:
between ticks everything up to the cursor was started or logged; during
`dispatch` everything up to the tick was, or is still in `todo`. The other two
depend on how the two clocks move. The lead of a reading is its wall time less
its monotonic time: sleep lengthens it, setting back shortens it. Without sleep a
later reading has no greater lead, so a gap that the monotonic clock does not
see is not on the wall clock either (`MisfireInv`). Without setting back it never
gets smaller, and everything started lies at or before the cursor between ticks,
before the tick during dispatch, and, since a late tick moves the cursor back,
before the value the ticker sends next (`OnceInv`).

*Lifecycle.* `SingleService` follows from "who is between `AcquireLock` and
`Close` holds the lock" (`ServiceHolds`), which is not inductive alone: a client
that closes its probe frees the lock, and must be known to be its holder
(`ClientHolds`). `RowFollowsService` needs the lock as well, for a second service
would end or begin beside the row of the first, and needs to know that from
`ClearHeartbeat` to the end of a service nothing left behind is in the row (`RowInv`). For `Published`
(`PublishInv`) a PID in the file is that of a service past `WritePID`, so the
process a client found gone is not one that is still to come; and while a
service is up the file names it or nobody. With the lock this is also why a
client about to say "not running" has missed nobody (`MissedInv`): it saw the
lock free, or the process of the file gone, and each is a moment without a
service. The row that makes `--detach` say "started" was written after the command
read the clock, and since then it is the child's or that of another service which
held the lock (`ChildInv`).

*Planner.* Each call returns instants of `(lastTick, through]` and leaves the
cursor at `through`: the ranges meet and do not overlap, so what was returned lies
at or before the cursor and what comes after it (`PlanInv`). That the result of one call
is in order is a lemma about `Sorted`: in a finite set of integers there is
exactly one element with `i - 1` before it (`Ranked`), proved by cardinalities.
So much holds in every zone.

*What a definition means.* `DueExact` and `OnceADay` need `ExactInv`. Of the cron
loop it says that every instant before `next` that the expression names has been
collected (`CronPassed`); of the date loop that `next` is the midnight of a date, not
before the cursor's, and that what the earlier dates name has been collected
(`DatesVisited`); of the result that it is what was named up to the cursor
(`FiredInv`). The date loop ends when it has passed the midnight of `through`, and
that this is past every date of the range takes two facts about the zone, which
`OrdinaryZone` states: dates grow with time, and every date has its midnight. From
them follows that `AddDate` goes from one midnight to the next. The calendar
lemmas, division by the length of a day and what `time.Date` answers
(`TimeDateFinds`: an instant with the wall time it was asked for, if there is one),
are proved for every zone.

The conditions are not only sufficient to the proof. Without the first half of
`OrdinaryZone` TLC loses occurrences of a tick that straddles the transition, and
without the second those of finding 2. `NoDelay` excludes `@every` (finding 3).
`OnTheirDate` says that `time.Date` keeps the clock values of the definition on their
date: for one that is skipped it answers an instant before or after the gap, and
when that is on the date beside, a tick of that date alone does not visit the
date the value belongs to (a jump of three hours shows it in the instances). A zone whose clocks never move
fulfils all (`FixedIsOrdinary`), and so do those of the usual transitions at
one to three o'clock. `OnceADay` needs the first condition only: an instant shown
twice is in a zone whose clocks went back, in which `time.Date` always finds what
it is asked for and answers one of the two (`ShownTwice`).

*Registry.* `IInv` adds to the types which operations a client may be in at each
step (`Fits`) and, for a task reported enabled, that its row is and that nobody
is about to disable or remove it (`Protected`); the last conjunct is what makes
it inductive, since a `disable` that has resolved its row writes later. In the
refinement the statement that writes, or the read that ends the command, is the
step of `Catalog`, and all others stutter.

*Migrations.* `AlwaysComplete` is not inductive: what a commit writes is a
snapshot. `IInv` therefore says what a transaction has seen (`SnapOK`): its marks
are an initial segment of the versions and equal to what was executed; with the lock it is ahead
of the file (`Ahead`), and without it is the file as it is, or as it was when
somebody has committed since (`AsRead`). That a transaction which has fallen
behind cannot take the lock is what keeps `Ahead` true; that the legacy check
is made inside the transaction is what keeps the marks of a legacy file empty.
In the refinement a commit that has written, or the read that finds everything
applied, is the step of `Schema`. `SchemaSpec` is the specification of `Migrations` alone.

*Storage.* The service's lock, the runs and `nuke` only restrict the openers
(`OpenersAreMigrations`), so that the theorems about `SchemaSpec` hold of
`Storage!Spec` too. `DatabaseIsKept` follows from a stronger invariant (`Kept`): a
service that is opening or using a database holds the lock, and its file is the
one with the name. It is inductive beside the invariant of the openers, because
whoever deletes the file holds that lock too.

*Latest run.* `TextOrderIsTimeOrder` takes the texts apart by position: the second
is decided before anything else; within one second a fraction that ends is
followed by its offset, and only a sign sorts before every digit. `RunsInv` says
that a row holds the text of the instant at which its run began, and, for
the types, that a number is used once: the runs in flight and the rows of a file
are together no more than were begun.

`LatestWithinOffsets` is what the order of the seconds alone gives: the local second of
the row that is shown is not before that of any other.

Only model-checked: liveness, since fairness is out of the prover's reach here
(`DueEnds`, `EveryOpenEnds` and those of `service_live`). The statements of the
findings are refuted by their runs, and what remains true of them is proved:
`MisfireSkipped` without sleep, `OnceADay` and `DueExact` under the conditions above,
`LatestAtOneOffset` and `LatestWithinOffsets`.

## 5. Not modelled

`Status`, `Logs`, `log` and what `list` prints besides the latest run: they only read,
and what they read is modelled where it is written. The five seconds after which `Status`
calls a heartbeat old would need a clock in `Lifecycle`. `Tail` and the log files:
no decision of the program depends on them. Parsing, canonical form and hashing
of definitions: two versions of a file differ in their hash, which is all `update`
uses. The width of the interval's step in the planner. SQLite's own files (the
write-ahead log, the shared memory, checkpoints) and what deleting them by name
under an open database does. The Windows stubs, colours, prompts and wiring of
the CLI, the website and the scripts.

## 6. Plan

Done: the loop with its runner, the abstract pool, the lifecycle, the planner, the
registry with its abstract catalog, the migrations with their abstract schema, the
storage at work. Every safety property and action property that the passing runs
check is a theorem, under the conditions its statement names, and so are the
three refinements.

What remains:

1. `Planner`: the conditions on a zone are stated for one transition. A zone with
   several, none of them at midnight, has the same midnights one after the other;
   the lemmas about `TimeDate` would have to be proved for a list of periods.
2. `Lifecycle`: a clock, for the five seconds after which `Status` calls a heartbeat
   old and those that `Stop` waits.
