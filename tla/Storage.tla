------------------------------ MODULE Storage ------------------------------
(* The database at work: the service and the commands open it (Migrations),  *)
(* run tasks and record the runs (runner.go, RecordRun, LastRun in           *)
(* store/sqlite.go), while `nuke` deletes it (app/service.go).  A command   *)
(* here is any of the CLI's that opens the database; `run` is the one that  *)
(* records a run.                                                           *)
EXTENDS Migrations, Stored

CONSTANTS
    Daemon,        \* the processes that are a service, the others are commands
    Nuker,         \* the process of `nuke`
    Task,          \* the namespaces
    Moment,        \* Moment[n]: the n-th instant anything happens at
    Zones,         \* the local times the processes may have: for each process
                   \* a function from instants to offsets from UTC
    MaxRuns        \* bound: how many runs are started

ASSUME RoleAssumption == Daemon \subseteq Process /\ Nuker \notin Process \cup {Nobody}
ASSUME ClockAssumption ==
    /\ Moment \in Seq(Nat) /\ Moment # <<>>
    /\ \A zones \in Zones, p \in Process, m \in DOMAIN Moment :
         zones[p][Moment[m]] \in Int
ASSUME RunAssumption == MaxRuns \in Nat

VARIABLES
    lock,          \* who holds the lock of the service
    deleted,       \* whether the reset under way has deleted the file
    now,           \* Moment[now] is the latest instant the clock was read at
    zone,          \* zone[p]: the local time of process p
    flying,        \* flying[p]: the runs process p has started
    rows,          \* rows[f]: the table of runs in file f
    begun          \* how many runs were started

runs == <<now, zone, flying, rows, begun>>
guard == <<lock, deleted>>
vars == <<schemaVars, guard, runs>>

Init ==
    /\ SchemaInit
    /\ lock = Nobody /\ deleted = FALSE
    /\ now = 1 /\ zone \in Zones
    /\ flying = [p \in Process |-> {}]
    /\ rows = [f \in Files |-> {}]
    /\ begun = 0

-----------------------------------------------------------------------------
(* The lock of the service: Service.Run takes it before it opens the         *)
(* database and gives it back after it has closed it; Reset holds it.       *)
StartService(d) ==
    /\ lock = Nobody /\ lock' = d /\ pc[d] \in Ended
    /\ UNCHANGED <<schemaVars, deleted, runs>>

UnlockEarly(d) == \* mutant: the lock is given back before the database is closed
    /\ lock = d /\ pc[d] \in Ended \cup {"open"} /\ lock' = Nobody
    /\ UNCHANGED <<schemaVars, deleted, runs>>

EndService(d) ==
    /\ lock = d /\ pc[d] \in Ended /\ lock' = Nobody
    /\ UNCHANGED <<schemaVars, deleted, runs>>

MayOpen(p) == p \in Daemon => lock = p

OpenStore(p) == MayOpen(p) /\ Open(p) /\ UNCHANGED <<guard, runs>>

MigrateStore(p) == Migrate(p) /\ UNCHANGED <<guard, runs>>

FailToOpen(p) == (TimeOut(p) \/ CommitFails(p)) /\ UNCHANGED <<guard, runs>>

(* The kernel gives the lock back; the runs are not recorded.               *)
Kill(p) ==
    /\ Die(p) /\ flying' = [flying EXCEPT ![p] = {}]
    /\ lock' = IF lock = p THEN Nobody ELSE lock
    /\ UNCHANGED <<deleted, now, zone, rows, begun>>

(* The service waits for its runs, `run` for its one.                       *)
CloseStore(p) == flying[p] = {} /\ Close(p) /\ UNCHANGED <<guard, runs>>

(* Heartbeats, registrations: writes of no concern here.                    *)
OtherWrite(p) == Write(p) /\ UNCHANGED <<guard, runs>>

-----------------------------------------------------------------------------
(* runner.Run: the time of the start is taken before the command runs, the   *)
(* row is written when it has ended.                                        *)
StartRun(p) ==
    /\ pc[p] = "open" /\ begun < MaxRuns /\ begun' = begun + 1
    /\ p \in Daemon \/ flying[p] = {}
    /\ now' \in now..Len(Moment)
    /\ \E t \in Task : flying' = [flying EXCEPT ![p] = @ \cup
                          {[task |-> t, started |-> Moment[now'], number |-> begun']}]
    /\ UNCHANGED <<schemaVars, guard, zone, rows>>

(* The row RecordRun inserts.                                               *)
Row(p, run) ==
    [id |-> Cardinality(rows[at[p]]) + 1, task |-> run.task, started |-> run.started,
     text |-> FormatTime(run.started, zone[p][run.started])]

RecordRun(p) ==
    \E run \in flying[p] :
      /\ Write(p) /\ flying' = [flying EXCEPT ![p] = @ \ {run}]
      /\ rows' = [rows EXCEPT ![at[p]] = @ \cup {Row(p, run)}]
      /\ UNCHANGED <<guard, now, zone, begun>>

(* The insert fails: the log says so, no more.                              *)
LoseRun(p) ==
    \E run \in flying[p] :
      /\ WriteFails(p) /\ flying' = [flying EXCEPT ![p] = @ \ {run}]
      /\ UNCHANGED <<guard, now, zone, rows, begun>>

(* SELECT ... ORDER BY started_at DESC LIMIT 1.  Which of several rows of   *)
(* the same text comes first is left open.                                 *)
RowsOf(t) == {row \in rows[file] : row.task = t}

LastRecorded(t) == \* mutant: ORDER BY id DESC
    {row \in RowsOf(t) : \A other \in RowsOf(t) : other.id <= row.id}

LastRun(t) == {row \in RowsOf(t) : \A other \in RowsOf(t) : ~Before(row.text, other.text)}

-----------------------------------------------------------------------------
(* Reset; it returns on an error with or without having deleted the file.   *)
Reset ==
    /\ lock = Nobody /\ lock' = Nuker /\ UNCHANGED <<schemaVars, deleted, runs>>

DeleteStore ==
    /\ lock = Nuker /\ ~deleted /\ RemoveFile /\ deleted' = TRUE
    /\ UNCHANGED <<lock, runs>>

EndReset ==
    /\ lock = Nuker /\ lock' = Nobody /\ deleted' = FALSE
    /\ UNCHANGED <<schemaVars, runs>>

-----------------------------------------------------------------------------
RunStep(p) == StartRun(p) \/ RecordRun(p) \/ LoseRun(p)

Next ==
    \/ \E d \in Daemon : StartService(d) \/ EndService(d)
    \/ \E p \in Process :
         \/ OpenStore(p) \/ MigrateStore(p) \/ FailToOpen(p) \/ CloseStore(p)
         \/ Kill(p) \/ OtherWrite(p) \/ RunStep(p)
    \/ Reset \/ DeleteStore \/ EndReset

Spec == Init /\ [][Next]_vars

(* A process that can go on opening goes on: no timeout, death or nuke is   *)
(* assumed to happen.                                                      *)
FairSpec == Spec /\ \A p \in Process : WF_private(Migrate(p))

-----------------------------------------------------------------------------
Run == [task : Task, started : Nat, number : 1..MaxRuns]

(* Every variable keeps its type, and a row was written by a run that was   *)
(* started.                                                                *)
TypeOK ==
    /\ SchemaTypeOK
    /\ lock \in Process \cup {Nobody, Nuker} /\ deleted \in {FALSE, lock = Nuker}
    /\ now \in DOMAIN Moment /\ zone \in Zones
    /\ begun \in 0..MaxRuns
    /\ \A p \in Process : flying[p] \subseteq Run
    /\ \A f \in Files : Cardinality(rows[f]) <= begun

(* The database a service has open is the one that has its name: what it    *)
(* records is what `list` reads (app/service.go:36-60, 189-209).            *)
ServiceKeepsItsDatabase ==
    \A d \in Daemon : pc[d] \in Opening \cup {"open"} => at[d] = file

(* `list` shows the latest run of a task (README.md:240).                   *)
LastRunIsLatest ==
    \A t \in Task : \A last \in LastRun(t) : \A row \in RowsOf(t) :
      row.started <= last.started

(* How far that can be relied on: when two runs of a task were written with *)
(* the same offset from UTC, `list` does not prefer one that started in an  *)
(* earlier second; where the offset is not zero, nor an earlier one at all  *)
(* (sqlite.go:139-143, 235-240).                                           *)
OffsetOf(row) == row.text.seconds - row.started \div 100

LatestAtOneOffset ==
    \A t \in Task : \A last \in LastRun(t) : \A row \in RowsOf(t) :
      OffsetOf(row) = OffsetOf(last) =>
        /\ row.started \div 100 <= last.started \div 100
        /\ OffsetOf(last) # 0 => row.started <= last.started

(* Whatever zones two runs of a task were written in, the one `list` shows    *)
(* is behind the other by no more than a second and what their clocks were   *)
(* apart: an hour when the clocks have gone back in between.                *)
LatestWithinOffsets ==
    \A t \in Task : \A last \in LastRun(t) : \A row \in RowsOf(t) :
      row.started < last.started + 100 * (OffsetOf(last) - OffsetOf(row) + 1)
=============================================================================
