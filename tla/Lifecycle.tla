----------------------------- MODULE Lifecycle -----------------------------
(* Starting, finding and stopping the service from several processes:       *)
(* internal/app/service.go over the lock, the PID file and the heartbeat    *)
(* row (internal/service/lock_unix.go, process.go, process_unix.go).        *)
(*                                                                         *)
(* A service process is known by its PID, which is given out once.  A       *)
(* client is a run of `service --detach`, `service stop` or `nuke`.         *)
(* What Service.Run does in between is the module Service; here it is seen  *)
(* through its heartbeat row.                                              *)
EXTENDS Integers, FiniteSets

CONSTANTS
    Pid,           \* the process ids services get
    Client,        \* the CLI processes
    Nobody,        \* neither a process nor a client
    Foreground,    \* whether services are also started by `runbinder service`
    MaxCommands,   \* bound: how many commands the clients run
    MaxCrashes     \* bound: how many services are killed

ASSUME NamesAssumption == Nobody \notin Pid \cup Client /\ Pid \cap Client = {}
ASSUME BoundAssumption ==
    /\ Foreground \in BOOLEAN
    /\ MaxCommands \in Nat /\ MaxCrashes \in Nat

VARIABLES
    lock,          \* who holds the flock of the lock file
    pidFile,       \* what the PID file holds
    running,       \* the running column of the heartbeat row
    fresh,         \* the clients whose startedAt is not after the row's last_at
    stage,         \* stage[p]: where the service process p stands
    born,          \* born[p]: the clients whose startedAt is not after p's
    signalled,     \* the processes with a pending SIGTERM
    pc,            \* pc[c]: where client c stands
    target,        \* target[c]: the PID client c works on
    outcome,       \* outcome[c]: what its last command reported
    commands, crashes, \* how many so far
    stale,         \* history: the row says running of a service that was killed, or
                   \* that could not write that it stopped
    announced,     \* history: the services that have announced themselves
    missed,        \* history: the commands during which no service served
    disturbed,     \* history: the starts during which, from the moment they read the
                   \* clock, a service ran that is not theirs
    overtaken      \* history: the services that wrote the PID file when a client
                   \* had already decided to remove it

files == <<lock, pidFile>>
row == <<running, fresh, stale>>
service == <<stage, born, signalled, announced>>
client == <<pc, target, outcome>>
budget == <<commands, crashes>>
history == <<missed, disturbed, overtaken>>
vars == <<files, row, service, client, budget, history>>

Absent == "absent"
Gone == "gone"
Alive(p) == p \in Pid /\ stage[p] \notin {Absent, Gone}

(* Where StartDetached stands once it has read its startedAt.              *)
Detaching == {"fork", "open", "poll", "beat", "kill"}

(* Signal 0 finds a process as long as its parent has not waited for it, and  *)
(* StartDetached never waits: a child that is gone answers while it runs.   *)
Answers(p) == Alive(p) \/ \E c \in Client : target[c] = p /\ pc[c] \in Detaching

Locked == {"locked", "published", "open", "cleared", "serving", "stopping",
           "unpublish", "remove", "unlock"}
Serving == {p \in Pid : stage[p] = "serving"}

(* Where a client removes the PID file without the lock and without another  *)
(* look at it.                                                             *)
Removing == {"stop forget", "start forget", "remove dead", "remove stopped"}

(* What happens while a command runs.                                      *)
Watch ==
    /\ missed' = missed \cup {c \in Client : Serving = {} \/ Serving' = {}}
    /\ disturbed' = {c \in Client : pc'[c] \in Detaching
          /\ (c \in disturbed \/ \E p \in Pid \ {target'[c]} : stage'[p] \in Locked)}
    /\ overtaken' = {p \in Pid :
          \/ p \in overtaken /\ stage'[p] \in Locked
          \/ pidFile' = p /\ pidFile # p /\ \E c \in Client : pc[c] \in Removing}

Init ==
    /\ lock = Nobody /\ pidFile = Nobody
    /\ running = FALSE /\ fresh = {} /\ stale = FALSE
    /\ stage = [p \in Pid |-> Absent] /\ born = [p \in Pid |-> {}]
    /\ signalled = {} /\ announced = {}
    /\ pc = [c \in Client |-> "idle"] /\ target = [c \in Client |-> Nobody]
    /\ outcome = [c \in Client |-> "none"]
    /\ commands = 0 /\ crashes = 0
    /\ missed = Client /\ disturbed = {} /\ overtaken = {}

-----------------------------------------------------------------------------
(* The service process.                                                    *)
Spawn(p) ==
    /\ stage[p] = Absent /\ stage' = [stage EXCEPT ![p] = "starting"]
    /\ UNCHANGED <<signalled, announced, budget>>

StartForeground(p) ==
    /\ Foreground /\ Spawn(p)
    /\ UNCHANGED <<files, row, born, client>>

Go(p, from, to) ==
    /\ stage[p] = from /\ stage' = [stage EXCEPT ![p] = to]
    /\ UNCHANGED <<client, budget>>

Leave(p) == Go(p, stage[p], Gone) /\ signalled' = signalled \ {p}

TakeLock(p) == \* mutant: the service does not mind who holds the lock
    /\ lock' = p /\ Go(p, "starting", "locked")
    /\ UNCHANGED <<pidFile, row, born, signalled, announced>>

LockIt(p) ==
    /\ lock = Nobody /\ lock' = p /\ Go(p, "starting", "locked")
    /\ UNCHANGED <<pidFile, row, born, signalled, announced>>

LosesTheLock(p) == \* mutant: the PID is written before the lock is tried
    /\ stage[p] = "starting" /\ lock # Nobody /\ Leave(p) /\ pidFile' = p
    /\ UNCHANGED <<lock, row, born, announced>>

FailsToLock(p) ==
    /\ stage[p] = "starting" /\ lock # Nobody /\ Leave(p)
    /\ UNCHANGED <<files, row, born, announced>>

(* Before signal.NotifyContext a SIGTERM kills.                            *)
KilledEarly(p) ==
    /\ p \in signalled /\ stage[p] = "starting" /\ Leave(p)
    /\ UNCHANGED <<files, row, born, announced>>

WritePID(p) ==
    /\ Go(p, "locked", "published") /\ pidFile' = p
    /\ UNCHANGED <<lock, row, born, signalled, announced>>

(* openRepository; Run takes its startedAt next.                           *)
OpenStore(p) ==
    /\ \/ Go(p, "published", "open") /\ born' = [born EXCEPT ![p] = Client]
       \/ Go(p, "published", "unpublish") /\ UNCHANGED born
    /\ UNCHANGED <<files, row, signalled, announced>>

(* Service.Run: StopHeartbeat, UpdateHeartbeat, the loop, the way out.  Any  *)
(* of these statements may fail: the database does, or a SIGTERM has        *)
(* cancelled the context they are made with.                               *)
ClearHeartbeat(p) ==
    /\ \/ /\ Go(p, "open", "cleared")
          /\ running' = FALSE /\ fresh' = born[p] /\ stale' = FALSE
       \/ Go(p, "open", "unpublish") /\ UNCHANGED row
    /\ UNCHANGED <<files, born, signalled, announced>>

Announce(p) ==
    /\ \/ /\ Go(p, "cleared", "serving") /\ UNCHANGED stale
          /\ running' = TRUE /\ fresh' = born[p] /\ announced' = announced \cup {p}
       \/ Go(p, "cleared", "stopping") /\ UNCHANGED <<row, announced>>
    /\ UNCHANGED <<files, born, signalled>>

Beat(p) ==
    /\ Go(p, "serving", "serving")
    /\ running' = TRUE /\ fresh' = Client
    /\ UNCHANGED <<files, stale, born, signalled, announced>>

Shutdown(p) ==
    /\ p \in signalled /\ Go(p, "serving", "stopping")
    /\ UNCHANGED <<files, row, born, signalled, announced>>

ForgetsHeartbeat(p) == \* mutant: there is no deferred StopHeartbeat
    /\ Go(p, "stopping", "unpublish") /\ UNCHANGED row
    /\ UNCHANGED <<files, born, signalled, announced>>

(* Deferred: its error is ignored, and the row stays as it is.             *)
StopHeartbeat(p) ==
    /\ Go(p, "stopping", "unpublish")
    /\ \/ running' = FALSE /\ fresh' = Client /\ UNCHANGED stale
       \/ stale' = running /\ UNCHANGED <<running, fresh>>
    /\ UNCHANGED <<files, born, signalled, announced>>

(* RemovePID(path, pid) reads the file, then removes it.                   *)
MatchOwnPID(p) ==
    /\ Go(p, "unpublish", IF pidFile = p THEN "remove" ELSE "unlock")
    /\ UNCHANGED <<files, row, born, signalled, announced>>

RemoveOwnPID(p) ==
    /\ Go(p, "remove", "unlock") /\ pidFile' = Nobody
    /\ UNCHANGED <<lock, row, born, signalled, announced>>

Unlock(p) ==
    /\ Go(p, "unlock", "exiting") /\ lock' = Nobody
    /\ UNCHANGED <<pidFile, row, born, signalled, announced>>

Exit(p) ==
    /\ stage[p] = "exiting" /\ Leave(p) /\ UNCHANGED <<files, row, born, announced>>

(* The kernel gives the lock back.                                         *)
Crash(p) ==
    /\ Alive(p) /\ crashes < MaxCrashes /\ crashes' = crashes + 1
    /\ stage' = [stage EXCEPT ![p] = Gone] /\ signalled' = signalled \ {p}
    /\ lock' = IF lock = p THEN Nobody ELSE lock
    /\ stale' = IF stage[p] \in {"serving", "stopping"} THEN running ELSE stale
    /\ UNCHANGED <<pidFile, running, fresh, born, announced, client, commands>>

Process(p) ==
    \/ StartForeground(p) \/ LockIt(p) \/ FailsToLock(p) \/ KilledEarly(p)
    \/ WritePID(p) \/ OpenStore(p)
    \/ ClearHeartbeat(p) \/ Announce(p) \/ Beat(p) \/ Shutdown(p) \/ StopHeartbeat(p)
    \/ MatchOwnPID(p) \/ RemoveOwnPID(p) \/ Unlock(p) \/ Exit(p) \/ Crash(p)

-----------------------------------------------------------------------------
(* The clients.                                                            *)
At(c, here) == pc[c] = here
To(c, there) == pc' = [pc EXCEPT ![c] = there] /\ UNCHANGED <<target, outcome>>
Take(c, p, there) ==
    pc' = [pc EXCEPT ![c] = there] /\ target' = [target EXCEPT ![c] = p] /\ UNCHANGED outcome
Report(c, what) ==
    /\ pc' = [pc EXCEPT ![c] = "idle"] /\ outcome' = [outcome EXCEPT ![c] = what]
    /\ UNCHANGED target

Command(c) ==
    /\ At(c, "idle") /\ commands < MaxCommands /\ commands' = commands + 1
    /\ \E op \in {"stop probe", "start probe", "reset probe"} : To(c, op)
    /\ missed' = IF Serving = {} THEN missed \cup {c} ELSE missed \ {c}
    /\ UNCHANGED <<files, row, service, crashes, disturbed, overtaken>>

(* AcquireLock of a probe; Reset keeps the lock, the others close it.      *)
Probe(c) ==
    /\ \/ /\ lock = Nobody /\ lock' = c
          /\ \/ At(c, "stop probe") /\ To(c, "stop close")
             \/ At(c, "start probe") /\ To(c, "start close")
             \/ At(c, "reset probe") /\ To(c, "reset forget")
       \/ /\ lock # Nobody /\ UNCHANGED lock
          /\ \/ At(c, "stop probe") /\ To(c, "read")
             \/ At(c, "start probe") /\ Report(c, "error")
             \/ At(c, "reset probe") /\ Report(c, "error")
    /\ UNCHANGED <<pidFile, row, service, budget>>

CloseProbe(c) ==
    /\ lock' = Nobody
    /\ \/ At(c, "stop close") /\ To(c, "stop forget")
       \/ At(c, "start close") /\ To(c, "start forget")
       \/ At(c, "reset unlock") /\ Report(c, "reset")
    /\ UNCHANGED <<pidFile, row, service, budget>>

(* RemovePID(path, 0), whoever wrote the file.                             *)
ForgetPID(c) ==
    /\ pidFile' = Nobody
    /\ \/ At(c, "stop forget") /\ Report(c, "not running")
       \/ At(c, "start forget") /\ To(c, "spawn")
       \/ At(c, "reset forget") /\ To(c, "reset delete")
    /\ UNCHANGED <<lock, row, service, budget>>

DeleteStore(c) ==
    /\ At(c, "reset delete") /\ To(c, "reset unlock")
    /\ running' = FALSE /\ fresh' = {} /\ stale' = FALSE
    /\ UNCHANGED <<files, service, budget>>

(* Stop, when the lock is taken.                                           *)
ReadPID(c) ==
    /\ At(c, "read")
    /\ \/ pidFile = Nobody /\ Report(c, "error")
       \/ pidFile # Nobody /\ Take(c, pidFile, "check")
    /\ UNCHANGED <<files, row, service, budget>>

CheckProcess(c) ==
    /\ At(c, "check")
    /\ \/ Answers(target[c]) /\ To(c, "signal")
       \/ ~Answers(target[c]) /\ To(c, "match dead")
    /\ UNCHANGED <<files, row, service, budget>>

TerminateAny(p) == signalled' = signalled \cup {p} \* mutant: a signal waits for its process

Terminate(p) == signalled' = IF Alive(p) THEN signalled \cup {p} ELSE signalled

StopProcess(c) ==
    /\ At(c, "signal") /\ Terminate(target[c])
    /\ IF Answers(target[c]) THEN To(c, "wait") ELSE Report(c, "error")
    /\ UNCHANGED <<files, row, stage, born, announced, budget>>

WaitForExit(c) ==
    /\ At(c, "wait")
    /\ \/ ~Answers(target[c]) /\ To(c, "match stopped")
       \/ Report(c, "error")
    /\ UNCHANGED <<files, row, service, budget>>

Verdict(c) == IF At(c, "match dead") \/ At(c, "remove dead") THEN "not running" ELSE "stopped"

RemoveWhoever(c) == \* mutant: Stop does not say whose PID it expects in the file
    /\ \/ At(c, "match dead") /\ To(c, "remove dead")
       \/ At(c, "match stopped") /\ To(c, "remove stopped")
    /\ UNCHANGED <<files, row, service, budget>>

MatchPID(c) ==
    /\ \/ /\ At(c, "match dead") \/ At(c, "match stopped")
          /\ pidFile # target[c] /\ Report(c, Verdict(c))
       \/ pidFile = target[c] /\ At(c, "match dead") /\ To(c, "remove dead")
       \/ pidFile = target[c] /\ At(c, "match stopped") /\ To(c, "remove stopped")
    /\ UNCHANGED <<files, row, service, budget>>

RemovePID(c) ==
    /\ At(c, "remove dead") \/ At(c, "remove stopped")
    /\ pidFile' = Nobody /\ Report(c, Verdict(c))
    /\ UNCHANGED <<lock, row, service, budget>>

(* StartDetached, after the probe: startedAt, and then the fork.           *)
NoteStart(c) ==
    /\ At(c, "spawn") /\ Take(c, Nobody, "fork")
    /\ fresh' = fresh \ {c} /\ born' = [q \in Pid |-> born[q] \ {c}]
    /\ UNCHANGED <<files, running, stale, stage, signalled, announced, budget>>

SpawnChild(c) ==
    /\ At(c, "fork") /\ UNCHANGED <<files, row, born>>
    /\ \/ \E p \in Pid : Spawn(p) /\ Take(c, p, "open")
       \/ Report(c, "error") /\ UNCHANGED <<stage, signalled, announced, budget>>

OpenOwnStore(c) ==
    /\ At(c, "open") /\ (To(c, "poll") \/ To(c, "kill"))
    /\ UNCHANGED <<files, row, service, budget>>

GivesUp(c) ==
    /\ At(c, "poll") /\ To(c, "kill") /\ UNCHANGED <<files, row, service, budget>>

(* The child answers, alive or not: that it exited during startup is never  *)
(* seen here.                                                              *)
PollProcess(c) ==
    /\ At(c, "poll") /\ pidFile = target[c] /\ To(c, "beat")
    /\ UNCHANGED <<files, row, service, budget>>

ReadyByDate(c) == c \in fresh \* mutant: the running column is not looked at

Ready(c) == running /\ c \in fresh

(* Not ready, or the row cannot be read: it looks again.                   *)
PollHeartbeat(c) ==
    /\ At(c, "beat")
    /\ \/ Ready(c) /\ Report(c, "started")
       \/ To(c, "poll")
    /\ UNCHANGED <<files, row, service, budget>>

KillChild(c) ==
    /\ At(c, "kill") /\ Terminate(target[c]) /\ Report(c, "error")
    /\ UNCHANGED <<files, row, stage, born, announced, budget>>

Step(c) ==
    \/ Probe(c) \/ CloseProbe(c) \/ ForgetPID(c) \/ DeleteStore(c) \/ ReadPID(c)
    \/ CheckProcess(c) \/ StopProcess(c) \/ WaitForExit(c) \/ MatchPID(c) \/ RemovePID(c)
    \/ NoteStart(c) \/ SpawnChild(c) \/ OpenOwnStore(c) \/ GivesUp(c) \/ PollProcess(c)
    \/ PollHeartbeat(c) \/ KillChild(c)

Next ==
    \/ \E c \in Client : Command(c) \/ (Step(c) /\ Watch)
    \/ \E p \in Pid : Process(p) /\ Watch

Spec == Init /\ [][Next]_vars

-----------------------------------------------------------------------------
Stages == Locked \cup {Absent, Gone, "starting", "exiting"}
Places == {"idle", "stop probe", "stop close", "stop forget", "read", "check", "signal",
           "wait", "match dead", "match stopped", "remove dead", "remove stopped",
           "start probe", "start close", "start forget", "spawn", "fork", "open", "poll",
           "beat", "kill", "reset probe", "reset forget", "reset delete", "reset unlock"}
Outcomes == {"none", "error", "not running", "stopped", "started", "reset"}

(* Every variable keeps its type; a signal is pending only for a process     *)
(* that is there.                                                          *)
TypeOK ==
    /\ lock \in Pid \cup Client \cup {Nobody} /\ pidFile \in Pid \cup {Nobody}
    /\ running \in BOOLEAN /\ stale \in BOOLEAN /\ fresh \subseteq Client
    /\ stage \in [Pid -> Stages] /\ born \in [Pid -> SUBSET Client]
    /\ signalled \subseteq {p \in Pid : Alive(p)} /\ announced \subseteq Pid
    /\ pc \in [Client -> Places] /\ target \in [Client -> Pid \cup {Nobody}]
    /\ outcome \in [Client -> Outcomes]
    /\ commands \in 0..MaxCommands /\ crashes \in 0..MaxCrashes
    /\ missed \subseteq Client /\ disturbed \subseteq Client /\ overtaken \subseteq Pid

(* Between AcquireLock and lock.Close there is one service at a time,       *)
(* however many are started, probed for, killed and started again.         *)
SingleService == \A p, q \in Pid : stage[p] \in Locked /\ stage[q] \in Locked => p = q

(* From WritePID to the end of its loop, `service stop` can find a service:  *)
(* the PID file names it, unless a client had made up its mind to remove    *)
(* the file when the service wrote it (process.go, app/service.go).         *)
Published ==
    \A p \in Pid :
        stage[p] \in {"published", "open", "cleared", "serving"} =>
            pidFile = p \/ p \in overtaken

(* The row says running because a service is between its UpdateHeartbeat    *)
(* and its deferred StopHeartbeat, or because one was killed there or could *)
(* not write that it stopped (service.go:51, 55); never for both reasons,   *)
(* since the next service clears what it finds before it announces itself.  *)
RowFollowsService ==
    running => (stale <=> \A p \in Pid : stage[p] \notin {"serving", "stopping"})

Learns(c, what) == pc[c] # "idle" /\ pc'[c] = "idle" /\ outcome'[c] = what

(* When `service --detach` reports the PID of its child, that child has     *)
(* written its first heartbeat, unless another service ran since it read    *)
(* startedAt (app/service.go:85): the row does not tell whose it is, and is  *)
(* read after the PID.                                                     *)
StartedMeansServing ==
    [][\A c \in Client :
        Learns(c, "started") => target[c] \in announced \/ c \in disturbed]_vars

(* When `service stop` says "not running", there was a moment since the     *)
(* command began when no service was in its loop.                          *)
NotRunningIsTrue ==
    [][\A c \in Client : Learns(c, "not running") => c \in missed']_vars
=============================================================================
