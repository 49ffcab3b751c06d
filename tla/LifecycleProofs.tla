-------------------------- MODULE LifecycleProofs --------------------------
(* Proofs about Lifecycle, for every set of processes and clients.          *)
(*                                                                         *)
(* That one service runs at a time needs to know who may give the lock      *)
(* back: a client that closes a probe must be its holder (ClientHolds), or  *)
(* it would free the lock of a service.                                     *)
EXTENDS Lifecycle, TLAPS

ServiceHolds == \A p \in Pid : stage[p] \in Locked => lock = p

Holding == {"stop close", "start close", "reset forget", "reset delete", "reset unlock"}
ClientHolds == \A c \in Client : pc[c] \in Holding => lock = c

LockType ==
    /\ lock \in Pid \cup Client \cup {Nobody}
    /\ stage \in [Pid -> Stages] /\ pc \in [Client -> Places]

LockInv == LockType /\ ServiceHolds /\ ClientHolds

(* The lock in Init is nobody's and nothing runs.                           *)
LEMMA LockInit == Init => LockInv
BY NamesAssumption
DEF Init, LockInv, LockType, ServiceHolds, ClientHolds, Locked, Holding, Stages, Places,
    Absent, Gone

(* What a service process does to the lock.                                 *)
LEMMA ProcessKeepsLock ==
    ASSUME LockInv, NEW p \in Pid, Process(p) PROVE LockInv'
<1> USE NamesAssumption DEF LockInv, LockType, ServiceHolds, ClientHolds, Locked, Holding,
        Stages, Places, Absent, Gone, Go, Leave, files, row, client, budget
<1>1. CASE StartForeground(p) BY <1>1 DEF StartForeground, Spawn
<1>2. CASE LockIt(p) BY <1>2 DEF LockIt
<1>3. CASE FailsToLock(p) BY <1>3 DEF FailsToLock
<1>4. CASE KilledEarly(p) BY <1>4 DEF KilledEarly
<1>5. CASE WritePID(p) BY <1>5 DEF WritePID
<1>6. CASE OpenStore(p) BY <1>6 DEF OpenStore
<1>7. CASE ClearHeartbeat(p) BY <1>7 DEF ClearHeartbeat
<1>8. CASE Announce(p) BY <1>8 DEF Announce
<1>9. CASE Beat(p) BY <1>9 DEF Beat
<1>10. CASE Shutdown(p) BY <1>10 DEF Shutdown
<1>11. CASE StopHeartbeat(p) BY <1>11 DEF StopHeartbeat
<1>12. CASE MatchOwnPID(p) BY <1>12 DEF MatchOwnPID
<1>13. CASE RemoveOwnPID(p) BY <1>13 DEF RemoveOwnPID
<1>14. CASE Unlock(p) BY <1>14 DEF Unlock
<1>15. CASE Exit(p) BY <1>15 DEF Exit
<1>16. CASE Crash(p) BY <1>16 DEF Crash, Alive
<1>. QED
  BY <1>1, <1>2, <1>3, <1>4, <1>5, <1>6, <1>7, <1>8, <1>9, <1>10, <1>11, <1>12, <1>13,
     <1>14, <1>15, <1>16 DEF Process

(* What a client does to the lock.                                          *)
LEMMA ClientKeepsLock ==
    ASSUME LockInv, NEW c \in Client, Command(c) \/ Step(c) PROVE LockInv'
<1> USE NamesAssumption DEF LockInv, LockType, ServiceHolds, ClientHolds, Locked, Holding,
        Stages, Places, Absent, Gone, At, To, Take, Report, files, row, service, budget
<1>1. CASE Command(c) BY <1>1, ZenonT(30) DEF Command
<1>2. CASE Probe(c) BY <1>2, ZenonT(30) DEF Probe
<1>3. CASE CloseProbe(c) BY <1>3, ZenonT(30) DEF CloseProbe
<1>4. CASE ForgetPID(c) BY <1>4 DEF ForgetPID
<1>5. CASE DeleteStore(c) BY <1>5 DEF DeleteStore
<1>6. CASE ReadPID(c) BY <1>6 DEF ReadPID
<1>7. CASE CheckProcess(c) BY <1>7 DEF CheckProcess
<1>8. CASE StopProcess(c) BY <1>8 DEF StopProcess
<1>9. CASE WaitForExit(c) BY <1>9 DEF WaitForExit
<1>10. CASE MatchPID(c) BY <1>10, ZenonT(30) DEF MatchPID
<1>11. CASE RemovePID(c) BY <1>11 DEF RemovePID
<1>12. CASE SpawnChild(c) BY <1>12 DEF SpawnChild, Spawn
<1>18. CASE NoteStart(c) BY <1>18 DEF NoteStart
<1>13. CASE OpenOwnStore(c) BY <1>13 DEF OpenOwnStore
<1>14. CASE GivesUp(c) BY <1>14 DEF GivesUp
<1>15. CASE PollProcess(c) BY <1>15 DEF PollProcess
<1>16. CASE PollHeartbeat(c) BY <1>16 DEF PollHeartbeat
<1>17. CASE KillChild(c) BY <1>17 DEF KillChild
<1>. QED
  BY <1>1, <1>2, <1>3, <1>4, <1>5, <1>6, <1>7, <1>8, <1>9, <1>10, <1>11, <1>12, <1>13,
     <1>14, <1>15, <1>16, <1>17, <1>18 DEF Step

LEMMA LockStep == LockInv /\ [Next]_vars => LockInv'
<1> SUFFICES ASSUME LockInv, [Next]_vars PROVE LockInv'
  OBVIOUS
<1>1. CASE \E c \in Client : Command(c) \/ (Step(c) /\ Watch)
  BY <1>1, ClientKeepsLock
<1>2. CASE \E p \in Pid : Process(p) /\ Watch
  BY <1>2, ProcessKeepsLock
<1>3. CASE UNCHANGED vars
  BY <1>3 DEF vars, files, service, client, LockInv, LockType, ServiceHolds, ClientHolds
<1>. QED
  BY <1>1, <1>2, <1>3 DEF Next

(* A service between AcquireLock and lock.Close is the only one, however     *)
(* many are started, probed for, told to stop, killed or reset beside it.   *)
THEOREM OneServiceAtATime == Spec => []SingleService
<1>1. LockInv => SingleService
  BY DEF LockInv, ServiceHolds, SingleService
<1>. QED
  BY <1>1, LockInit, LockStep, PTL DEF Spec

-----------------------------------------------------------------------------
(* The heartbeat row.  What a service leaves in it when it is killed, or      *)
(* cannot write that it stopped, the next one clears before it announces    *)
(* itself; that there is one service at a time keeps the two apart.         *)
Clean == {"cleared", "serving", "stopping"}

RowInv ==
    /\ \A p \in Pid : stage[p] \in Clean => ~stale
    /\ running /\ ~stale => \E p \in Pid : stage[p] \in {"serving", "stopping"}

LEMMA ProcessKeepsRow ==
    ASSUME LockInv, RowInv, NEW p \in Pid, Process(p) PROVE RowInv'
<1>0. /\ stage \in [Pid -> Stages]
      /\ \A q \in Pid : stage[p] \in Clean /\ stage[q] \in Clean => p = q
  BY DEF LockInv, LockType, ServiceHolds, Clean, Locked
<1> USE <1>0 DEF RowInv, Clean, Absent, Gone, Go, Leave, row
<1>1. CASE StartForeground(p) BY <1>1 DEF StartForeground, Spawn
<1>2. CASE LockIt(p) BY <1>2 DEF LockIt
<1>3. CASE FailsToLock(p) BY <1>3 DEF FailsToLock
<1>4. CASE KilledEarly(p) BY <1>4 DEF KilledEarly
<1>5. CASE WritePID(p) BY <1>5 DEF WritePID
<1>6. CASE OpenStore(p) BY <1>6 DEF OpenStore
<1>7. CASE ClearHeartbeat(p) BY <1>7 DEF ClearHeartbeat
<1>8. CASE Announce(p) BY <1>8 DEF Announce
<1>9. CASE Beat(p) BY <1>9 DEF Beat
<1>10. CASE Shutdown(p) BY <1>10 DEF Shutdown
<1>11. CASE StopHeartbeat(p) BY <1>11 DEF StopHeartbeat
<1>12. CASE MatchOwnPID(p) BY <1>12 DEF MatchOwnPID
<1>13. CASE RemoveOwnPID(p) BY <1>13 DEF RemoveOwnPID
<1>14. CASE Unlock(p) BY <1>14 DEF Unlock
<1>15. CASE Exit(p) BY <1>15 DEF Exit
<1>16. CASE Crash(p) BY <1>16 DEF Crash, Alive
<1>. QED
  BY <1>1, <1>2, <1>3, <1>4, <1>5, <1>6, <1>7, <1>8, <1>9, <1>10, <1>11, <1>12, <1>13,
     <1>14, <1>15, <1>16 DEF Process

(* A client deletes the row with the database, and otherwise only reads it; *)
(* the one stage it changes is that of the child it spawns.                 *)
LEMMA ClientKeepsRow ==
    ASSUME LockInv, RowInv, NEW c \in Client, Command(c) \/ Step(c) PROVE RowInv'
<1>1. CASE DeleteStore(c)
  BY <1>1 DEF DeleteStore, RowInv
<1>2. CASE SpawnChild(c)
  BY <1>2 DEF SpawnChild, Spawn, RowInv, Clean, Absent, row, LockInv, LockType
<1>3. CASE UNCHANGED <<stage, running, stale>>
  BY <1>3 DEF RowInv
<1>. QED
  BY <1>1, <1>2, <1>3
  DEF Step, Command, Probe, CloseProbe, ForgetPID, ReadPID, CheckProcess, StopProcess,
      WaitForExit, MatchPID, RemovePID, NoteStart, OpenOwnStore, GivesUp, PollProcess,
      PollHeartbeat, KillChild, row, service

LEMMA RowStep == LockInv /\ RowInv /\ [Next]_vars => RowInv'
<1> SUFFICES ASSUME LockInv, RowInv, [Next]_vars PROVE RowInv'
  OBVIOUS
<1>1. CASE \E c \in Client : Command(c) \/ (Step(c) /\ Watch)
  BY <1>1, ClientKeepsRow
<1>2. CASE \E p \in Pid : Process(p) /\ Watch
  BY <1>2, ProcessKeepsRow
<1>3. CASE UNCHANGED vars
  BY <1>3 DEF vars, row, service, RowInv
<1>. QED
  BY <1>1, <1>2, <1>3 DEF Next

(* The row says running because a service runs that will still clear it, or   *)
(* because one was killed or failed to, and never for both reasons: stop,   *)
(* nuke, --detach and failing statements do not leave it behind otherwise   *)
(* (service.go:49-59).                                                     *)
THEOREM RowIsHonest == Spec => []RowFollowsService
<1>1. Init => RowInv
  BY DEF Init, RowInv, Clean, Absent
<1>2. RowInv => RowFollowsService
  BY DEF RowInv, Clean, RowFollowsService
<1>. QED
  BY <1>1, <1>2, LockInit, LockStep, RowStep, PTL DEF Spec

-----------------------------------------------------------------------------
(* Types.  That a signal is pending only for a process that is there is     *)
(* the one part with content: whoever leaves takes it along.               *)
WorldType ==
    /\ lock \in Pid \cup Client \cup {Nobody} /\ pidFile \in Pid \cup {Nobody}
    /\ running \in BOOLEAN /\ stale \in BOOLEAN /\ fresh \subseteq Client
    /\ stage \in [Pid -> Stages] /\ born \in [Pid -> SUBSET Client]
    /\ signalled \subseteq Pid /\ announced \subseteq Pid
    /\ \A p \in signalled : stage[p] \notin {Absent, Gone}
    /\ commands \in 0..MaxCommands /\ crashes \in 0..MaxCrashes

ClientType ==
    /\ pc \in [Client -> Places] /\ target \in [Client -> Pid \cup {Nobody}]
    /\ outcome \in [Client -> Outcomes]

HistoryType == missed \subseteq Client /\ disturbed \subseteq Client /\ overtaken \subseteq Pid

LEMMA TypeParts == TypeOK <=> WorldType /\ ClientType /\ HistoryType
<1>1. signalled \subseteq {p \in Pid : Alive(p)}
        <=> signalled \subseteq Pid /\ \A p \in signalled : stage[p] \notin {Absent, Gone}
  BY DEF Alive
<1>. QED
  BY <1>1 DEF TypeOK, WorldType, ClientType, HistoryType

LEMMA ProcessKeepsTypes ==
    ASSUME WorldType, NEW p \in Pid, Process(p)
    PROVE  WorldType' /\ UNCHANGED client
<1> USE BoundAssumption DEF WorldType, Stages, Locked, Absent, Gone, Go, Leave,
        files, row, client, budget
<1>1. CASE StartForeground(p) BY <1>1 DEF StartForeground, Spawn
<1>2. CASE LockIt(p) BY <1>2 DEF LockIt
<1>3. CASE FailsToLock(p) BY <1>3 DEF FailsToLock
<1>4. CASE KilledEarly(p) BY <1>4 DEF KilledEarly
<1>5. CASE WritePID(p) BY <1>5 DEF WritePID
<1>6. CASE OpenStore(p) BY <1>6 DEF OpenStore
<1>7. CASE ClearHeartbeat(p) BY <1>7 DEF ClearHeartbeat
<1>8. CASE Announce(p) BY <1>8 DEF Announce
<1>9. CASE Beat(p) BY <1>9 DEF Beat
<1>10. CASE Shutdown(p) BY <1>10 DEF Shutdown
<1>11. CASE StopHeartbeat(p) BY <1>11 DEF StopHeartbeat
<1>12. CASE MatchOwnPID(p) BY <1>12 DEF MatchOwnPID
<1>13. CASE RemoveOwnPID(p) BY <1>13 DEF RemoveOwnPID
<1>14. CASE Unlock(p) BY <1>14 DEF Unlock
<1>15. CASE Exit(p) BY <1>15 DEF Exit
<1>16. CASE Crash(p) BY <1>16 DEF Crash, Alive
<1>. QED
  BY <1>1, <1>2, <1>3, <1>4, <1>5, <1>6, <1>7, <1>8, <1>9, <1>10, <1>11, <1>12, <1>13,
     <1>14, <1>15, <1>16 DEF Process

(* How a client goes from one call to the next.                             *)
LEMMA ClientMoves ==
    ASSUME WorldType, NEW c \in Client, Command(c) \/ Step(c)
    PROVE  /\ \E there \in Places : pc' = [pc EXCEPT ![c] = there]
           /\ \/ UNCHANGED target
              \/ \E p \in Pid \cup {Nobody} : target' = [target EXCEPT ![c] = p]
           /\ \/ UNCHANGED outcome
              \/ \E what \in Outcomes : outcome' = [outcome EXCEPT ![c] = what]
<1>1. ASSUME NEW there \in Places, To(c, there)
      PROVE  pc' = [pc EXCEPT ![c] = there] /\ UNCHANGED <<target, outcome>>
  BY <1>1 DEF To
<1>2. ASSUME NEW p \in Pid \cup {Nobody}, NEW there \in Places, Take(c, p, there)
      PROVE  /\ pc' = [pc EXCEPT ![c] = there] /\ target' = [target EXCEPT ![c] = p]
             /\ UNCHANGED outcome
  BY <1>2 DEF Take
<1>3. ASSUME NEW what \in Outcomes, Report(c, what)
      PROVE  /\ pc' = [pc EXCEPT ![c] = "idle"] /\ outcome' = [outcome EXCEPT ![c] = what]
             /\ UNCHANGED target /\ "idle" \in Places
  BY <1>3 DEF Report, Places
<1>4. \/ \E there \in Places : To(c, there)
      \/ \E p \in Pid \cup {Nobody}, there \in Places : Take(c, p, there)
      \/ \E what \in Outcomes : Report(c, what)
  <2> USE DEF Places, Outcomes
  <2>1. CASE Command(c) BY <2>1 DEF Command
  <2>2. CASE Probe(c) BY <2>2 DEF Probe
  <2>3. CASE CloseProbe(c) BY <2>3 DEF CloseProbe
  <2>4. CASE ForgetPID(c) BY <2>4 DEF ForgetPID
  <2>5. CASE DeleteStore(c) BY <2>5 DEF DeleteStore
  <2>6. CASE ReadPID(c) BY <2>6 DEF ReadPID, WorldType
  <2>7. CASE CheckProcess(c) BY <2>7 DEF CheckProcess
  <2>8. CASE StopProcess(c) BY <2>8 DEF StopProcess
  <2>9. CASE WaitForExit(c) BY <2>9 DEF WaitForExit
  <2>10. CASE MatchPID(c) BY <2>10 DEF MatchPID, Verdict
  <2>11. CASE RemovePID(c) BY <2>11 DEF RemovePID, Verdict
  <2>12. CASE SpawnChild(c) BY <2>12 DEF SpawnChild
  <2>18. CASE NoteStart(c) BY <2>18 DEF NoteStart
  <2>13. CASE OpenOwnStore(c) BY <2>13 DEF OpenOwnStore
  <2>14. CASE GivesUp(c) BY <2>14 DEF GivesUp
  <2>15. CASE PollProcess(c) BY <2>15 DEF PollProcess
  <2>16. CASE PollHeartbeat(c) BY <2>16 DEF PollHeartbeat
  <2>17. CASE KillChild(c) BY <2>17 DEF KillChild
  <2>. QED
    BY <2>1, <2>2, <2>3, <2>4, <2>5, <2>6, <2>7, <2>8, <2>9, <2>10, <2>11, <2>12, <2>13,
       <2>14, <2>15, <2>16, <2>17, <2>18 DEF Step
<1>. QED
  BY <1>1, <1>2, <1>3, <1>4

(* What clients do to everything else.                                      *)
LEMMA ClientEffects ==
    ASSUME NEW c \in Client, Command(c) \/ Step(c)
    PROVE  /\ UNCHANGED crashes /\ UNCHANGED announced
           /\ UNCHANGED commands \/ Command(c)
           /\ UNCHANGED lock \/ Probe(c) \/ CloseProbe(c)
           /\ UNCHANGED pidFile \/ ForgetPID(c) \/ RemovePID(c)
           /\ UNCHANGED row \/ DeleteStore(c) \/ NoteStart(c)
           /\ UNCHANGED stage \/ SpawnChild(c)
           /\ UNCHANGED born \/ NoteStart(c)
           /\ UNCHANGED signalled \/ StopProcess(c) \/ KillChild(c)
BY DEF Command, Step, Probe, CloseProbe, ForgetPID, DeleteStore, ReadPID, CheckProcess,
       StopProcess, WaitForExit, MatchPID, RemovePID, NoteStart, SpawnChild, Spawn, OpenOwnStore,
       GivesUp, PollProcess, PollHeartbeat, KillChild, files, row, service, budget

LEMMA ClientKeepsWorld ==
    ASSUME WorldType, NEW c \in Client, Command(c) \/ Step(c) PROVE WorldType'
<1>1. commands' \in 0..MaxCommands /\ crashes' \in 0..MaxCrashes
  <2>1. Command(c) => commands < MaxCommands /\ commands' = commands + 1
    BY DEF Command
  <2>. QED
    BY <2>1, BoundAssumption, ClientEffects DEF WorldType
<1>2. lock' \in Pid \cup Client \cup {Nobody} /\ pidFile' \in Pid \cup {Nobody}
  BY ClientEffects DEF Probe, CloseProbe, ForgetPID, RemovePID, WorldType
<1>3. running' \in BOOLEAN /\ stale' \in BOOLEAN /\ fresh' \subseteq Client
  BY ClientEffects DEF DeleteStore, NoteStart, row, WorldType
<1>4. stage' \in [Pid -> Stages] /\ born' \in [Pid -> SUBSET Client]
  <2>1. SpawnChild(c) => stage' \in [Pid -> Stages]
    BY DEF SpawnChild, Spawn, Stages, Locked, WorldType
  <2>2. NoteStart(c) => born' \in [Pid -> SUBSET Client]
    BY DEF NoteStart, WorldType
  <2>. QED
    BY <2>1, <2>2, ClientEffects DEF WorldType
<1>5. /\ signalled' \subseteq Pid /\ announced' \subseteq Pid
      /\ \A p \in signalled' : stage'[p] \notin {Absent, Gone}
  <2>1. \A p \in signalled' : p \in signalled \/ (Alive(p) /\ ~SpawnChild(c))
    BY ClientEffects DEF StopProcess, KillChild, Terminate, SpawnChild, service, At
  <2>2. \A p \in signalled' : stage[p] \notin {Absent, Gone} /\ p \in Pid
    BY <2>1 DEF Alive, WorldType
  <2>3. CASE SpawnChild(c)
    BY <2>2, <2>3, ClientEffects DEF SpawnChild, Spawn, WorldType, Absent, Gone
  <2>. QED
    BY <2>2, <2>3, ClientEffects DEF WorldType
<1>. QED
  BY <1>1, <1>2, <1>3, <1>4, <1>5 DEF WorldType

LEMMA TypeStep == TypeOK /\ [Next]_vars => TypeOK'
<1> SUFFICES ASSUME WorldType, ClientType, HistoryType, [Next]_vars
             PROVE  WorldType' /\ ClientType' /\ HistoryType'
  <2>1. TypeOK' <=> WorldType' /\ ClientType' /\ HistoryType'
    BY TypeParts, PTL
  <2>. QED
    BY <2>1, TypeParts
<1>1. CASE UNCHANGED vars
  BY <1>1 DEF vars, files, row, service, client, budget, history, WorldType, ClientType,
     HistoryType
<1>2. ASSUME NEW c \in Client, Command(c) \/ (Step(c) /\ Watch)
      PROVE  WorldType' /\ ClientType' /\ HistoryType'
  <2>1. ClientType'
    BY <1>2, ClientMoves DEF ClientType
  <2>2. HistoryType'
    BY <1>2 DEF Command, Watch, HistoryType
  <2>. QED
    BY <1>2, <2>1, <2>2, ClientKeepsWorld
<1>3. ASSUME NEW p \in Pid, Process(p), Watch
      PROVE  WorldType' /\ ClientType' /\ HistoryType'
  BY <1>3, ProcessKeepsTypes DEF Watch, HistoryType, ClientType, client
<1>. QED
  BY <1>1, <1>2, <1>3 DEF Next

LEMMA TypeInit == Init => TypeOK
<1> SUFFICES ASSUME Init PROVE WorldType /\ ClientType /\ HistoryType
  BY TypeParts
<1>1. WorldType
  <2>1. commands \in 0..MaxCommands /\ crashes \in 0..MaxCrashes
    BY BoundAssumption DEF Init
  <2>2. stage \in [Pid -> Stages] /\ born \in [Pid -> SUBSET Client]
    BY DEF Init, Stages, Absent
  <2>. QED
    BY <2>1, <2>2 DEF Init, WorldType
<1>2. ClientType
  BY DEF Init, ClientType, Places, Outcomes
<1>. QED
  BY <1>1, <1>2 DEF Init, HistoryType

(* Every variable keeps its type; a SIGTERM is pending only for a process   *)
(* that is there (process_unix.go, app/service.go:112-162).                *)
THEOREM TypeCorrect == Spec => []TypeOK
BY TypeInit, TypeStep, PTL DEF Spec

-----------------------------------------------------------------------------
(* The PID file.  A client acts on a PID it read a while ago; what saves a   *)
(* service from it is that a PID which was ever in the file is of a process  *)
(* past WritePID (FileInv), so one found gone is not that of a service which *)
(* is still to come (ChaseInv).                                             *)
Public == {"published", "open", "cleared", "serving"}
Early == {Absent, "starting", "locked"}
Chasing == {"check", "signal", "wait", "match dead", "match stopped", "remove dead",
            "remove stopped"}
Found == {"match dead", "match stopped", "remove dead", "remove stopped"}

FileInv == pidFile \in Pid => stage[pidFile] \notin Early

ChaseInv == \A c \in Client :
    /\ pc[c] \in Chasing => target[c] \in Pid /\ stage[target[c]] \notin Early
    /\ pc[c] \in Found => stage[target[c]] = Gone

(* Nobody but a client that had made up its mind when the PID was written    *)
(* removes it; nobody but the service itself writes another.                *)
NamedInv == \A p \in Pid :
    stage[p] \in Public /\ p \notin overtaken =>
        pidFile = p /\ \A c \in Client : pc[c] \notin Removing

OwnInv == \A p \in Pid : stage[p] \in Public => pidFile \in {p, Nobody}

PublishInv == FileInv /\ ChaseInv /\ NamedInv /\ OwnInv

(* How a service process goes on, and what that does to the PID file.       *)
LEMMA ProcessPath ==
    ASSUME WorldType, NEW p \in Pid, Process(p)
    PROVE  /\ \E to \in Stages : stage' = [stage EXCEPT ![p] = to]
           /\ stage[p] # Gone /\ UNCHANGED client
           /\ stage'[p] \in Early => stage[p] \in {Absent, "starting"}
           /\ stage'[p] \in Public =>
                \/ stage[p] \in Public /\ UNCHANGED pidFile
                \/ stage[p] = "locked" /\ pidFile' = p
           /\ \/ UNCHANGED pidFile
              \/ stage[p] = "locked" /\ stage'[p] \in Public /\ pidFile' = p
              \/ stage[p] = "remove" /\ pidFile' = Nobody
<1> USE DEF WorldType, Stages, Locked, Absent, Gone, Go, Leave, Early, Public, files, client
<1>1. CASE StartForeground(p) BY <1>1 DEF StartForeground, Spawn
<1>2. CASE LockIt(p) BY <1>2 DEF LockIt
<1>3. CASE FailsToLock(p) BY <1>3 DEF FailsToLock
<1>4. CASE KilledEarly(p) BY <1>4 DEF KilledEarly
<1>5. CASE WritePID(p) BY <1>5 DEF WritePID
<1>6. CASE OpenStore(p) BY <1>6 DEF OpenStore
<1>7. CASE ClearHeartbeat(p) BY <1>7 DEF ClearHeartbeat
<1>8. CASE Announce(p) BY <1>8 DEF Announce
<1>9. CASE Beat(p) BY <1>9 DEF Beat
<1>10. CASE Shutdown(p) BY <1>10 DEF Shutdown
<1>11. CASE StopHeartbeat(p) BY <1>11 DEF StopHeartbeat
<1>12. CASE MatchOwnPID(p) BY <1>12 DEF MatchOwnPID
<1>13. CASE RemoveOwnPID(p) BY <1>13 DEF RemoveOwnPID
<1>14. CASE Unlock(p) BY <1>14 DEF Unlock
<1>15. CASE Exit(p) BY <1>15 DEF Exit
<1>16. CASE Crash(p) BY <1>16 DEF Crash, Alive
<1>. QED
  BY <1>1, <1>2, <1>3, <1>4, <1>5, <1>6, <1>7, <1>8, <1>9, <1>10, <1>11, <1>12, <1>13,
     <1>14, <1>15, <1>16 DEF Process

(* The way of a client from one call to the next, as far as it matters who    *)
(* it thinks of and what it says in the end.                                *)
Awaiting == {"fork", "open", "poll", "beat"}

Way(c) ==
    /\ \A d \in Client \ {c} :
          pc'[d] = pc[d] /\ target'[d] = target[d] /\ outcome'[d] = outcome[d]
    /\ pc'[c] \in Chasing =>
          \/ pc[c] \in Chasing /\ target'[c] = target[c]
          \/ pc[c] = "read" /\ pc'[c] = "check" /\ target'[c] = pidFile /\ pidFile # Nobody
    /\ pc'[c] = "check" => pc[c] = "read"
    /\ pc'[c] \in Found => pc[c] \in Found \/ ~Alive(target[c])
    /\ pc'[c] \in {"match dead", "remove dead"} =>
          pc[c] \in {"match dead", "remove dead"} \/ (pc[c] = "check" /\ ~Alive(target[c]))
    /\ pc'[c] \in {"remove dead", "remove stopped"} => pc[c] \in Found /\ pidFile = target[c]
    /\ pc'[c] \in {"stop forget", "start forget"} => pc[c] \in Holding
    /\ pc'[c] = "reset forget" => lock' = c
    /\ pc'[c] \in Awaiting =>
          \/ pc[c] \in Awaiting /\ target'[c] = target[c]
          \/ NoteStart(c) \/ SpawnChild(c)
    /\ pc'[c] = "fork" => NoteStart(c)
    /\ Learns(c, "not running") => pc[c] \in {"stop forget", "match dead", "remove dead"}
    /\ Learns(c, "started") => pc[c] = "beat" /\ Ready(c) /\ target'[c] = target[c]

LEMMA ClientWay ==
    ASSUME ClientType, NEW c \in Client, Command(c) \/ Step(c) PROVE Way(c)
<1> USE DEF ClientType, Way, Chasing, Found, Awaiting, Holding, Learns, At, To, Take, Report
<1>1. CASE Command(c) BY <1>1 DEF Command
<1>2. CASE Probe(c) BY <1>2 DEF Probe
<1>3. CASE CloseProbe(c) BY <1>3 DEF CloseProbe
<1>4. CASE ForgetPID(c) BY <1>4 DEF ForgetPID
<1>5. CASE DeleteStore(c) BY <1>5 DEF DeleteStore
<1>6. CASE ReadPID(c) BY <1>6 DEF ReadPID
<1>7. CASE CheckProcess(c) BY <1>7 DEF CheckProcess, Answers
<1>8. CASE StopProcess(c) BY <1>8 DEF StopProcess
<1>9. CASE WaitForExit(c) BY <1>9 DEF WaitForExit, Answers
<1>10. CASE MatchPID(c) BY <1>10 DEF MatchPID, Verdict
<1>11. CASE RemovePID(c) BY <1>11 DEF RemovePID, Verdict
<1>12. CASE SpawnChild(c) BY <1>12 DEF SpawnChild
<1>18. CASE NoteStart(c) BY <1>18 DEF NoteStart
<1>13. CASE OpenOwnStore(c) BY <1>13 DEF OpenOwnStore
<1>14. CASE GivesUp(c) BY <1>14 DEF GivesUp
<1>15. CASE PollProcess(c) BY <1>15 DEF PollProcess
<1>16. CASE PollHeartbeat(c) BY <1>16 DEF PollHeartbeat
<1>17. CASE KillChild(c) BY <1>17 DEF KillChild
<1>. QED
  BY <1>1, <1>2, <1>3, <1>4, <1>5, <1>6, <1>7, <1>8, <1>9, <1>10, <1>11, <1>12, <1>13,
     <1>14, <1>15, <1>16, <1>17, <1>18 DEF Step

(* A service that has the lock is alone, and no client is where it must have  *)
(* the lock.                                                                *)
LEMMA LockedAlone ==
    ASSUME LockInv, NEW p \in Pid, stage[p] \in Locked
    PROVE  /\ \A q \in Pid : stage[q] \in Locked => q = p
           /\ \A c \in Client : pc[c] \notin Holding
BY NamesAssumption DEF LockInv, ServiceHolds, ClientHolds

LEMMA ProcessKeepsFile ==
    ASSUME TypeOK, LockInv, PublishInv, NEW p \in Pid, Process(p), Watch
    PROVE  PublishInv'
<1>1. WorldType /\ ClientType
  BY TypeParts
<1>2. stage \in [Pid -> Stages] /\ UNCHANGED <<pc, target>> /\ stage[p] # Gone
  BY <1>1, ProcessPath DEF WorldType, client
<1>3. \A q \in Pid \ {p} : stage'[q] = stage[q]
  BY <1>1, <1>2, ProcessPath
<1>4. /\ stage'[p] \in Early => stage[p] \in {Absent, "starting"}
      /\ stage'[p] \in Public =>
           \/ stage[p] \in Public /\ UNCHANGED pidFile
           \/ stage[p] = "locked" /\ pidFile' = p
      /\ \/ UNCHANGED pidFile
         \/ stage[p] = "locked" /\ stage'[p] \in Public /\ pidFile' = p
         \/ stage[p] = "remove" /\ pidFile' = Nobody
  BY <1>1, ProcessPath
<1>5. FileInv'
  BY <1>2, <1>3, <1>4, NamesAssumption DEF PublishInv, FileInv, Early, Public, Absent
<1>6. ChaseInv'
  <2>1. \A q \in Pid : /\ stage[q] \notin Early => stage'[q] \notin Early
                       /\ stage[q] = Gone => stage'[q] = Gone
    BY <1>2, <1>3, <1>4 DEF Early
  <2>. QED
    BY <2>1, <1>2 DEF PublishInv, ChaseInv, Found, Chasing
<1>7. ASSUME NEW q \in Pid, q # p, stage'[q] \in Public
      PROVE  stage[q] \in Public /\ UNCHANGED pidFile
  BY <1>3, <1>4, <1>7, LockedAlone DEF Locked, Public
<1>8. ASSUME NEW q \in Pid, stage'[q] \in Public, q \notin overtaken'
      PROVE  q \notin overtaken /\ (pidFile' = q /\ pidFile # q =>
                                      \A c \in Client : pc[c] \notin Removing)
  BY <1>8 DEF Watch, Public, Locked
<1>9. NamedInv'
  <2> SUFFICES ASSUME NEW q \in Pid, stage'[q] \in Public, q \notin overtaken'
               PROVE  pidFile' = q /\ \A c \in Client : pc[c] \notin Removing
    BY <1>2 DEF NamedInv
  <2>1. CASE stage[q] \in Public /\ UNCHANGED pidFile
    BY <2>1, <1>8 DEF PublishInv, NamedInv
  <2>2. CASE stage[q] = "locked" /\ pidFile' = q
    BY <2>2, <1>8 DEF PublishInv, FileInv, Early
  <2>. QED
    BY <2>1, <2>2, <1>4, <1>7
<1>10. OwnInv'
  BY <1>4, <1>7 DEF PublishInv, OwnInv
<1>. QED
  BY <1>5, <1>6, <1>9, <1>10 DEF PublishInv

LEMMA ClientKeepsFile ==
    ASSUME TypeOK, LockInv, LockInv', PublishInv, NEW c \in Client,
           Command(c) \/ (Step(c) /\ Watch)
    PROVE  PublishInv'
<1>1. WorldType /\ ClientType
  BY TypeParts
<1>2. Way(c) /\ (UNCHANGED stage \/ SpawnChild(c))
  BY <1>1, ClientWay, ClientEffects
<1>3. \A p \in Pid : UNCHANGED stage[p] \/ (stage[p] = Absent /\ stage'[p] = "starting")
  BY <1>1, <1>2 DEF SpawnChild, Spawn, WorldType
<1>4. \A p \in Pid : stage'[p] \in Public => stage[p] \in Public
  BY <1>3 DEF Public
<1>5. \A p \in Pid : stage[p] \notin Early => stage'[p] = stage[p]
  BY <1>3 DEF Early
<1>6. UNCHANGED pidFile \/ (pidFile' = Nobody /\ pc[c] \in Removing \cup {"reset forget"})
  BY ClientEffects DEF ForgetPID, RemovePID, At, Removing
<1>7. FileInv'
  BY <1>5, <1>6, NamesAssumption DEF PublishInv, FileInv
<1>8. ChaseInv'
  <2>1. ASSUME NEW d \in Client, pc'[d] \in Chasing
        PROVE  target'[d] \in Pid /\ stage[target'[d]] \notin Early
    BY <2>1, <1>1, <1>2 DEF Way, PublishInv, ChaseInv, FileInv, WorldType
  <2>2. ASSUME NEW d \in Client, pc'[d] \in Found
        PROVE  stage[target'[d]] = Gone
    <3>1. CASE pc[d] \in Found /\ target'[d] = target[d]
      BY <3>1 DEF PublishInv, ChaseInv
    <3>2. CASE d = c /\ ~Alive(target[c]) /\ pc[c] \in Chasing /\ target'[c] = target[c]
      BY <3>2 DEF PublishInv, ChaseInv, Alive, Early
    <3>3. pc'[d] \in Chasing /\ pc'[d] # "check"
      BY <2>2 DEF Found, Chasing
    <3>. QED
      BY <2>2, <3>1, <3>2, <3>3, <1>2 DEF Way
  <2>. QED
    BY <2>1, <2>2, <1>5 DEF ChaseInv, Found, Chasing
<1>9. NamedInv'
  <2> SUFFICES ASSUME NEW p \in Pid, stage'[p] \in Public, p \notin overtaken'
               PROVE  pidFile' = p /\ \A d \in Client : pc'[d] \notin Removing
    BY DEF NamedInv
  <2>1. p \notin overtaken
    BY DEF Watch, Command, Public, Locked
  <2>2. stage[p] \in Public /\ pidFile = p /\ \A d \in Client : pc[d] \notin Removing
    BY <1>4, <2>1 DEF PublishInv, NamedInv
  <2>3. pc[c] \notin Holding
    BY <2>2, LockedAlone DEF Public, Locked
  <2>4. pidFile' = p
    BY <1>6, <2>2, <2>3 DEF Holding
  <2>5. stage[p] # Gone
    BY <2>2 DEF Public, Gone
  <2>6. pc'[c] \notin {"remove dead", "remove stopped"}
    <3> SUFFICES ASSUME pc'[c] \in {"remove dead", "remove stopped"} PROVE FALSE
      OBVIOUS
    <3>1. pc[c] \in Found /\ target[c] = p
      BY <1>2, <2>2 DEF Way
    <3>. QED
      BY <3>1, <2>5 DEF PublishInv, ChaseInv
  <2>7. pc'[c] \notin {"stop forget", "start forget"}
    BY <1>2, <2>3 DEF Way
  <2>. QED
    BY <2>2, <2>4, <2>6, <2>7, <1>2 DEF Way, Removing
<1>10. OwnInv'
  BY <1>4, <1>6 DEF PublishInv, OwnInv
<1>. QED
  BY <1>7, <1>8, <1>9, <1>10 DEF PublishInv

LEMMA PublishStep ==
    TypeOK /\ LockInv /\ LockInv' /\ PublishInv /\ [Next]_vars => PublishInv'
<1> SUFFICES ASSUME TypeOK, LockInv, LockInv', PublishInv, [Next]_vars PROVE PublishInv'
  OBVIOUS
<1>1. CASE \E c \in Client : Command(c) \/ (Step(c) /\ Watch)
  BY <1>1, ClientKeepsFile
<1>2. CASE \E p \in Pid : Process(p) /\ Watch
  BY <1>2, ProcessKeepsFile
<1>3. CASE UNCHANGED vars
  BY <1>3 DEF vars, files, service, client, history, PublishInv, FileInv, ChaseInv,
     NamedInv, OwnInv
<1>. QED
  BY <1>1, <1>2, <1>3 DEF Next

LEMMA PublishInit == Init => PublishInv
BY NamesAssumption
DEF Init, PublishInv, FileInv, ChaseInv, NamedInv, OwnInv, Chasing, Found, Public, Absent

(* Whoever runs `service stop` while a service is up finds its PID in the     *)
(* file, unless the file was removed by a client that had looked before the *)
(* service wrote it (process.go, app/service.go:112-162).                   *)
THEOREM ThePIDStaysInPlace == Spec => []Published
<1>1. PublishInv => Published
  BY DEF PublishInv, NamedInv, Public, Published
<1>. QED
  BY <1>1, TypeInit, TypeStep, LockInit, LockStep, PublishInit, PublishStep, PTL DEF Spec

-----------------------------------------------------------------------------
(* "not running".  A client that is about to say so has seen the lock free,  *)
(* or the process of the PID file gone; for the second one needs that the   *)
(* PID in the file is that of the service, if one serves (OwnInv).          *)
MissedInv == \A c \in Client :
    /\ pc[c] \in {"stop forget", "match dead", "remove dead"} => c \in missed
    /\ pc[c] = "check" => c \in missed \/ stage[target[c]] = "serving"

(* At most one serves; when it stops, nobody does.                          *)
LEMMA ProcessKeepsMissed ==
    ASSUME TypeOK, LockInv, PublishInv, MissedInv, NEW p \in Pid, Process(p), Watch
    PROVE  MissedInv'
<1>1. WorldType
  BY TypeParts
<1>2. UNCHANGED <<pc, target>> /\ \A q \in Pid \ {p} : stage'[q] = stage[q]
  BY <1>1, ProcessPath DEF WorldType, client
<1>3. \A c \in Client : c \in missed => c \in missed'
  BY DEF Watch
<1>4. ASSUME NEW q \in Pid, stage[q] = "serving", stage'[q] # "serving"
      PROVE  \A c \in Client : c \in missed'
  <2>1. q = p
    BY <1>2, <1>4
  <2>2. \A r \in Pid : stage[r] = "serving" => r = p
    BY <1>4, <2>1, LockedAlone DEF Locked
  <2>3. Serving' = {}
    BY <1>2, <1>4, <2>1, <2>2 DEF Serving
  <2>. QED
    BY <2>3 DEF Watch
<1>. QED
  <2>1. ASSUME NEW c \in Client, pc[c] = "check", c \notin missed'
        PROVE  stage'[target[c]] = "serving"
    BY <2>1, <1>3, <1>4 DEF MissedInv, PublishInv, ChaseInv, Chasing
  <2>. QED
    BY <2>1, <1>2, <1>3 DEF MissedInv

LEMMA ClientKeepsMissed ==
    ASSUME TypeOK, LockInv, PublishInv, MissedInv, NEW c \in Client,
           Command(c) \/ (Step(c) /\ Watch)
    PROVE  MissedInv'
<1>1. WorldType /\ ClientType
  BY TypeParts
<1>2. Way(c)
  BY <1>1, ClientWay
<1>3. \A p \in Pid : stage[p] = "serving" => stage'[p] = "serving"
  BY <1>1, ClientEffects DEF SpawnChild, Spawn, Absent, WorldType
<1>4. CASE Command(c)
  <2>1. /\ pc[c] = "idle" /\ \A d \in Client \ {c} : d \in missed => d \in missed'
    BY <1>4 DEF Command, At
  <2>2. pc'[c] \notin {"stop forget", "match dead", "remove dead", "check"}
    BY <2>1, <1>2 DEF Way, Holding
  <2>3. \A d \in Client \ {c} : pc[d] = "check" => target[d] \in Pid
    BY DEF PublishInv, ChaseInv, Chasing
  <2>. QED
    BY <2>1, <2>2, <2>3, <1>2, <1>3 DEF Way, MissedInv
<1>5. CASE Step(c) /\ Watch
  <2>1. \A d \in Client : d \in missed \/ Serving = {} => d \in missed'
    BY <1>5 DEF Watch
  <2>2. pc'[c] = "stop forget" => c \in missed'
    <3>1. pc[c] \in Holding => Serving = {}
      BY LockedAlone DEF Serving, Locked
    <3>. QED
      BY <3>1, <2>1, <1>2 DEF Way
  <2>3. pc'[c] \in {"match dead", "remove dead"} => c \in missed'
    <3>1. pc[c] = "check" /\ ~Alive(target[c]) => c \in missed
      BY DEF PublishInv, ChaseInv, Chasing, MissedInv, Alive, Absent, Gone
    <3>. QED
      BY <3>1, <2>1, <1>2 DEF Way, MissedInv
  <2>4. pc'[c] = "check" => c \in missed' \/ stage'[target'[c]] = "serving"
    <3> SUFFICES ASSUME pc'[c] = "check", c \notin missed'
                 PROVE  stage'[target'[c]] = "serving"
      OBVIOUS
    <3>1. pc[c] = "read" /\ target'[c] = pidFile /\ pidFile # Nobody
      BY <1>2 DEF Way, Chasing
    <3>2. PICK p \in Pid : stage[p] = "serving"
      BY <2>1 DEF Serving
    <3>3. pidFile = p
      BY <3>1, <3>2 DEF PublishInv, OwnInv, Public
    <3>. QED
      BY <3>1, <3>2, <3>3, <1>3
  <2>5. ASSUME NEW d \in Client, d # c
        PROVE  /\ pc'[d] \in {"stop forget", "match dead", "remove dead"} => d \in missed'
               /\ pc'[d] = "check" => d \in missed' \/ stage'[target'[d]] = "serving"
    <3>1. pc'[d] = pc[d] /\ target'[d] = target[d]
      BY <1>2, <2>5 DEF Way
    <3>2. pc[d] = "check" => target[d] \in Pid
      BY DEF PublishInv, ChaseInv, Chasing
    <3>. QED
      BY <3>1, <3>2, <2>1, <1>3 DEF MissedInv
  <2>. QED
    BY <2>2, <2>3, <2>4, <2>5 DEF MissedInv
<1>. QED
  BY <1>4, <1>5

FindInv == TypeOK /\ LockInv /\ PublishInv /\ MissedInv

LEMMA FindInit == Init => FindInv
BY TypeInit, LockInit, PublishInit DEF FindInv, Init, MissedInv

LEMMA FindStep == FindInv /\ [Next]_vars => FindInv'
<1> SUFFICES ASSUME TypeOK, LockInv, PublishInv, MissedInv, [Next]_vars PROVE FindInv'
  BY DEF FindInv
<1>1. TypeOK' /\ LockInv' /\ PublishInv'
  BY TypeStep, LockStep, PublishStep
<1>2. CASE \E c \in Client : Command(c) \/ (Step(c) /\ Watch)
  BY <1>1, <1>2, ClientKeepsMissed DEF FindInv
<1>3. CASE \E p \in Pid : Process(p) /\ Watch
  BY <1>1, <1>3, ProcessKeepsMissed DEF FindInv
<1>4. CASE UNCHANGED vars
  BY <1>1, <1>4 DEF vars, service, client, history, MissedInv, FindInv
<1>. QED
  BY <1>2, <1>3, <1>4 DEF Next

(* Only a client's own step tells it anything.                              *)
LEMMA LearnsByItself ==
    ASSUME TypeOK, [Next]_vars, NEW c \in Client, NEW what, Learns(c, what)
    PROVE  Step(c) /\ Watch /\ Way(c)
<1>1. WorldType /\ ClientType /\ pc[c] # "idle" /\ pc'[c] = "idle"
  BY TypeParts DEF Learns
<1>2. ~UNCHANGED pc
  BY <1>1
<1>3. \A p \in Pid : ~Process(p)
  BY <1>1, <1>2, ProcessPath DEF client
<1>4. PICK d \in Client : Command(d) \/ (Step(d) /\ Watch)
  BY <1>2, <1>3 DEF Next, vars, client
<1>5. Way(d)
  BY <1>1, <1>4, ClientWay
<1>6. d = c
  BY <1>1, <1>5 DEF Way
<1>7. ~Command(c)
  BY <1>1 DEF Command, At
<1>. QED
  BY <1>4, <1>5, <1>6, <1>7

(* When `service stop` says "not running", there was a moment since the       *)
(* command began when no service was in its loop: neither a probe nor a     *)
(* file left behind makes it miss one that serves all along                 *)
(* (app/service.go:112-162).                                               *)
THEOREM NotRunningIsJust == Spec => NotRunningIsTrue
<1>1. FindInv /\ [Next]_vars
        => [\A c \in Client : Learns(c, "not running") => c \in missed']_vars
  <2> SUFFICES ASSUME FindInv, [Next]_vars, NEW c \in Client, Learns(c, "not running")
               PROVE  c \in missed'
    OBVIOUS
  <2>1. Watch /\ pc[c] \in {"stop forget", "match dead", "remove dead"}
    BY LearnsByItself DEF FindInv, Way
  <2>. QED
    BY <2>1 DEF FindInv, MissedInv, Watch
<1>. QED
  BY <1>1, FindInit, FindStep, PTL DEF Spec, NotRunningIsTrue

-----------------------------------------------------------------------------
(* "started".  The row a waiting client reads is either of before it read the *)
(* clock, and then too old, or of the child, or of a service that disturbed *)
(* it.                                                                     *)
ChildInv ==
    /\ \A p \in Pid : stage[p] = "serving" => p \in announced
    /\ \A c \in Client : pc[c] = "fork" => target[c] = Nobody
    /\ \A c \in Client :
          pc[c] \in Awaiting /\ c \notin disturbed /\ target[c] \notin announced =>
              ~(running /\ c \in fresh)

LEMMA ProcessRow ==
    ASSUME WorldType, NEW p \in Pid, Process(p)
    PROVE  /\ announced \subseteq announced'
           /\ stage'[p] = "serving" => p \in announced' \/ stage[p] = "serving"
           /\ ~running' \/ UNCHANGED <<running, fresh>> \/ stage'[p] = "serving"
<1> USE DEF WorldType, Absent, Gone, Go, Leave, row
<1>1. CASE StartForeground(p) BY <1>1 DEF StartForeground, Spawn
<1>2. CASE LockIt(p) BY <1>2 DEF LockIt
<1>3. CASE FailsToLock(p) BY <1>3 DEF FailsToLock
<1>4. CASE KilledEarly(p) BY <1>4 DEF KilledEarly
<1>5. CASE WritePID(p) BY <1>5 DEF WritePID
<1>6. CASE OpenStore(p) BY <1>6 DEF OpenStore
<1>7. CASE ClearHeartbeat(p) BY <1>7 DEF ClearHeartbeat
<1>8. CASE Announce(p) BY <1>8 DEF Announce
<1>9. CASE Beat(p) BY <1>9 DEF Beat
<1>10. CASE Shutdown(p) BY <1>10 DEF Shutdown
<1>11. CASE StopHeartbeat(p) BY <1>11 DEF StopHeartbeat
<1>12. CASE MatchOwnPID(p) BY <1>12 DEF MatchOwnPID
<1>13. CASE RemoveOwnPID(p) BY <1>13 DEF RemoveOwnPID
<1>14. CASE Unlock(p) BY <1>14 DEF Unlock
<1>15. CASE Exit(p) BY <1>15 DEF Exit
<1>16. CASE Crash(p) BY <1>16 DEF Crash, Alive
<1>. QED
  BY <1>1, <1>2, <1>3, <1>4, <1>5, <1>6, <1>7, <1>8, <1>9, <1>10, <1>11, <1>12, <1>13,
     <1>14, <1>15, <1>16 DEF Process

LEMMA ProcessKeepsChild ==
    ASSUME TypeOK, ChildInv, NEW p \in Pid, Process(p), Watch PROVE ChildInv'
<1>1. WorldType
  BY TypeParts
<1>2. UNCHANGED <<pc, target>> /\ \A q \in Pid \ {p} : stage'[q] = stage[q]
  BY <1>1, ProcessPath DEF WorldType, client
<1>3. announced \subseteq announced' /\ (stage'[p] = "serving" => p \in announced')
  BY <1>1, ProcessRow DEF ChildInv
<1>4. ASSUME NEW c \in Client, pc[c] \in Awaiting, c \notin disturbed',
             target[c] \notin announced'
      PROVE  ~(running' /\ c \in fresh')
  <2>1. c \notin disturbed /\ target[c] \notin announced
    BY <1>2, <1>3, <1>4 DEF Watch, Awaiting, Detaching
  <2>2. stage'[p] # "serving"
    BY <1>2, <1>3, <1>4 DEF Watch, Awaiting, Detaching, Locked
  <2>. QED
    BY <2>1, <2>2, <1>1, <1>4, ProcessRow DEF ChildInv, row
<1>. QED
  BY <1>2, <1>3, <1>4 DEF ChildInv

LEMMA ClientKeepsChild ==
    ASSUME TypeOK, ChildInv, NEW c \in Client, Command(c) \/ (Step(c) /\ Watch)
    PROVE  ChildInv'
<1>1. WorldType /\ ClientType
  BY TypeParts
<1>2. Way(c) /\ UNCHANGED announced
  BY <1>1, ClientWay, ClientEffects
<1>3. \A p \in Pid : stage'[p] = "serving" => stage[p] = "serving"
  BY <1>1, ClientEffects DEF SpawnChild, Spawn, WorldType
<1>4. /\ running' => running /\ fresh' \subseteq fresh
      /\ NoteStart(c) => c \notin fresh' /\ target'[c] = Nobody
  BY <1>1, ClientEffects DEF DeleteStore, NoteStart, Take, row, ClientType
<1>5. ASSUME NEW d \in Client, pc'[d] \in Awaiting, d \notin disturbed',
             target'[d] \notin announced'
      PROVE  ~(running' /\ d \in fresh')
  <2>1. CASE d = c /\ NoteStart(c)
    BY <2>1, <1>4
  <2>2. CASE ~(d = c /\ NoteStart(c))
    <3>1. /\ pc[d] \in Awaiting
          /\ target'[d] = target[d] \/ (pc[d] = "fork" /\ target[d] = Nobody)
      BY <2>2, <1>2, <1>5 DEF Way, SpawnChild, At, Awaiting, ChildInv
    <3>2. target[d] \notin announced
      BY <3>1, <1>1, <1>2, <1>5, NamesAssumption DEF WorldType
    <3>3. d \notin disturbed
      BY <1>5 DEF Command, Watch, Awaiting, Detaching
    <3>. QED
      BY <3>1, <3>2, <3>3, <1>4 DEF ChildInv
  <2>. QED
    BY <2>1, <2>2
<1>6. \A d \in Client : pc'[d] = "fork" => target'[d] = Nobody
  BY <1>2, <1>4 DEF Way, ChildInv
<1>. QED
  BY <1>2, <1>3, <1>5, <1>6 DEF ChildInv

LEMMA ChildStep == TypeOK /\ ChildInv /\ [Next]_vars => ChildInv'
<1> SUFFICES ASSUME TypeOK, ChildInv, [Next]_vars PROVE ChildInv'
  OBVIOUS
<1>1. CASE \E c \in Client : Command(c) \/ (Step(c) /\ Watch)
  BY <1>1, ClientKeepsChild
<1>2. CASE \E p \in Pid : Process(p) /\ Watch
  BY <1>2, ProcessKeepsChild
<1>3. CASE UNCHANGED vars
  BY <1>3 DEF vars, row, service, client, history, ChildInv
<1>. QED
  BY <1>1, <1>2, <1>3 DEF Next

(* When `service --detach` reports a PID, that service has announced itself,  *)
(* unless another one ran since StartDetached read the clock, before it      *)
(* spawned it (app/service.go:85-119).                                     *)
THEOREM StartedIsJust == Spec => StartedMeansServing
<1>1. Init => ChildInv
  BY DEF Init, ChildInv, Absent
<1>2. TypeOK /\ ChildInv /\ [Next]_vars
        => [\A c \in Client :
              Learns(c, "started") => target[c] \in announced \/ c \in disturbed]_vars
  <2> SUFFICES ASSUME TypeOK, ChildInv, [Next]_vars, NEW c \in Client, Learns(c, "started")
               PROVE  target[c] \in announced \/ c \in disturbed
    OBVIOUS
  <2>1. pc[c] = "beat" /\ Ready(c)
    BY LearnsByItself DEF Way
  <2>. QED
    BY <2>1 DEF ChildInv, Ready, Awaiting
<1>. QED
  BY <1>1, <1>2, TypeInit, TypeStep, ChildStep, PTL DEF Spec, StartedMeansServing
=============================================================================
