------------------------------ MODULE Registry ------------------------------
(* The commands of internal/app/tasks.go over the tasks table of             *)
(* internal/store/sqlite.go, run by several processes at a time.  Each SQL  *)
(* statement is a step; between the statements of one command, and between *)
(* reading a file and writing the row, others run.                          *)
(*                                                                         *)
(* A namespace has one definition file, whose content is a version; two      *)
(* versions have different hashes.  A target is a namespace or a file of    *)
(* it, which resolve turns into the namespace.                             *)
EXTENDS Integers

CONSTANTS
    Namespace, Version, Client,
    Absent,       \* no row
    FirstVersion, \* what the files hold at first
    MaxCommands,  \* bound: how many commands are run
    MaxEdits      \* bound: how often files are edited

Row == [id : Nat, hash : Version, active : BOOLEAN]

ASSUME NamesAssumption == FirstVersion \in Version /\ Absent \notin Row
ASSUME BoundAssumption == MaxCommands \in Nat /\ MaxEdits \in Nat

VARIABLES
    table, nextId, \* the tasks table and its sequence
    file,          \* file[n]: the content of the file of n
    pc,            \* pc[c]: where client c stands
    command,       \* command[c]: the operation and its namespace
    loaded,        \* loaded[c]: the version Load has read
    reply,         \* reply[c]: what the last command reported
    commands, edits, \* how many so far
    enabled        \* history: the namespaces an `enable` was reported for,
                   \* and that no one began to disable or remove since

store == <<table, nextId>>
local == <<command, loaded>>
vars == <<store, file, pc, local, reply, commands, edits, enabled>>

Operation == {"add", "add enabled", "update", "enable", "disable", "remove", "run"}
Ends == {"disable", "remove"}
NoCommand == [op |-> "none", on |-> Absent]

Op(c) == command[c].op
On(c) == command[c].on
Ending(n) == \E c \in Client : pc[c] # "idle" /\ On(c) = n /\ Op(c) \in Ends

Init ==
    /\ table = [n \in Namespace |-> Absent] /\ nextId = 1
    /\ file = [n \in Namespace |-> FirstVersion]
    /\ pc = [c \in Client |-> "idle"]
    /\ command = [c \in Client |-> NoCommand] /\ loaded = [c \in Client |-> FirstVersion]
    /\ reply = [c \in Client |-> "none"]
    /\ commands = 0 /\ edits = 0 /\ enabled = {}

(* What a SELECT by the command's namespace finds (Task, resolve).           *)
Registered(c) == table[On(c)] # Absent

-----------------------------------------------------------------------------
To(c, from, to) ==
    /\ pc[c] = from /\ pc' = [pc EXCEPT ![c] = to]
    /\ UNCHANGED <<file, command, commands, edits>>

Continue(c, from, to) == To(c, from, to) /\ UNCHANGED <<store, reply, enabled>>

Report(c, from, what) ==
    /\ To(c, from, "idle") /\ reply' = [reply EXCEPT ![c] = what] /\ UNCHANGED loaded
    /\ enabled' = enabled \cup {n \in Namespace :
          n = On(c) /\ Op(c) = "enable" /\ what \in {"done", "same"} /\ ~Ending(n)}

Invoke(c) ==
    /\ pc[c] = "idle" /\ commands < MaxCommands /\ commands' = commands + 1
    /\ \E op \in Operation, n \in Namespace :
          /\ command' = [command EXCEPT ![c] = [op |-> op, on |-> n]]
          /\ pc' = [pc EXCEPT ![c] =
                IF op \in {"add", "add enabled", "update"} THEN "load" ELSE "resolve"]
          /\ enabled' = IF op \in Ends THEN enabled \ {n} ELSE enabled
    /\ UNCHANGED <<store, file, loaded, reply, edits>>

(* Definitions.Load; an unreadable or invalid file is a failure.            *)
Load(c) ==
    /\ Continue(c, "load", IF Op(c) = "update" THEN "find" ELSE "insert")
    /\ loaded' = [loaded EXCEPT ![c] = file[On(c)]]

(* A file that cannot be read, a database that cannot be opened or used, or  *)
(* a process that is killed, whose answer nobody reads.                    *)
Fail(c) == \E from \in {"load", "resolve", "find", "insert", "write", "set", "delete", "execute"} :
    Report(c, from, "error") /\ UNCHANGED store

(* AddTask: the namespace is unique, and ids are never given out again.      *)
Replaced(c) == TRUE \* mutant: INSERT OR REPLACE
Unique(c) == table[On(c)] = Absent
GivenAgain(id) == id \* mutant: the sequence is not advanced
After(id) == id + 1

AddTask(c) == pc[c] = "insert" /\
    \/ /\ Unique(c) /\ Report(c, "insert", "done") /\ nextId' = After(nextId)
       /\ table' = [table EXCEPT ![On(c)] =
             [id |-> nextId, hash |-> loaded[c], active |-> Op(c) = "add enabled"]]
    \/ ~Unique(c) /\ Report(c, "insert", "error") /\ UNCHANGED store

(* UpdateTask: the SELECT, and the UPDATE, whose count of rows nobody reads. *)
FindTask(c) == pc[c] = "find" /\
    \/ ~Registered(c) /\ Report(c, "find", "error") /\ UNCHANGED store
    \/ /\ Registered(c) /\ table[On(c)].hash = loaded[c]
       /\ Report(c, "find", "same") /\ UNCHANGED store
    \/ /\ Registered(c) /\ table[On(c)].hash # loaded[c]
       /\ Continue(c, "find", "write") /\ UNCHANGED loaded

WrittenBack(row, v) == \* mutant: active is written too, with the default of add
    [row EXCEPT !.hash = v, !.active = FALSE]

Written(row, v) == [row EXCEPT !.hash = v]

WriteTask(c) ==
    /\ Report(c, "write", "done") /\ UNCHANGED nextId
    /\ table' = [table EXCEPT ![On(c)] = IF @ = Absent THEN @ ELSE Written(@, loaded[c])]

(* SetActive, Remove and Run up to the row that resolve finds.               *)
SetActive(c) == pc[c] = "resolve" /\ Op(c) \in {"enable", "disable"} /\
    \/ ~Registered(c) /\ Report(c, "resolve", "error") /\ UNCHANGED store
    \/ /\ Registered(c) /\ table[On(c)].active = (Op(c) = "enable")
       /\ Report(c, "resolve", "same") /\ UNCHANGED store
    \/ /\ Registered(c) /\ table[On(c)].active # (Op(c) = "enable")
       /\ Continue(c, "resolve", "set") /\ UNCHANGED loaded

Remove(c) == pc[c] = "resolve" /\ Op(c) = "remove" /\
    \/ ~Registered(c) /\ Report(c, "resolve", "error") /\ UNCHANGED store
    \/ Registered(c) /\ Continue(c, "resolve", "delete") /\ UNCHANGED loaded

Run(c) == pc[c] = "resolve" /\ Op(c) = "run" /\
    \/ ~Registered(c) /\ Report(c, "resolve", "error") /\ UNCHANGED store
    \/ Registered(c) /\ Continue(c, "resolve", "execute") /\ UNCHANGED loaded

SetTaskActive(c) == pc[c] = "set" /\
    \/ /\ Registered(c) /\ Report(c, "set", "done") /\ UNCHANGED nextId
       /\ table' = [table EXCEPT ![On(c)].active = (Op(c) = "enable")]
    \/ ~Registered(c) /\ Report(c, "set", "error") /\ UNCHANGED store

RemoveTask(c) == pc[c] = "delete" /\
    \/ /\ Registered(c) /\ Report(c, "delete", "done") /\ UNCHANGED nextId
       /\ table' = [table EXCEPT ![On(c)] = Absent]
    \/ ~Registered(c) /\ Report(c, "delete", "error") /\ UNCHANGED store

(* The command of Run, from the row read before; its row is one of runs.      *)
Execute(c) == Report(c, "execute", "ran") /\ UNCHANGED store

Edit(n) ==
    /\ edits < MaxEdits /\ edits' = edits + 1
    /\ \E v \in Version \ {file[n]} : file' = [file EXCEPT ![n] = v]
    /\ UNCHANGED <<store, pc, local, reply, commands, enabled>>

Step(c) ==
    \/ Invoke(c) \/ Load(c) \/ Fail(c) \/ AddTask(c) \/ FindTask(c) \/ WriteTask(c)
    \/ SetActive(c) \/ SetTaskActive(c) \/ Remove(c) \/ RemoveTask(c) \/ Run(c) \/ Execute(c)

Next == (\E c \in Client : Step(c)) \/ (\E n \in Namespace : Edit(n))

Spec == Init /\ [][Next]_vars

-----------------------------------------------------------------------------
(* Every variable keeps its type; rows have ids of their own, below the      *)
(* sequence's.                                                             *)
TypeOK ==
    /\ table \in [Namespace -> Row \cup {Absent}] /\ nextId \in Nat
    /\ \A m, n \in Namespace : table[m] # Absent =>
          table[m].id < nextId /\ (m # n /\ table[n] # Absent => table[m].id # table[n].id)
    /\ file \in [Namespace -> Version] /\ loaded \in [Client -> Version]
    /\ pc \in [Client -> {"idle", "load", "resolve", "find", "insert", "write", "set",
                          "delete", "execute"}]
    /\ command \in [Client -> [op : Operation, on : Namespace] \cup {NoCommand}]
    /\ reply \in [Client -> {"none", "done", "same", "ran", "error"}]
    /\ commands \in 0..MaxCommands /\ edits \in 0..MaxEdits
    /\ enabled \subseteq Namespace

(* When `enable` was reported for a task and nobody began to disable or      *)
(* remove it since, it is enabled: no update, add or enable beside it, and  *)
(* none that read the row before, takes that back.                          *)
EnableSticks == \A n \in enabled : table[n] # Absent /\ table[n].active

(* The commands are those of Catalog: each takes effect at one instant, and  *)
(* its answer is about the table at that instant, but for the update of a   *)
(* task removed meanwhile, which answers that it is done.                  *)
Atomic == INSTANCE Catalog WITH open <- [c \in Client |-> pc[c] # "idle"]
ImplementsCatalog == Atomic!Spec
=============================================================================
