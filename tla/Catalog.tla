------------------------------ MODULE Catalog ------------------------------
(* What the registry commands promise together: however many processes run  *)
(* them at a time, each takes effect at one instant between its beginning    *)
(* and its end, and reports what it did to the table at that instant.        *)
EXTENDS Integers

CONSTANTS Namespace, Version, Client, Absent, Operation

VARIABLES
    table,   \* table[n]: the row of namespace n, or Absent
    nextId,  \* the sequence of AUTOINCREMENT
    command, \* command[c]: the operation of client c and its namespace
    open,    \* open[c]: the command has not been answered
    reply    \* reply[c]: what client c's last command reported

store == <<table, nextId>>
vars == <<store, command, open, reply>>

Init ==
    /\ table = [n \in Namespace |-> Absent] /\ nextId = 1
    /\ command = [c \in Client |-> [op |-> "none", on |-> Absent]]
    /\ open = [c \in Client |-> FALSE] /\ reply = [c \in Client |-> "none"]

Ask(c) ==
    /\ ~open[c] /\ open' = [open EXCEPT ![c] = TRUE] /\ UNCHANGED <<store, reply>>
    /\ \E op \in Operation, n \in Namespace :
          command' = [command EXCEPT ![c] = [op |-> op, on |-> n]]

Answer(c, ops, what) ==
    /\ open[c] /\ open' = [open EXCEPT ![c] = FALSE] /\ UNCHANGED command
    /\ command[c].op \in ops /\ reply' = [reply EXCEPT ![c] = what]

Registered(c) == table[command[c].on] # Absent
Change(c, row) == table' = [table EXCEPT ![command[c].on] = row]

Add(c) ==
    /\ Answer(c, {"add", "add enabled"}, "done") /\ ~Registered(c) /\ nextId' = nextId + 1
    /\ \E v \in Version :
          Change(c, [id |-> nextId, hash |-> v, active |-> command[c].op = "add enabled"])

Update(c) ==
    /\ Answer(c, {"update"}, "done") /\ Registered(c) /\ UNCHANGED nextId
    /\ \E v \in Version : Change(c, [table[command[c].on] EXCEPT !.hash = v])

SetActive(c) ==
    /\ Answer(c, {"enable", "disable"}, "done") /\ Registered(c) /\ UNCHANGED nextId
    /\ Change(c, [table[command[c].on] EXCEPT !.active = (command[c].op = "enable")])

Remove(c) ==
    /\ Answer(c, {"remove"}, "done") /\ Registered(c) /\ UNCHANGED nextId
    /\ Change(c, Absent)

(* Nothing to do: an update without changes, a task that is as it should be. *)
Same(c) ==
    /\ Answer(c, {"update", "enable", "disable"}, "same") /\ Registered(c) /\ UNCHANGED store
    /\ command[c].op # "update" =>
          table[command[c].on].active = (command[c].op = "enable")

(* A run leaves the table as it is, and so does a refusal or a failure.      *)
Execute(c) == Answer(c, {"run"}, "ran") /\ UNCHANGED store
Refuse(c) == Answer(c, Operation, "error") /\ UNCHANGED store

(* The one answer that is not true: an update of a task that was removed     *)
(* while the command ran says done, for UpdateTask ignores RowsAffected.     *)
UpdateNothing(c) == Answer(c, {"update"}, "done") /\ ~Registered(c) /\ UNCHANGED store

Next == \E c \in Client :
    \/ Ask(c) \/ Add(c) \/ Update(c) \/ SetActive(c) \/ Remove(c) \/ Same(c)
    \/ Execute(c) \/ Refuse(c) \/ UpdateNothing(c)

Spec == Init /\ [][Next]_vars
=============================================================================
