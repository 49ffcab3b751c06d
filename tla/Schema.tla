------------------------------- MODULE Schema -------------------------------
(* What opening the database promises, whoever else is opening it: its     *)
(* schema goes from one complete version to another in one step, and who   *)
(* has it open began with every migration its binary knows, and with none  *)
(* it does not know.                                                       *)
EXTENDS Integers

CONSTANTS
    Process,       \* the processes that open the database
    NewestVersion, \* the last migration of any release
    MaxFiles       \* bound: how often the file is deleted

VARIABLES
    file,          \* the file that has the name of the database
    schema,        \* schema[f]: the migrations in file f, {0} when it predates them
    using          \* using[p]: the file p has open, and the last migration it knows

vars == <<file, schema, using>>

Files == 0..MaxFiles
Closed == [file |-> 0, known |-> 0]

Init ==
    /\ file = 0 /\ using = [p \in Process |-> Closed]
    /\ \E found \in {{0}} \cup {1..k : k \in 0..NewestVersion} :
         schema = [f \in Files |-> IF f = 0 THEN found ELSE {}]

(* The binary knows the migrations up to `known`; the file may have been   *)
(* deleted since it was looked up.                                         *)
Open(p, f, known) ==
    /\ using[p] = Closed /\ f <= file
    /\ schema[f] \subseteq 1..known
    /\ schema' = [schema EXCEPT ![f] = 1..known]
    /\ using' = [using EXCEPT ![p] = [file |-> f, known |-> known]]
    /\ UNCHANGED file

Leave(p) ==
    /\ using[p] # Closed /\ using' = [using EXCEPT ![p] = Closed]
    /\ UNCHANGED <<file, schema>>

Delete ==
    /\ file < MaxFiles /\ file' = file + 1 /\ UNCHANGED <<schema, using>>

Next ==
    \/ \E p \in Process :
         Leave(p) \/ \E f \in Files, known \in 1..NewestVersion : Open(p, f, known)
    \/ Delete

Spec == Init /\ [][Next]_vars
=============================================================================
