-------------------------- MODULE RegistryProofs --------------------------
(* Theorems about Registry, for every set of namespaces, versions and        *)
(* clients and every bound.                                                *)
EXTENDS Registry, TLAPS

(* What a client does at each of its steps.                                 *)
Does == [load |-> {"add", "add enabled", "update"}, insert |-> {"add", "add enabled"},
         find |-> {"update"}, write |-> {"update"},
         resolve |-> {"enable", "disable", "remove", "run"},
         set |-> {"enable", "disable"}, delete |-> {"remove"}, execute |-> {"run"}]

Fits == \A c \in Client : pc[c] # "idle" =>
    On(c) \in Namespace /\ Op(c) \in Operation /\ Op(c) \in Does[pc[c]]

(* EnableSticks is inductive only with its reason: who would disable or       *)
(* remove the task has not begun.                                           *)
Protected == \A n \in enabled :
    table[n] \in Row /\ table[n].active = TRUE /\ ~Ending(n)

IInv == TypeOK /\ Fits /\ Protected

THEOREM InitIInv == Init => IInv
  BY NamesAssumption, BoundAssumption
  DEF Init, IInv, TypeOK, Fits, Protected, NoCommand

-----------------------------------------------------------------------------
(* What an answer leaves alone and what it adds to enabled.                  *)
LEMMA ReportFrame ==
  ASSUME NEW c \in Client, NEW from, NEW what, TypeOK, Fits,
         what \in {"done", "same", "ran", "error"}, from # "idle", Report(c, from, what)
  PROVE  /\ pc[c] = from /\ On(c) \in Namespace /\ Op(c) \in Operation /\ Op(c) \in Does[from]
         /\ pc' \in [Client -> {"idle", "load", "resolve", "find", "insert", "write",
                                "set", "delete", "execute"}]
         /\ pc' = [pc EXCEPT ![c] = "idle"]
         /\ UNCHANGED <<file, command, commands, edits, loaded>>
         /\ reply' \in [Client -> {"none", "done", "same", "ran", "error"}]
         /\ enabled' \subseteq Namespace
         /\ Fits'
         /\ \A n \in Namespace : Ending(n)' => Ending(n)
         /\ \A n \in enabled' : n \in enabled \/
               (n = On(c) /\ Op(c) = "enable" /\ what \in {"done", "same"} /\ ~Ending(n))
  <1>1. /\ pc[c] = from /\ pc' = [pc EXCEPT ![c] = "idle"]
        /\ UNCHANGED <<file, command, commands, edits, loaded>>
        /\ reply' = [reply EXCEPT ![c] = what]
    BY DEF Report, To
  <1>2. On(c) \in Namespace /\ Op(c) \in Operation /\ Op(c) \in Does[from]
    BY <1>1 DEF Fits
  <1>3. /\ pc' \in [Client -> {"idle", "load", "resolve", "find", "insert", "write",
                               "set", "delete", "execute"}]
        /\ reply' \in [Client -> {"none", "done", "same", "ran", "error"}]
    BY <1>1 DEF TypeOK
  <1>4. \A d \in Client : pc'[d] # "idle" => pc'[d] = pc[d]
    BY <1>1 DEF TypeOK
  <1>5. \A d \in Client : On(d)' = On(d) /\ Op(d)' = Op(d)
    BY <1>1 DEF On, Op
  <1>6. Fits'
    BY <1>4, <1>5 DEF Fits
  <1>7. \A n \in Namespace : Ending(n)' => Ending(n)
    BY <1>4, <1>5 DEF Ending
  <1>8. enabled' = enabled \cup {n \in Namespace :
            n = On(c) /\ Op(c) = "enable" /\ what \in {"done", "same"} /\ ~Ending(n)}
    BY DEF Report
  <1>9. enabled' \subseteq Namespace
    BY <1>8 DEF TypeOK
  <1>10. \A n \in enabled' : n \in enabled \/
            (n = On(c) /\ Op(c) = "enable" /\ what \in {"done", "same"} /\ ~Ending(n))
    BY <1>8
  <1> QED BY <1>1, <1>2, <1>3, <1>6, <1>7, <1>9, <1>10

(* The same of a step that is not the command's last.                       *)
LEMMA ContinueFrame ==
  ASSUME NEW c \in Client, NEW from, NEW to, TypeOK, Fits, from # "idle",
         to \in {"find", "insert", "write", "set", "delete", "execute"},
         Continue(c, from, to), pc[c] = from => Op(c) \in Does[to]
  PROVE  /\ pc[c] = from /\ On(c) \in Namespace
         /\ pc' \in [Client -> {"idle", "load", "resolve", "find", "insert", "write",
                                "set", "delete", "execute"}]
         /\ UNCHANGED <<store, file, command, commands, edits, reply, enabled>>
         /\ Fits'
         /\ \A n \in Namespace : Ending(n)' => Ending(n)
         /\ UNCHANGED [d \in Client |-> pc[d] # "idle"]
  <1>1. /\ pc[c] = from /\ pc' = [pc EXCEPT ![c] = to]
        /\ UNCHANGED <<store, file, command, commands, edits, reply, enabled>>
    BY DEF Continue, To
  <1>2. On(c) \in Namespace /\ Op(c) \in Operation /\ Op(c) \in Does[to]
    BY <1>1 DEF Fits
  <1>3. pc' \in [Client -> {"idle", "load", "resolve", "find", "insert", "write",
                            "set", "delete", "execute"}]
    BY <1>1 DEF TypeOK
  <1>4. \A d \in Client : d # c => pc'[d] = pc[d]
    BY <1>1 DEF TypeOK
  <1>5. pc'[c] = to /\ to # "idle"
    BY <1>1 DEF TypeOK
  <1>6. \A d \in Client : On(d)' = On(d) /\ Op(d)' = Op(d)
    BY <1>1 DEF On, Op
  <1>7. Fits'
    BY <1>2, <1>4, <1>5, <1>6 DEF Fits
  <1>8. \A n \in Namespace : Ending(n)' => Ending(n)
    BY <1>1, <1>4, <1>6 DEF Ending
  <1>9. \A d \in Client : (pc'[d] # "idle") <=> (pc[d] # "idle")
    BY <1>1, <1>4, <1>5
  <1>10. UNCHANGED [d \in Client |-> pc[d] # "idle"]
    BY <1>9
  <1> QED BY <1>1, <1>2, <1>3, <1>7, <1>8, <1>10

(* A row that is written for its namespace is typed, and its id its own.      *)
Rows(t, next) ==
    /\ t \in [Namespace -> Row \cup {Absent}] /\ next \in Nat
    /\ \A m, n \in Namespace : t[m] # Absent =>
          t[m].id < next /\ (m # n /\ t[n] # Absent => t[m].id # t[n].id)

LEMMA NewRow ==
  ASSUME NEW t, NEW next, Rows(t, next), NEW n \in Namespace, NEW v \in Version,
         NEW a \in BOOLEAN, t[n] = Absent
  PROVE  Rows([t EXCEPT ![n] = [id |-> next, hash |-> v, active |-> a]], next + 1)
  <1> DEFINE r == [id |-> next, hash |-> v, active |-> a]
             u == [t EXCEPT ![n] = r]
  <1>1. r \in Row /\ r.id = next /\ next \in Nat
    BY DEF Row, Rows
  <1>2. u \in [Namespace -> Row \cup {Absent}]
    BY <1>1 DEF Rows
  <1>3. \A m \in Namespace : u[m] = IF m = n THEN r ELSE t[m]
    BY DEF Rows
  <1>4. \A m \in Namespace : t[m] # Absent => t[m].id \in Nat /\ t[m].id < next
    BY DEF Rows, Row
  <1> HIDE DEF r, u
  <1>5. \A m \in Namespace : u[m] # Absent => u[m].id < next + 1
    BY <1>1, <1>3, <1>4
  <1>6. ASSUME NEW k \in Namespace, NEW m \in Namespace, u[k] # Absent, u[m] # Absent, k # m
        PROVE  u[k].id # u[m].id
    <2>1. CASE k = n
      BY <2>1, <1>1, <1>3, <1>4, <1>6
    <2>2. CASE m = n
      BY <2>2, <1>1, <1>3, <1>4, <1>6
    <2>3. CASE k # n /\ m # n
      BY <2>3, <1>3, <1>6 DEF Rows
    <2> QED BY <2>1, <2>2, <2>3
  <1> QED BY <1>1, <1>2, <1>5, <1>6 DEF Rows, u, r

LEMMA SameId ==
  ASSUME NEW t, NEW next, Rows(t, next), NEW n \in Namespace, NEW r \in Row \cup {Absent},
         r # Absent => t[n] # Absent /\ r.id = t[n].id
  PROVE  Rows([t EXCEPT ![n] = r], next)
  <1> DEFINE u == [t EXCEPT ![n] = r]
  <1>1. u \in [Namespace -> Row \cup {Absent}]
    BY DEF Rows
  <1>2. \A m \in Namespace : u[m] # Absent => t[m] # Absent /\ u[m].id = t[m].id
    BY DEF Rows
  <1> HIDE DEF u
  <1> QED BY <1>1, <1>2 DEF Rows, u

-----------------------------------------------------------------------------
(* An answer keeps the invariant if what it writes does.                     *)
LEMMA ReportIInv ==
  ASSUME NEW c \in Client, NEW from, NEW what, IInv, from # "idle",
         what \in {"done", "same", "ran", "error"}, Report(c, from, what),
         Rows(table', nextId'),
         \A n \in enabled : table'[n] \in Row /\ table'[n].active = TRUE,
         Op(c) = "enable" /\ what \in {"done", "same"} =>
            table'[On(c)] \in Row /\ table'[On(c)].active = TRUE
  PROVE  IInv'
  <1>1. TypeOK /\ Fits /\ Protected
    BY DEF IInv
  <1>2. /\ On(c) \in Namespace
        /\ pc' \in [Client -> {"idle", "load", "resolve", "find", "insert", "write",
                               "set", "delete", "execute"}]
        /\ UNCHANGED <<file, command, commands, edits, loaded>>
        /\ reply' \in [Client -> {"none", "done", "same", "ran", "error"}]
        /\ enabled' \subseteq Namespace
        /\ Fits'
        /\ \A n \in Namespace : Ending(n)' => Ending(n)
        /\ \A n \in enabled' : n \in enabled \/
              (n = On(c) /\ Op(c) = "enable" /\ what \in {"done", "same"} /\ ~Ending(n))
    BY <1>1, ReportFrame
  <1>3. TypeOK'
    BY <1>1, <1>2 DEF TypeOK, Rows
  <1>4. Protected'
    <2> SUFFICES ASSUME NEW n \in enabled'
                 PROVE  table'[n] \in Row /\ table'[n].active = TRUE /\ ~Ending(n)'
      BY DEF Protected
    <2>1. CASE n \in enabled
      BY <2>1, <1>1, <1>2 DEF Protected
    <2>2. CASE n \notin enabled
      BY <2>2, <1>2
    <2> QED BY <2>1, <2>2
  <1> QED BY <1>2, <1>3, <1>4 DEF IInv

(* So does one that writes nothing, if what it says is so.                   *)
LEMMA QuietIInv ==
  ASSUME NEW c \in Client, NEW from, NEW what, IInv, from # "idle",
         what \in {"done", "same", "ran", "error"}, Report(c, from, what), UNCHANGED store,
         Op(c) = "enable" /\ what \in {"done", "same"} =>
            table[On(c)] \in Row /\ table[On(c)].active = TRUE
  PROVE  IInv'
  <1>1. table' = table /\ nextId' = nextId
    BY DEF store
  <1>2. Rows(table', nextId')
    BY <1>1 DEF IInv, TypeOK, Rows
  <1>3. \A n \in enabled : table'[n] \in Row /\ table'[n].active = TRUE
    BY <1>1 DEF IInv, Protected
  <1> QED BY <1>1, <1>2, <1>3, ReportIInv

LEMMA ContinueIInv ==
  ASSUME NEW c \in Client, NEW from, NEW to, IInv, from # "idle",
         to \in {"find", "insert", "write", "set", "delete", "execute"},
         Continue(c, from, to), pc[c] = from => Op(c) \in Does[to],
         loaded' \in [Client -> Version]
  PROVE  IInv'
  <1>1. TypeOK /\ Fits /\ Protected
    BY DEF IInv
  <1>2. /\ pc' \in [Client -> {"idle", "load", "resolve", "find", "insert", "write",
                               "set", "delete", "execute"}]
        /\ UNCHANGED <<store, file, command, commands, edits, reply, enabled>>
        /\ Fits'
        /\ \A n \in Namespace : Ending(n)' => Ending(n)
    BY <1>1, ContinueFrame
  <1>3. TypeOK'
    BY <1>1, <1>2 DEF TypeOK, store
  <1>4. enabled \subseteq Namespace
    BY <1>1 DEF TypeOK
  <1>5. Protected'
    BY <1>1, <1>2, <1>4 DEF Protected, store
  <1> QED BY <1>2, <1>3, <1>5 DEF IInv

(* Where a client stands, its namespace is one, and so is its row's type.    *)
LEMMA Standing ==
  ASSUME NEW c \in Client, IInv, pc[c] # "idle"
  PROVE  /\ On(c) \in Namespace /\ Op(c) \in Operation /\ Op(c) \in Does[pc[c]]
         /\ Rows(table, nextId) /\ loaded[c] \in Version
         /\ table[On(c)] # Absent => table[On(c)] \in Row
         /\ \A n \in enabled : n \in Namespace /\ table[n] \in Row /\ table[n].active = TRUE
         /\ \A n \in enabled : n = On(c) => Op(c) \notin Ends
  <1>1. On(c) \in Namespace /\ Op(c) \in Operation /\ Op(c) \in Does[pc[c]]
    BY DEF IInv, Fits
  <1>2. Rows(table, nextId)
    BY DEF IInv, TypeOK, Rows
  <1>3. loaded[c] \in Version
    BY DEF IInv, TypeOK
  <1>4. table[On(c)] # Absent => table[On(c)] \in Row
    BY <1>1, <1>2 DEF Rows
  <1>5. \A n \in enabled : n \in Namespace
    BY DEF IInv, TypeOK
  <1>6. \A n \in enabled : table[n] \in Row /\ table[n].active = TRUE /\ ~Ending(n)
    BY DEF IInv, Protected
  <1>7. \A n \in enabled : n = On(c) => Op(c) \notin Ends
    BY <1>6 DEF Ending
  <1> QED BY <1>1, <1>2, <1>3, <1>4, <1>5, <1>6, <1>7

-----------------------------------------------------------------------------
LEMMA DoesValues ==
  /\ Does["load"] = {"add", "add enabled", "update"} /\ Does["insert"] = {"add", "add enabled"}
  /\ Does["find"] = {"update"} /\ Does["write"] = {"update"}
  /\ Does["resolve"] = {"enable", "disable", "remove", "run"}
  /\ Does["set"] = {"enable", "disable"} /\ Does["delete"] = {"remove"}
  /\ Does["execute"] = {"run"}
  BY DEF Does

LEMMA InvokeIInv == ASSUME NEW c \in Client, IInv, Invoke(c) PROVE IInv'
  <1>1. TypeOK /\ Fits /\ Protected
    BY DEF IInv
  <1>2. PICK op \in Operation, n \in Namespace :
          /\ command' = [command EXCEPT ![c] = [op |-> op, on |-> n]]
          /\ pc' = [pc EXCEPT ![c] =
                IF op \in {"add", "add enabled", "update"} THEN "load" ELSE "resolve"]
          /\ enabled' = IF op \in Ends THEN enabled \ {n} ELSE enabled
    BY DEF Invoke
  <1>3. /\ pc[c] = "idle" /\ commands < MaxCommands /\ commands' = commands + 1
        /\ UNCHANGED <<table, nextId, file, loaded, reply, edits>>
    BY DEF Invoke, store
  <1>4. commands' \in 0..MaxCommands
    BY <1>1, <1>3, BoundAssumption DEF TypeOK
  <1>5. [op |-> op, on |-> n] \in [op : Operation, on : Namespace]
    OBVIOUS
  <1>6. command' \in [Client -> [op : Operation, on : Namespace] \cup {NoCommand}]
    BY <1>1, <1>2, <1>5 DEF TypeOK
  <1>7. /\ pc' \in [Client -> {"idle", "load", "resolve", "find", "insert", "write",
                               "set", "delete", "execute"}]
        /\ enabled' \subseteq Namespace
    BY <1>1, <1>2 DEF TypeOK
  <1>8. TypeOK'
    BY <1>1, <1>3, <1>4, <1>6, <1>7 DEF TypeOK
  <1>9. \A d \in Client : d # c => pc'[d] = pc[d] /\ On(d)' = On(d) /\ Op(d)' = Op(d)
    BY <1>1, <1>2 DEF TypeOK, On, Op
  <1>10. On(c)' = n /\ Op(c)' = op
    BY <1>1, <1>2 DEF TypeOK, On, Op
  <1>11. pc'[c] = IF op \in {"add", "add enabled", "update"} THEN "load" ELSE "resolve"
    BY <1>1, <1>2 DEF TypeOK
  <1>12. op \in Does[pc'[c]]
    <2>1. CASE op \in {"add", "add enabled", "update"}
      BY <2>1, <1>11, DoesValues
    <2>2. CASE op \notin {"add", "add enabled", "update"}
      <3>1. pc'[c] = "resolve" /\ op \in {"enable", "disable", "remove", "run"}
        BY <2>2, <1>11 DEF Operation
      <3> QED BY <3>1, DoesValues
    <2> QED BY <2>1, <2>2
  <1>13. Fits'
    BY <1>1, <1>9, <1>10, <1>12 DEF Fits
  <1>14. \A k \in enabled' : k \in enabled /\ (k = n => op \notin Ends)
    BY <1>2
  <1>15. \A k \in enabled' : ~Ending(k)'
    BY <1>1, <1>9, <1>10, <1>14 DEF Protected, Ending
  <1>16. Protected'
    BY <1>1, <1>3, <1>14, <1>15 DEF Protected
  <1> QED BY <1>8, <1>13, <1>16 DEF IInv

LEMMA LoadIInv == ASSUME NEW c \in Client, IInv, Load(c) PROVE IInv'
  <1>1. Continue(c, "load", IF Op(c) = "update" THEN "find" ELSE "insert")
    BY DEF Load
  <1>2. pc[c] = "load"
    BY <1>1 DEF Continue, To
  <1>3. On(c) \in Namespace /\ Op(c) \in Does["load"]
    BY <1>2, Standing
  <1>4. Op(c) \in Does[IF Op(c) = "update" THEN "find" ELSE "insert"]
    BY <1>3 DEF Does
  <1>5. loaded' \in [Client -> Version]
    BY <1>3 DEF Load, IInv, TypeOK
  <1> QED BY <1>1, <1>4, <1>5, ContinueIInv

LEMMA FailIInv == ASSUME NEW c \in Client, IInv, Fail(c) PROVE IInv'
  BY QuietIInv DEF Fail

LEMMA AddTaskIInv == ASSUME NEW c \in Client, IInv, AddTask(c) PROVE IInv'
  <1>1. pc[c] = "insert"
    BY DEF AddTask
  <1>2. /\ On(c) \in Namespace /\ Op(c) \in {"add", "add enabled"}
        /\ Rows(table, nextId) /\ loaded[c] \in Version
        /\ \A n \in enabled : n \in Namespace /\ table[n] \in Row /\ table[n].active = TRUE
    <2>1. On(c) \in Namespace /\ Op(c) \in Does["insert"]
      BY <1>1, Standing
    <2>2. Op(c) \in {"add", "add enabled"}
      BY <2>1, DoesValues
    <2>3. Rows(table, nextId) /\ loaded[c] \in Version
      BY <1>1, Standing
    <2>4. \A n \in enabled : n \in Namespace /\ table[n] \in Row /\ table[n].active = TRUE
      BY <1>1, Standing
    <2> QED BY <2>1, <2>2, <2>3, <2>4
  <1>3. CASE ~Unique(c) /\ Report(c, "insert", "error") /\ UNCHANGED store
    BY <1>3, QuietIInv
  <1>4. CASE /\ Unique(c) /\ Report(c, "insert", "done") /\ nextId' = After(nextId)
             /\ table' = [table EXCEPT ![On(c)] =
                   [id |-> nextId, hash |-> loaded[c], active |-> Op(c) = "add enabled"]]
    <2>1. table[On(c)] = Absent /\ nextId' = nextId + 1
      BY <1>4 DEF Unique, After
    <2>2. Rows(table', nextId')
      <3>1. PICK a \in BOOLEAN : a = (Op(c) = "add enabled")
        OBVIOUS
      <3>2. table' = [table EXCEPT ![On(c)] = [id |-> nextId, hash |-> loaded[c], active |-> a]]
        BY <1>4, <3>1
      <3> QED BY <3>2, <2>1, <1>2, NewRow
    <2>3. \A n \in enabled : n # On(c)
      BY <2>1, <1>2, NamesAssumption
    <2>4. \A n \in enabled : table'[n] = table[n]
      BY <2>3, <1>2, <1>4 DEF Rows
    <2>5. \A n \in enabled : table'[n] \in Row /\ table'[n].active = TRUE
      BY <2>4, <1>2
    <2> QED BY <2>2, <2>5, <1>2, <1>4, ReportIInv
  <1> QED BY <1>3, <1>4 DEF AddTask

LEMMA FindTaskIInv == ASSUME NEW c \in Client, IInv, FindTask(c) PROVE IInv'
  <1>1. pc[c] = "find"
    BY DEF FindTask, Registered
  <1>2. Op(c) = "update"
    <2>1. Op(c) \in Does["find"]
      BY <1>1, Standing
    <2> QED BY <2>1, DoesValues
  <1>3. ASSUME NEW what \in {"error", "same"}, Report(c, "find", what), UNCHANGED store
        PROVE  IInv'
    BY <1>2, <1>3, QuietIInv
  <1>4. ASSUME Continue(c, "find", "write"), UNCHANGED loaded
        PROVE  IInv'
    <2>1. Op(c) \in Does["write"]
      BY <1>2, DoesValues
    <2>2. loaded' \in [Client -> Version]
      BY <1>4 DEF IInv, TypeOK
    <2> QED BY <2>1, <2>2, <1>4, ContinueIInv
  <1> QED BY <1>3, <1>4 DEF FindTask, Registered

LEMMA WriteTaskIInv == ASSUME NEW c \in Client, IInv, WriteTask(c) PROVE IInv'
  <1>1. Report(c, "write", "done") /\ nextId' = nextId
    BY DEF WriteTask
  <1>2. pc[c] = "write"
    BY <1>1 DEF Report, To
  <1>3. /\ On(c) \in Namespace /\ Op(c) \in Does["write"]
        /\ Rows(table, nextId) /\ loaded[c] \in Version
    BY <1>2, Standing
  <1>4. Op(c) = "update"
    BY <1>3, DoesValues
  <1>5. \A n \in enabled : n \in Namespace /\ table[n] \in Row /\ table[n].active = TRUE
    BY <1>2, Standing
  <1> DEFINE row == table[On(c)]
             new == IF row = Absent THEN row ELSE Written(row, loaded[c])
  <1>6. table' = [table EXCEPT ![On(c)] = new]
    BY DEF WriteTask
  <1>7. row # Absent => row \in Row
    BY <1>2, Standing
  <1>8. row # Absent => new \in Row /\ new.id = row.id /\ new.active = row.active
    BY <1>3, <1>7 DEF Written, Row
  <1>9. row = Absent => new = Absent
    OBVIOUS
  <1>10. table[On(c)] = row
    OBVIOUS
  <1> HIDE DEF new, row
  <1>11. Rows(table', nextId')
    <2>1. new \in Row \cup {Absent} /\ (new # Absent => row # Absent /\ new.id = row.id)
      BY <1>8, <1>9
    <2>2. Rows([table EXCEPT ![On(c)] = new], nextId)
      BY <2>1, <1>3, <1>10, SameId
    <2> QED BY <2>2, <1>1, <1>6
  <1>12. \A n \in enabled : table'[n] \in Row /\ table'[n].active = TRUE
    <2> SUFFICES ASSUME NEW n \in enabled
                 PROVE  table'[n] \in Row /\ table'[n].active = TRUE
      OBVIOUS
    <2>1. CASE n = On(c)
      <3>1. row # Absent /\ row.active = TRUE
        BY <2>1, <1>5, <1>10, NamesAssumption
      <3>2. table'[n] = new
        BY <2>1, <1>3, <1>6 DEF Rows
      <3> QED BY <3>1, <3>2, <1>8
    <2>2. CASE n # On(c)
      BY <2>2, <1>3, <1>5, <1>6 DEF Rows
    <2> QED BY <2>1, <2>2
  <1> QED BY <1>1, <1>4, <1>11, <1>12, ReportIInv

LEMMA ResolveIInv ==
  ASSUME NEW c \in Client, IInv, SetActive(c) \/ Remove(c) \/ Run(c)
  PROVE  IInv'
  <1>1. pc[c] = "resolve"
    BY DEF SetActive, Remove, Run
  <1>2. table[On(c)] # Absent => table[On(c)] \in Row
    BY <1>1, Standing
  <1>3. loaded \in [Client -> Version]
    BY DEF IInv, TypeOK
  <1>4. CASE table[On(c)] = Absent /\ Report(c, "resolve", "error") /\ UNCHANGED store
    BY <1>4, QuietIInv
  <1>5. CASE /\ table[On(c)] # Absent /\ Op(c) \in {"enable", "disable"}
             /\ table[On(c)].active = (Op(c) = "enable")
             /\ Report(c, "resolve", "same") /\ UNCHANGED store
    <2>1. Op(c) = "enable" => table[On(c)] \in Row /\ table[On(c)].active = TRUE
      BY <1>2, <1>5
    <2> QED BY <2>1, <1>5, QuietIInv
  <1>6. CASE /\ Op(c) \in {"enable", "disable"}
             /\ Continue(c, "resolve", "set") /\ UNCHANGED loaded
    <2>1. Op(c) \in Does["set"]
      BY <1>6, DoesValues
    <2> QED BY <2>1, <1>3, <1>6, ContinueIInv
  <1>7. CASE /\ Op(c) \in {"remove", "run"} /\ UNCHANGED loaded
             /\ Continue(c, "resolve", IF Op(c) = "remove" THEN "delete" ELSE "execute")
    <2>1. CASE Op(c) = "remove"
      BY <2>1, <1>3, <1>7, DoesValues, ContinueIInv
    <2>2. CASE Op(c) = "run"
      BY <2>2, <1>3, <1>7, DoesValues, ContinueIInv
    <2> QED BY <2>1, <2>2, <1>7
  <1> QED BY <1>4, <1>5, <1>6, <1>7 DEF SetActive, Remove, Run, Registered

LEMMA SetTaskActiveIInv == ASSUME NEW c \in Client, IInv, SetTaskActive(c) PROVE IInv'
  <1>1. pc[c] = "set"
    BY DEF SetTaskActive, Registered
  <1>2. On(c) \in Namespace /\ Op(c) \in Does["set"] /\ Rows(table, nextId)
    BY <1>1, Standing
  <1>3. Op(c) \in {"enable", "disable"}
    BY <1>2, DoesValues
  <1>4. /\ table[On(c)] # Absent => table[On(c)] \in Row
        /\ \A n \in enabled : n \in Namespace /\ table[n] \in Row /\ table[n].active = TRUE
        /\ \A n \in enabled : n = On(c) => Op(c) \notin Ends
    BY <1>1, Standing
  <1>5. CASE table[On(c)] = Absent /\ Report(c, "set", "error") /\ UNCHANGED store
    BY <1>5, QuietIInv
  <1>6. CASE /\ table[On(c)] # Absent /\ Report(c, "set", "done") /\ UNCHANGED nextId
             /\ table' = [table EXCEPT ![On(c)].active = (Op(c) = "enable")]
    <2>1. PICK a \in BOOLEAN : a = (Op(c) = "enable")
      OBVIOUS
    <2> DEFINE new == [table[On(c)] EXCEPT !.active = a]
    <2>2. table' = [table EXCEPT ![On(c)] = new]
      BY <2>1, <1>6
    <2>3. new \in Row /\ new.id = table[On(c)].id /\ new.active = a
      BY <1>4, <1>6 DEF Row
    <2> HIDE DEF new
    <2>4. Rows([table EXCEPT ![On(c)] = new], nextId)
      BY <2>3, <1>2, <1>6, SameId
    <2>5. Rows(table', nextId')
      BY <2>2, <2>4, <1>6
    <2>6. table'[On(c)] = new
      BY <2>2, <1>2 DEF Rows
    <2>7. Op(c) = "enable" => table'[On(c)] \in Row /\ table'[On(c)].active = TRUE
      BY <2>1, <2>3, <2>6
    <2>8. \A n \in enabled : table'[n] \in Row /\ table'[n].active = TRUE
      <3> SUFFICES ASSUME NEW n \in enabled
                   PROVE  table'[n] \in Row /\ table'[n].active = TRUE
        OBVIOUS
      <3>1. CASE n = On(c)
        BY <3>1, <2>7, <1>3, <1>4 DEF Ends
      <3>2. CASE n # On(c)
        BY <3>2, <2>2, <1>2, <1>4 DEF Rows
      <3> QED BY <3>1, <3>2
    <2> QED BY <2>5, <2>7, <2>8, <1>6, ReportIInv
  <1> QED BY <1>5, <1>6 DEF SetTaskActive, Registered

LEMMA RemoveTaskIInv == ASSUME NEW c \in Client, IInv, RemoveTask(c) PROVE IInv'
  <1>1. pc[c] = "delete"
    BY DEF RemoveTask, Registered
  <1>2. On(c) \in Namespace /\ Op(c) \in Does["delete"] /\ Rows(table, nextId)
    BY <1>1, Standing
  <1>3. Op(c) = "remove"
    BY <1>2, DoesValues
  <1>4. /\ \A n \in enabled : n \in Namespace /\ table[n] \in Row /\ table[n].active = TRUE
        /\ \A n \in enabled : n = On(c) => Op(c) \notin Ends
    BY <1>1, Standing
  <1>5. CASE table[On(c)] = Absent /\ Report(c, "delete", "error") /\ UNCHANGED store
    BY <1>5, QuietIInv
  <1>6. CASE /\ table[On(c)] # Absent /\ Report(c, "delete", "done") /\ UNCHANGED nextId
             /\ table' = [table EXCEPT ![On(c)] = Absent]
    <2>1. Rows([table EXCEPT ![On(c)] = Absent], nextId)
      BY <1>2, SameId
    <2>2. Rows(table', nextId')
      BY <2>1, <1>6
    <2>3. \A n \in enabled : n # On(c)
      BY <1>3, <1>4 DEF Ends
    <2>4. \A n \in enabled : table'[n] \in Row /\ table'[n].active = TRUE
      BY <2>3, <1>2, <1>4, <1>6 DEF Rows
    <2> QED BY <2>2, <2>4, <1>3, <1>6, ReportIInv
  <1> QED BY <1>5, <1>6 DEF RemoveTask, Registered

LEMMA ExecuteIInv == ASSUME NEW c \in Client, IInv, Execute(c) PROVE IInv'
  BY QuietIInv DEF Execute

LEMMA EditIInv == ASSUME NEW n \in Namespace, IInv, Edit(n) PROVE IInv'
  <1>1. /\ UNCHANGED <<table, nextId, pc, command, loaded, reply, commands, enabled>>
        /\ edits < MaxEdits /\ edits' = edits + 1
    BY DEF Edit, store, local
  <1>2. file' \in [Namespace -> Version]
    BY DEF Edit, IInv, TypeOK
  <1>3. edits' \in 0..MaxEdits
    BY <1>1, BoundAssumption DEF IInv, TypeOK
  <1>4. TypeOK'
    BY <1>1, <1>2, <1>3 DEF IInv, TypeOK
  <1>5. Fits'
    BY <1>1 DEF IInv, Fits, On, Op
  <1>6. Protected'
    BY <1>1 DEF IInv, Protected, Ending, On, Op
  <1> QED BY <1>4, <1>5, <1>6 DEF IInv

LEMMA StepIInv == IInv /\ [Next]_vars => IInv'
  <1> SUFFICES ASSUME IInv, [Next]_vars PROVE IInv'
    OBVIOUS
  <1>1. CASE UNCHANGED vars
    <2>1. UNCHANGED <<table, nextId, file, pc, command, loaded, reply, commands, edits, enabled>>
      BY <1>1 DEF vars, store, local
    <2>2. TypeOK'
      BY <2>1 DEF IInv, TypeOK
    <2>3. Fits'
      BY <2>1 DEF IInv, Fits, On, Op
    <2>4. Protected'
      BY <2>1 DEF IInv, Protected, Ending, On, Op
    <2> QED BY <2>2, <2>3, <2>4 DEF IInv
  <1>2. ASSUME NEW c \in Client, Step(c)
        PROVE  IInv'
    BY <1>2, InvokeIInv, LoadIInv, FailIInv, AddTaskIInv, FindTaskIInv, WriteTaskIInv,
       ResolveIInv, SetTaskActiveIInv, RemoveTaskIInv, ExecuteIInv DEF Step
  <1>3. ASSUME NEW n \in Namespace, Edit(n)
        PROVE  IInv'
    BY <1>3, EditIInv
  <1> QED BY <1>1, <1>2, <1>3 DEF Next

-----------------------------------------------------------------------------
(* Every variable keeps its type, and the ids of the tasks stay their own,   *)
(* however many commands run at a time (AUTOINCREMENT, the UNIQUE namespace).  *)
THEOREM TypeCorrect == Spec => []TypeOK
  <1>1. IInv => TypeOK
    BY DEF IInv
  <1> QED BY <1>1, InitIInv, StepIInv, PTL DEF Spec

(* A task that was reported enabled stays enabled until someone begins to    *)
(* disable or remove it: UpdateTask leaves active alone, AddTask refuses.     *)
THEOREM EnabledStaysEnabled == Spec => []EnableSticks
  <1>1. IInv => EnableSticks
    BY NamesAssumption DEF IInv, Protected, EnableSticks
  <1> QED BY <1>1, InitIInv, StepIInv, PTL DEF Spec

-----------------------------------------------------------------------------
(* Refinement: the last statement of a command is the instant at which it     *)
(* takes effect; the steps before it are stuttering steps of Catalog.         *)
LEMMA Answered ==
  ASSUME NEW c \in Client, NEW from, NEW what, NEW ops, IInv, from # "idle",
         Report(c, from, what), Op(c) \in ops
  PROVE  Atomic!Answer(c, ops, what)
  <1>1. /\ pc[c] = from /\ pc' = [pc EXCEPT ![c] = "idle"]
        /\ UNCHANGED command /\ reply' = [reply EXCEPT ![c] = what]
    BY DEF Report, To
  <1>2. \A d \in Client : pc'[d] = IF d = c THEN "idle" ELSE pc[d]
    BY <1>1 DEF IInv, TypeOK
  <1> DEFINE isOpen == [d \in Client |-> pc[d] # "idle"]
  <1>3. isOpen[c] = TRUE
    BY <1>1
  <1>4. isOpen' = [isOpen EXCEPT ![c] = FALSE]
    <2>1. ASSUME NEW d \in Client
          PROVE  (pc'[d] # "idle") = (IF d = c THEN FALSE ELSE pc[d] # "idle")
      BY <1>2
    <2> QED BY <2>1
  <1>5. command[c].op \in ops
    BY DEF Op
  <1> QED BY <1>1, <1>3, <1>4, <1>5 DEF Atomic!Answer

LEMMA Asked == ASSUME NEW c \in Client, IInv, Invoke(c) PROVE Atomic!Ask(c)
  <1>1. PICK op \in Operation, n \in Namespace :
          /\ command' = [command EXCEPT ![c] = [op |-> op, on |-> n]]
          /\ pc' = [pc EXCEPT ![c] =
                IF op \in {"add", "add enabled", "update"} THEN "load" ELSE "resolve"]
    BY DEF Invoke
  <1>2. pc[c] = "idle" /\ UNCHANGED <<table, nextId, reply>>
    BY DEF Invoke, store
  <1>3. \A d \in Client : d # c => pc'[d] = pc[d]
    BY <1>1 DEF IInv, TypeOK
  <1>4. pc'[c] # "idle"
    BY <1>1 DEF IInv, TypeOK
  <1> DEFINE isOpen == [d \in Client |-> pc[d] # "idle"]
  <1>5. ~isOpen[c]
    BY <1>2
  <1>6. isOpen' = [isOpen EXCEPT ![c] = TRUE]
    <2>1. ASSUME NEW d \in Client
          PROVE  (pc'[d] # "idle") = (IF d = c THEN TRUE ELSE pc[d] # "idle")
      BY <1>3, <1>4
    <2> QED BY <2>1
  <1> QED BY <1>1, <1>2, <1>5, <1>6 DEF Atomic!Ask, Atomic!store

LEMMA Refused ==
  ASSUME NEW c \in Client, NEW from, IInv, from # "idle", Report(c, from, "error"),
         UNCHANGED store
  PROVE  Atomic!Refuse(c)
  <1>1. pc[c] = from
    BY DEF Report, To
  <1>2. Op(c) \in Operation
    BY <1>1, Standing
  <1> QED BY <1>2, Answered DEF Atomic!Refuse, store, Atomic!store

LEMMA Stuttered ==
  ASSUME NEW c \in Client, NEW from, NEW to, IInv, from # "idle",
         to \in {"find", "insert", "write", "set", "delete", "execute"},
         Continue(c, from, to), pc[c] = from => Op(c) \in Does[to]
  PROVE  UNCHANGED Atomic!vars
  <1>1. TypeOK /\ Fits
    BY DEF IInv
  <1> QED BY <1>1, ContinueFrame DEF Atomic!vars, Atomic!store, store

LEMMA StepRefines ==
  ASSUME NEW c \in Client, IInv, Step(c)
  PROVE  [Atomic!Next]_(Atomic!vars)
  <1> USE DEF Atomic!Next
  <1>1. CASE Invoke(c)
    BY <1>1, Asked
  <1>2. CASE Load(c)
    <2>1. pc[c] = "load" /\ Continue(c, "load", IF Op(c) = "update" THEN "find" ELSE "insert")
      BY <1>2 DEF Load, Continue, To
    <2>2. Op(c) \in {"add", "add enabled", "update"}
      BY <2>1, Standing, DoesValues
    <2>3. CASE Op(c) = "update"
      BY <2>1, <2>3, DoesValues, Stuttered
    <2>4. CASE Op(c) # "update"
      BY <2>1, <2>2, <2>4, DoesValues, Stuttered
    <2> QED BY <2>3, <2>4
  <1>3. CASE Fail(c)
    BY <1>3, Refused DEF Fail
  <1>4. CASE AddTask(c)
    <2>1. pc[c] = "insert"
      BY <1>4 DEF AddTask
    <2>2. Op(c) \in {"add", "add enabled"} /\ loaded[c] \in Version
      BY <2>1, Standing, DoesValues
    <2>3. CASE ~Unique(c) /\ Report(c, "insert", "error") /\ UNCHANGED store
      BY <2>3, Refused
    <2>4. CASE /\ Unique(c) /\ Report(c, "insert", "done") /\ nextId' = After(nextId)
               /\ table' = [table EXCEPT ![On(c)] =
                     [id |-> nextId, hash |-> loaded[c], active |-> Op(c) = "add enabled"]]
      <3>1. Atomic!Answer(c, {"add", "add enabled"}, "done")
        BY <2>2, <2>4, Answered
      <3>2. ~Atomic!Registered(c) /\ nextId' = nextId + 1
        BY <2>4 DEF Atomic!Registered, Unique, After, On
      <3>3. Atomic!Change(c, [id |-> nextId, hash |-> loaded[c],
                              active |-> command[c].op = "add enabled"])
        BY <2>4 DEF Atomic!Change, On, Op
      <3>4. Atomic!Add(c)
        BY <2>2, <3>1, <3>2, <3>3 DEF Atomic!Add
      <3> QED BY <3>4
    <2> QED BY <1>4, <2>3, <2>4 DEF AddTask
  <1>5. CASE FindTask(c)
    <2>1. pc[c] = "find"
      BY <1>5 DEF FindTask, Registered
    <2>2. Op(c) = "update"
      BY <2>1, Standing, DoesValues
    <2>3. CASE Report(c, "find", "error") /\ UNCHANGED store
      BY <2>3, Refused
    <2>4. CASE table[On(c)] # Absent /\ Report(c, "find", "same") /\ UNCHANGED store
      <3>1. Atomic!Answer(c, {"update", "enable", "disable"}, "same")
        BY <2>2, <2>4, Answered
      <3>2. Atomic!Same(c)
        BY <2>2, <2>4, <3>1 DEF Atomic!Same, Atomic!Registered, Atomic!store, store, On, Op
      <3> QED BY <3>2
    <2>5. CASE Continue(c, "find", "write")
      BY <2>2, <2>5, DoesValues, Stuttered
    <2> QED BY <1>5, <2>3, <2>4, <2>5 DEF FindTask, Registered
  <1>6. CASE WriteTask(c)
    <2>1. pc[c] = "write" /\ Report(c, "write", "done") /\ nextId' = nextId
      BY <1>6 DEF WriteTask, Report, To
    <2>2. Op(c) = "update" /\ loaded[c] \in Version
      BY <2>1, Standing, DoesValues
    <2>3. Atomic!Answer(c, {"update"}, "done")
      BY <2>1, <2>2, Answered
    <2>4. CASE table[On(c)] = Absent
      <3>1. table' = table
        <4>1. On(c) \in Namespace /\ Rows(table, nextId)
          BY <2>1, Standing
        <4> QED BY <4>1, <1>6, <2>4 DEF WriteTask, Rows
      <3>2. Atomic!UpdateNothing(c)
        BY <2>1, <2>3, <2>4, <3>1
        DEF Atomic!UpdateNothing, Atomic!Registered, Atomic!store, On
      <3> QED BY <3>2
    <2>5. CASE table[On(c)] # Absent
      <3>1. Atomic!Change(c, [table[command[c].on] EXCEPT !.hash = loaded[c]])
        BY <1>6, <2>5 DEF WriteTask, Written, Atomic!Change, On
      <3>2. Atomic!Update(c)
        BY <2>1, <2>2, <2>3, <2>5, <3>1 DEF Atomic!Update, Atomic!Registered, On
      <3> QED BY <3>2
    <2> QED BY <2>4, <2>5
  <1>7. CASE SetActive(c) \/ Remove(c) \/ Run(c)
    <2>1. pc[c] = "resolve"
      BY <1>7 DEF SetActive, Remove, Run
    <2>2. CASE Report(c, "resolve", "error") /\ UNCHANGED store
      BY <2>2, Refused
    <2>3. CASE /\ table[On(c)] # Absent /\ Op(c) \in {"enable", "disable"}
               /\ table[On(c)].active = (Op(c) = "enable")
               /\ Report(c, "resolve", "same") /\ UNCHANGED store
      <3>1. Atomic!Answer(c, {"update", "enable", "disable"}, "same")
        BY <2>3, Answered
      <3>2. Atomic!Same(c)
        BY <2>3, <3>1 DEF Atomic!Same, Atomic!Registered, Atomic!store, store, On, Op
      <3> QED BY <3>2
    <2>4. CASE Op(c) \in {"enable", "disable"} /\ Continue(c, "resolve", "set")
      BY <2>4, DoesValues, Stuttered
    <2>5. CASE /\ Op(c) \in {"remove", "run"}
               /\ Continue(c, "resolve", IF Op(c) = "remove" THEN "delete" ELSE "execute")
      <3>1. CASE Op(c) = "remove"
        BY <2>5, <3>1, DoesValues, Stuttered
      <3>2. CASE Op(c) = "run"
        BY <2>5, <3>2, DoesValues, Stuttered
      <3> QED BY <2>5, <3>1, <3>2
    <2> QED BY <1>7, <2>2, <2>3, <2>4, <2>5 DEF SetActive, Remove, Run, Registered
  <1>8. CASE SetTaskActive(c)
    <2>1. pc[c] = "set"
      BY <1>8 DEF SetTaskActive, Registered
    <2>2. Op(c) \in {"enable", "disable"}
      BY <2>1, Standing, DoesValues
    <2>3. CASE Report(c, "set", "error") /\ UNCHANGED store
      BY <2>3, Refused
    <2>4. CASE /\ table[On(c)] # Absent /\ Report(c, "set", "done") /\ UNCHANGED nextId
               /\ table' = [table EXCEPT ![On(c)].active = (Op(c) = "enable")]
      <3>1. Atomic!Answer(c, {"enable", "disable"}, "done")
        BY <2>2, <2>4, Answered
      <3>2. Atomic!SetActive(c)
        BY <2>4, <3>1 DEF Atomic!SetActive, Atomic!Registered, Atomic!Change, On, Op
      <3> QED BY <3>2
    <2> QED BY <1>8, <2>3, <2>4 DEF SetTaskActive, Registered
  <1>9. CASE RemoveTask(c)
    <2>1. pc[c] = "delete"
      BY <1>9 DEF RemoveTask, Registered
    <2>2. Op(c) = "remove"
      BY <2>1, Standing, DoesValues
    <2>3. CASE Report(c, "delete", "error") /\ UNCHANGED store
      BY <2>3, Refused
    <2>4. CASE /\ table[On(c)] # Absent /\ Report(c, "delete", "done") /\ UNCHANGED nextId
               /\ table' = [table EXCEPT ![On(c)] = Absent]
      <3>1. Atomic!Answer(c, {"remove"}, "done")
        BY <2>2, <2>4, Answered
      <3>2. Atomic!Remove(c)
        BY <2>4, <3>1 DEF Atomic!Remove, Atomic!Registered, Atomic!Change, On
      <3> QED BY <3>2
    <2> QED BY <1>9, <2>3, <2>4 DEF RemoveTask, Registered
  <1>10. CASE Execute(c)
    <2>1. pc[c] = "execute" /\ Report(c, "execute", "ran") /\ UNCHANGED store
      BY <1>10 DEF Execute, Report, To
    <2>2. Op(c) = "run"
      BY <2>1, Standing, DoesValues
    <2>3. Atomic!Answer(c, {"run"}, "ran")
      BY <2>1, <2>2, Answered
    <2>4. Atomic!Execute(c)
      BY <2>1, <2>3 DEF Atomic!Execute, Atomic!store, store
    <2> QED BY <2>4
  <1> QED BY <1>1, <1>2, <1>3, <1>4, <1>5, <1>6, <1>7, <1>8, <1>9, <1>10 DEF Step

(* The commands are atomic: every behaviour of the statements of any number   *)
(* of processes is one in which each command acts at one instant, and answers *)
(* for that instant, but for an update whose task was removed meanwhile.     *)
THEOREM CommandsAreAtomic == Spec => ImplementsCatalog
  <1>1. Init => Atomic!Init
    <2> SUFFICES ASSUME Init PROVE Atomic!Init
      OBVIOUS
    <2>1. \A c \in Client : (pc[c] # "idle") = FALSE
      BY DEF Init
    <2>2. [c \in Client |-> pc[c] # "idle"] = [c \in Client |-> FALSE]
      BY <2>1
    <2> QED BY <2>2 DEF Init, Atomic!Init, NoCommand
  <1>2. IInv /\ [Next]_vars => [Atomic!Next]_(Atomic!vars)
    <2> SUFFICES ASSUME IInv, [Next]_vars PROVE [Atomic!Next]_(Atomic!vars)
      OBVIOUS
    <2>1. ASSUME NEW c \in Client, Step(c) PROVE [Atomic!Next]_(Atomic!vars)
      BY <2>1, StepRefines
    <2>2. ASSUME NEW n \in Namespace, Edit(n) PROVE UNCHANGED Atomic!vars
      BY <2>2 DEF Edit, store, local, Atomic!vars, Atomic!store
    <2>3. CASE UNCHANGED vars
      BY <2>3 DEF vars, store, local, Atomic!vars, Atomic!store
    <2> QED BY <2>1, <2>2, <2>3 DEF Next
  <1> QED BY <1>1, <1>2, InitIInv, StepIInv, PTL DEF Spec, ImplementsCatalog, Atomic!Spec

=============================================================================
