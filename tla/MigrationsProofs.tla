-------------------------- MODULE MigrationsProofs --------------------------
(* Theorems about Migrations, for any processes, releases and bounds.       *)
EXTENDS Migrations, TLAPS

Places == Opening \cup {"open"} \cup Ended

(* The types, and who holds a lock.                                         *)
Typed ==
    /\ file \in Files /\ store \in [Files -> Content]
    /\ writer \in [Files -> Process \cup {Nobody}]
    /\ pc \in [Process -> Places]
    /\ at \in [Process -> Files] /\ known \in [Process -> Version]
    /\ snap \in [Process -> Content] /\ behind \subseteq Process

Counted == opens \in 0..MaxOpens /\ faults \in 0..MaxFaults

HoldersWork == \A f \in Files : writer[f] # Nobody =>
    pc[writer[f]] \in InTransaction /\ at[writer[f]] = f

LEMMA TypesAre == SchemaTypeOK <=> Typed /\ Counted /\ HoldersWork
  BY DEF SchemaTypeOK, Typed, Counted, HoldersWork, Places

LEMMA Contents ==
  /\ \A k \in 0..NewestVersion : UpTo(k) \in Content
  /\ Fresh \in Content /\ Legacy \in Content
  <1>1. \A k \in 0..NewestVersion : UpTo(k) \in Content
    <2> SUFFICES ASSUME NEW k \in 0..NewestVersion PROVE UpTo(k) \in Content
      OBVIOUS
    <2>1. 1..k \in SUBSET Version
      BY VersionAssumption DEF Version
    <2>2. (k > 0) \in BOOLEAN
      OBVIOUS
    <2> QED BY <2>1, <2>2 DEF UpTo, Content
  <1>2. Fresh \in Content
    BY <1>1, VersionAssumption DEF Fresh
  <1>3. Legacy \in Content
    BY <1>2 DEF Legacy, Content
  <1> QED BY <1>1, <1>2, <1>3

LEMMA InitTyped == SchemaInit => Typed /\ Counted /\ HoldersWork
  <1> SUFFICES ASSUME SchemaInit PROVE Typed /\ Counted /\ HoldersWork
    OBVIOUS
  <1> USE ProcessAssumption, VersionAssumption, BoundAssumption
  <1>1. PICK found \in {Legacy} \cup {UpTo(k) : k \in 0..NewestVersion} :
          store = [f \in Files |-> IF f = 0 THEN found ELSE Fresh]
    BY DEF SchemaInit
  <1>2. found \in Content
    BY Contents
  <1>3. store \in [Files -> Content]
    BY <1>1, <1>2, Contents
  <1>4. writer \in [Files -> Process \cup {Nobody}]
    BY DEF SchemaInit
  <1>5. pc \in [Process -> Places]
    BY DEF SchemaInit, Places, Ended
  <1>6. file \in Files /\ at \in [Process -> Files]
    BY DEF SchemaInit, Files
  <1>7. known \in [Process -> Version] /\ snap \in [Process -> Content]
    BY Contents DEF SchemaInit, Version
  <1>8. behind \subseteq Process /\ Counted
    BY DEF SchemaInit, Counted
  <1>9. HoldersWork
    BY DEF SchemaInit, HoldersWork
  <1> QED BY <1>3, <1>4, <1>5, <1>6, <1>7, <1>8, <1>9 DEF Typed

-----------------------------------------------------------------------------
(* What a step of p leaves to the others.                                   *)
Aside(p) == \A q \in Process \ {p} :
    /\ pc'[q] = pc[q] /\ at'[q] = at[q] /\ known'[q] = known[q] /\ snap'[q] = snap[q]
    /\ q \in behind => q \in behind'
    /\ \A f \in Files : writer'[f] = q <=> writer[f] = q

LEMMA EndFrame ==
  ASSUME NEW p \in Process, NEW verdict \in Ended, Typed, HoldersWork, End(p, verdict)
  PROVE  /\ Typed' /\ HoldersWork' /\ Aside(p)
         /\ file' = file /\ store' = store
         /\ pc'[p] = verdict /\ at'[p] = 0
         /\ \A f \in Files : writer'[f] # p
  <1> USE ProcessAssumption, VersionAssumption, BoundAssumption
  <1>1. /\ pc' = [pc EXCEPT ![p] = verdict] /\ snap' = [snap EXCEPT ![p] = Fresh]
        /\ at' = [at EXCEPT ![p] = 0] /\ known' = [known EXCEPT ![p] = 1]
        /\ behind' = behind \ {p} /\ file' = file /\ store' = store
        /\ writer' = IF Holds(p) THEN [writer EXCEPT ![at[p]] = Nobody] ELSE writer
    BY DEF End, Sees, Drop
  <1>2. \A f \in Files : writer[f] = p => f = at[p]
    BY DEF HoldersWork
  <1>3. /\ writer' \in [Files -> Process \cup {Nobody}]
        /\ \A f \in Files : writer'[f] = IF writer[f] = p THEN Nobody ELSE writer[f]
    BY <1>1, <1>2 DEF Typed, Holds
  <1>4. pc' \in [Process -> Places]
    BY <1>1 DEF Typed, Places
  <1>5. snap' \in [Process -> Content]
    BY <1>1, Contents DEF Typed
  <1>6. at' \in [Process -> Files] /\ known' \in [Process -> Version]
    BY <1>1 DEF Typed, Files, Version
  <1>7. Typed'
    BY <1>1, <1>3, <1>4, <1>5, <1>6 DEF Typed
  <1>8. Aside(p)
    BY <1>1, <1>3 DEF Aside, Typed
  <1>9. HoldersWork'
    BY <1>1, <1>3 DEF HoldersWork, Typed
  <1>10. pc'[p] = verdict /\ at'[p] = 0 /\ \A f \in Files : writer'[f] # p
    BY <1>1, <1>3 DEF Typed
  <1> QED BY <1>1, <1>7, <1>8, <1>9, <1>10

(* A step on the way, with the lock in hand or without asking for it.        *)
LEMMA GotoFrame ==
  ASSUME NEW p \in Process, NEW from, NEW to \in Places, Typed, HoldersWork,
         Goto(p, from, to), UNCHANGED <<file, at, known>>,
         snap' \in [Process -> Content], \A q \in Process \ {p} : snap'[q] = snap[q],
         \/ Seize(p) /\ (Holds(p) \/ Unlocked(p)) /\ to \in InTransaction
         \/ UNCHANGED writer /\ (to \in InTransaction \/ ~Holds(p)),
         store' \in [Files -> Content],
         behind' \subseteq Process, \A q \in behind \ {p} : q \in behind'
  PROVE  /\ Typed' /\ HoldersWork' /\ Aside(p)
         /\ pc[p] = from /\ pc'[p] = to
         /\ Seize(p) => Holds(p)'
         /\ UNCHANGED writer => (Holds(p)' <=> Holds(p))
  <1> USE ProcessAssumption
  <1>1. pc[p] = from /\ pc' = [pc EXCEPT ![p] = to]
    BY DEF Goto
  <1>2. pc' \in [Process -> Places] /\ pc'[p] = to
    BY <1>1 DEF Typed
  <1>3. at[p] \in Files
    BY DEF Typed
  <1>4. writer' \in [Files -> Process \cup {Nobody}]
    BY <1>3 DEF Typed, Seize
  <1>5. Typed'
    BY <1>2, <1>4 DEF Typed
  <1>6. \A q \in Process \ {p}, f \in Files : writer'[f] = q <=> writer[f] = q
    BY <1>3 DEF Typed, Seize, Holds, Unlocked
  <1>7. Aside(p)
    BY <1>1, <1>6 DEF Aside, Typed
  <1>8. \A f \in Files : writer'[f] = p => at[p] = f /\ to \in InTransaction
    BY <1>3 DEF Typed, Seize, Holds, HoldersWork
  <1>9. HoldersWork'
    BY <1>1, <1>2, <1>4, <1>6, <1>8 DEF HoldersWork, Typed
  <1>10. Seize(p) => Holds(p)'
    BY <1>3 DEF Seize, Holds, Typed
  <1>11. UNCHANGED writer => (Holds(p)' <=> Holds(p))
    BY DEF Holds
  <1> QED BY <1>1, <1>2, <1>5, <1>7, <1>9, <1>10, <1>11

-----------------------------------------------------------------------------
(* What is in a complete file, field by field.                              *)
LEMMA CompleteFields ==
  ASSUME NEW c, Complete(c)
  PROVE  /\ c \in Content
         /\ c.done = c.marked
         /\ \E k \in 0..NewestVersion : c.marked = 1..k
         /\ c.table => c.marked # {} /\ ~c.legacy
         /\ ~c.table => c.marked = {}
         /\ c.legacy => c.marked = {}
  <1> USE VersionAssumption
  <1>1. CASE c = Legacy
    <2>1. c.table = (0 > 0) /\ c.marked = 1..0 /\ c.done = 1..0 /\ c.legacy
      BY <1>1 DEF Legacy, Fresh, UpTo
    <2>2. ~(0 > 0) /\ 1..0 = {}
      OBVIOUS
    <2>3. ~c.table
      BY <2>1, <2>2
    <2>4. c.marked = {} /\ c.done = {}
      BY <2>1, <2>2
    <2>5. \E k \in 0..NewestVersion : c.marked = 1..k
      BY <2>1
    <2> QED BY <1>1, <2>3, <2>4, <2>5, Contents
  <1>2. CASE \E k \in 0..NewestVersion : c = UpTo(k)
    <2>1. PICK k \in 0..NewestVersion : c = UpTo(k)
      BY <1>2
    <2>2. c.table = (k > 0) /\ c.marked = 1..k /\ c.done = 1..k /\ ~c.legacy
      BY <2>1 DEF UpTo
    <2>3. k > 0 => 1 \in 1..k
      OBVIOUS
    <2>4. ~(k > 0) => 1..k = {}
      OBVIOUS
    <2> QED BY <2>1, <2>2, <2>3, <2>4, Contents
  <1> QED BY <1>1, <1>2 DEF Complete

LEMMA FieldsComplete ==
  ASSUME NEW c \in Content, c.table, c.done = c.marked, ~c.legacy,
         c.marked # {}, NEW k \in 0..NewestVersion, c.marked = 1..k
  PROVE  Complete(c)
  <1> USE VersionAssumption
  <1>1. k > 0
    OBVIOUS
  <1>2. c = [table |-> TRUE, marked |-> 1..k, done |-> 1..k, legacy |-> FALSE]
    BY DEF Content
  <1>3. UpTo(k) = [table |-> TRUE, marked |-> 1..k, done |-> 1..k, legacy |-> FALSE]
    BY <1>1 DEF UpTo
  <1> QED BY <1>2, <1>3 DEF Complete

-----------------------------------------------------------------------------
(* What a transaction has seen and done: with the lock it is ahead of the    *)
(* file, without it is the file as it is or was.                            *)
Ahead(p) ==
    /\ store[at[p]].marked \subseteq snap[p].marked
    /\ snap[p].legacy = store[at[p]].legacy
    /\ snap[p].legacy => snap[p].marked = {}

AsRead(p) ==
    /\ snap[p].marked # {} /\ snap[p].marked \subseteq store[at[p]].marked
    /\ ~snap[p].legacy /\ ~store[at[p]].legacy
    /\ p \in behind \/ snap[p] = store[at[p]]

SnapOK(p) == pc[p] \in InTransaction =>
    /\ \E k \in 0..NewestVersion : snap[p].marked = 1..k
    /\ snap[p].done = snap[p].marked /\ snap[p].table
    /\ Holds(p) => Ahead(p)
    /\ ~Holds(p) => AsRead(p)
    /\ pc[p] = "apply" => ~snap[p].legacy

UserOK(p) == pc[p] = "open" => 1..known[p] \subseteq store[at[p]].done

IInv ==
    /\ Typed /\ HoldersWork /\ AlwaysComplete
    /\ \A p \in Process : SnapOK(p) /\ UserOK(p) /\ at[p] <= file

(* The others keep theirs when the files stay as they are.                   *)
LEMMA OthersKeep ==
  ASSUME NEW p \in Process, IInv, Typed', HoldersWork', Aside(p), store' = store,
         file' = file, SnapOK(p)', UserOK(p)', (at[p] <= file)'
  PROVE  IInv'
  <1>1. AlwaysComplete'
    BY DEF IInv, AlwaysComplete
  <1>2. ASSUME NEW q \in Process \ {p} PROVE SnapOK(q)' /\ UserOK(q)' /\ (at[q] <= file)'
    <2>1. /\ pc'[q] = pc[q] /\ at'[q] = at[q] /\ known'[q] = known[q] /\ snap'[q] = snap[q]
          /\ q \in behind => q \in behind'
          /\ at[q] \in Files
      BY DEF Aside, IInv, Typed
    <2>2. Holds(q)' <=> Holds(q)
      BY <2>1 DEF Aside, Holds
    <2>3. SnapOK(q) /\ UserOK(q) /\ at[q] <= file
      BY DEF IInv
    <2>4. Ahead(q) => Ahead(q)'
      BY <2>1 DEF Ahead
    <2>5. AsRead(q) => AsRead(q)'
      BY <2>1 DEF AsRead
    <2>6. SnapOK(q)'
      BY <2>1, <2>2, <2>3, <2>4, <2>5 DEF SnapOK
    <2>7. UserOK(q)'
      BY <2>1, <2>3 DEF UserOK
    <2> QED BY <2>1, <2>3, <2>6, <2>7
  <1> QED BY <1>1, <1>2 DEF IInv

-----------------------------------------------------------------------------
LEMMA InitIInv == SchemaInit => IInv
  <1> SUFFICES ASSUME SchemaInit PROVE IInv
    OBVIOUS
  <1> USE VersionAssumption
  <1>1. Typed /\ HoldersWork
    BY InitTyped
  <1>2. Complete(Fresh)
    BY DEF Fresh, Complete
  <1>3. AlwaysComplete
    BY <1>2 DEF AlwaysComplete, SchemaInit, Complete
  <1>4. \A p \in Process : pc[p] = "closed" /\ at[p] <= file
    BY DEF SchemaInit
  <1>5. \A p \in Process : SnapOK(p) /\ UserOK(p)
    BY <1>4 DEF SnapOK, UserOK, InTransaction
  <1> QED BY <1>1, <1>3, <1>4, <1>5 DEF IInv

(* Every way an open or a connection ends.                                  *)
LEMMA EndKeeps ==
  ASSUME NEW p \in Process, NEW verdict \in Ended, IInv, End(p, verdict)
  PROVE  IInv'
  <1>1. /\ Typed' /\ HoldersWork' /\ Aside(p) /\ file' = file /\ store' = store
        /\ pc'[p] = verdict /\ at'[p] = 0
    BY EndFrame DEF IInv
  <1>2. SnapOK(p)' /\ UserOK(p)'
    BY <1>1 DEF SnapOK, UserOK, InTransaction, Ended
  <1>3. (at[p] <= file)'
    BY <1>1, BoundAssumption DEF IInv, Typed, Files
  <1> QED BY <1>1, <1>2, <1>3, OthersKeep

LEMMA OpenKeeps ==
  ASSUME NEW p \in Process, IInv, Open(p)
  PROVE  IInv'
  <1> USE ProcessAssumption
  <1>1. /\ pc[p] \in Ended
        /\ UNCHANGED <<file, store, writer, snap, behind>>
        /\ \/ pc' = [pc EXCEPT ![p] = "create"] /\ at' = [at EXCEPT ![p] = file]
              /\ \E k \in Version : known' = [known EXCEPT ![p] = k]
           \/ pc' = [pc EXCEPT ![p] = "error"] /\ UNCHANGED <<at, known>>
    BY DEF Open, files
  <1>2. Typed'
    <2>1. pc' \in [Process -> Places]
      BY <1>1 DEF IInv, Typed, Places, Opening, Ended
    <2>2. at' \in [Process -> Files] /\ known' \in [Process -> Version]
      BY <1>1 DEF IInv, Typed
    <2> QED BY <1>1, <2>1, <2>2 DEF IInv, Typed
  <1>3. \A f \in Files : writer[f] # p
    BY <1>1 DEF IInv, HoldersWork, InTransaction, Ended
  <1>4. Aside(p)
    BY <1>1 DEF Aside, IInv, Typed
  <1>5. HoldersWork'
    BY <1>1, <1>3 DEF IInv, HoldersWork, Typed
  <1>6. pc'[p] \in {"create", "error"} /\ at'[p] <= file
    BY <1>1, BoundAssumption DEF IInv, Typed, Files
  <1>7. SnapOK(p)' /\ UserOK(p)' /\ (at[p] <= file)'
    BY <1>1, <1>6 DEF SnapOK, UserOK, InTransaction
  <1> QED BY <1>1, <1>2, <1>4, <1>5, <1>7, OthersKeep

(* CREATE TABLE, at once or after a wait.                                   *)
LEMMA TableKeeps ==
  ASSUME NEW p \in Process, NEW from, IInv, Unlocked(p), Goto(p, from, "read"), Seize(p),
         Sees(p, [store[at[p]] EXCEPT !.table = TRUE]),
         UNCHANGED <<file, store, at, known, behind>>
  PROVE  IInv'
  <1> DEFINE c == store[at[p]]
             d == [c EXCEPT !.table = TRUE]
  <1>1. at[p] \in Files /\ Complete(c)
    BY DEF IInv, Typed, AlwaysComplete
  <1>2. /\ c \in Content /\ c.done = c.marked
        /\ \E k \in 0..NewestVersion : c.marked = 1..k
        /\ c.legacy => c.marked = {}
    BY <1>1, CompleteFields
  <1>3. d \in Content /\ d.table /\ d.done = c.done /\ d.marked = c.marked
        /\ d.legacy = c.legacy
    BY <1>2 DEF Content
  <1>4. snap' = [snap EXCEPT ![p] = d]
    BY DEF Sees
  <1>5. snap' \in [Process -> Content] /\ snap'[p] = d
        /\ \A q \in Process \ {p} : snap'[q] = snap[q]
    BY <1>3, <1>4 DEF IInv, Typed
  <1>6. "read" \in Places /\ "read" \in InTransaction
    BY DEF Places, Opening, InTransaction
  <1>7. /\ store' \in [Files -> Content] /\ behind' \subseteq Process
        /\ \A q \in behind \ {p} : q \in behind'
    BY DEF IInv, Typed
  <1>8. Typed' /\ HoldersWork' /\ Aside(p) /\ pc'[p] = "read" /\ Holds(p)'
    <2> HIDE DEF d
    <2> QED BY <1>5, <1>6, <1>7, GotoFrame DEF IInv
  <1>9. Ahead(p)'
    BY <1>2, <1>3, <1>5 DEF Ahead
  <1>10. SnapOK(p)'
    BY <1>2, <1>3, <1>5, <1>8, <1>9 DEF SnapOK
  <1>11. UserOK(p)' /\ (at[p] <= file)'
    BY <1>8 DEF UserOK, IInv
  <1> QED BY <1>8, <1>10, <1>11, OthersKeep

LEMMA FindTableKeeps ==
  ASSUME NEW p \in Process, IInv, FindTable(p)
  PROVE  IInv'
  <1> DEFINE c == store[at[p]]
  <1>1. /\ c.table /\ Goto(p, "create", "read") /\ snap' = [snap EXCEPT ![p] = c]
        /\ UNCHANGED <<file, store, writer, at, known, behind>>
    BY DEF FindTable, Sees, files
  <1>2. at[p] \in Files /\ Complete(c)
    BY DEF IInv, Typed, AlwaysComplete
  <1>3. /\ c \in Content /\ c.done = c.marked /\ c.marked # {} /\ ~c.legacy
        /\ \E k \in 0..NewestVersion : c.marked = 1..k
    BY <1>1, <1>2, CompleteFields
  <1>4. snap' \in [Process -> Content] /\ snap'[p] = c
        /\ \A q \in Process \ {p} : snap'[q] = snap[q]
    BY <1>1, <1>3 DEF IInv, Typed
  <1>5. "read" \in Places /\ "read" \in InTransaction
    BY DEF Places, Opening, InTransaction
  <1>6. /\ store' \in [Files -> Content] /\ behind' \subseteq Process
        /\ \A q \in behind \ {p} : q \in behind'
    BY <1>1 DEF IInv, Typed
  <1>7. pc[p] = "create"
    BY <1>1 DEF Goto
  <1>8. ~Holds(p)
    BY <1>2, <1>7, ProcessAssumption DEF IInv, HoldersWork, InTransaction, Holds
  <1>9. Typed' /\ HoldersWork' /\ Aside(p) /\ pc'[p] = "read" /\ ~Holds(p)'
    <2> HIDE DEF c
    <2> QED BY <1>1, <1>4, <1>5, <1>6, <1>8, GotoFrame DEF IInv
  <1>10. AsRead(p)'
    BY <1>1, <1>3, <1>4 DEF AsRead
  <1>11. SnapOK(p)'
    BY <1>3, <1>4, <1>9, <1>10, <1>1 DEF SnapOK
  <1>12. UserOK(p)' /\ (at[p] <= file)'
    BY <1>9, <1>1 DEF UserOK, IInv
  <1> QED BY <1>1, <1>9, <1>11, <1>12, OthersKeep

LEMMA FindLockedKeeps ==
  ASSUME NEW p \in Process, IInv, FindLocked(p)
  PROVE  IInv'
  <1>1. Goto(p, "create", "wait") /\ UNCHANGED <<file, store, writer, at, known, snap, behind>>
    BY DEF FindLocked, files
  <1>2. pc[p] = "create" /\ at[p] \in Files
    BY <1>1 DEF Goto, IInv, Typed
  <1>3. ~Holds(p)
    BY <1>2, ProcessAssumption DEF IInv, HoldersWork, InTransaction, Holds
  <1>4. "wait" \in Places
    BY DEF Places, Opening
  <1>5. snap' \in [Process -> Content] /\ store' \in [Files -> Content]
    BY <1>1 DEF IInv, Typed
  <1>6. Typed' /\ HoldersWork' /\ Aside(p) /\ pc'[p] = "wait"
    BY <1>1, <1>3, <1>4, <1>5, GotoFrame DEF IInv, Typed
  <1>7. SnapOK(p)' /\ UserOK(p)' /\ (at[p] <= file)'
    BY <1>1, <1>6 DEF SnapOK, UserOK, InTransaction, IInv
  <1> QED BY <1>1, <1>6, <1>7, OthersKeep

(* A database with rows has its tables from them, and is not a legacy one.    *)
LEMMA ReadAppliedKeeps ==
  ASSUME NEW p \in Process, IInv, ReadApplied(p)
  PROVE  IInv'
  <1>1. /\ ~Suspect(p) /\ Goto(p, "read", "apply")
        /\ UNCHANGED <<file, store, writer, at, known, snap, behind>>
    BY DEF ReadApplied, files
  <1>2. pc[p] = "read" /\ pc[p] \in InTransaction /\ SnapOK(p)
    BY <1>1 DEF Goto, IInv, InTransaction
  <1>3. "apply" \in Places /\ "apply" \in InTransaction
    BY DEF Places, Opening, InTransaction
  <1>4. snap' \in [Process -> Content] /\ store' \in [Files -> Content]
    BY <1>1 DEF IInv, Typed
  <1>5. Typed' /\ HoldersWork' /\ Aside(p) /\ pc'[p] = "apply" /\ (Holds(p)' <=> Holds(p))
    BY <1>1, <1>3, <1>4, GotoFrame DEF IInv, Typed
  <1>6. ~snap[p].legacy
    BY <1>1, <1>2 DEF SnapOK, Ahead, AsRead, Suspect
  <1>7. (Ahead(p) => Ahead(p)') /\ (AsRead(p) => AsRead(p)')
    BY <1>1 DEF Ahead, AsRead
  <1>8. SnapOK(p)'
    BY <1>1, <1>2, <1>5, <1>6, <1>7 DEF SnapOK
  <1>9. UserOK(p)' /\ (at[p] <= file)'
    BY <1>1, <1>5 DEF UserOK, IInv
  <1> QED BY <1>1, <1>5, <1>8, <1>9, OthersKeep

(* The first migration that is missing is the one after those there are.     *)
LEMMA NextVersion ==
  ASSUME NEW p \in Process, Typed, NEW k \in 0..NewestVersion, snap[p].marked = 1..k,
         NEW v \in Version, IsNext(p, v)
  PROVE  v = k + 1 /\ (1..k) \cup {v} = 1..v
  <1> USE VersionAssumption
  <1>1. known[p] \in 1..NewestVersion
    BY DEF Typed, Version
  <1>2. v \in 1..known[p] /\ v \notin 1..k /\ \A w \in (1..known[p]) \ (1..k) : v <= w
    BY DEF IsNext, Missing
  <1>3. k + 1 \in (1..known[p]) \ (1..k)
    BY <1>1, <1>2
  <1>4. v = k + 1
    BY <1>1, <1>2, <1>3
  <1> QED BY <1>4

LEMMA ApplyKeeps ==
  ASSUME NEW p \in Process, IInv, ApplyMigration(p)
  PROVE  IInv'
  <1> USE VersionAssumption
  <1>1. /\ MayWrite(p) /\ Goto(p, "apply", "apply") /\ Seize(p)
        /\ UNCHANGED <<file, store, at, known, behind>>
    BY DEF ApplyMigration
  <1>2. PICK v \in Version : IsNext(p, v) /\ snap' = [snap EXCEPT ![p] = With(snap[p], v)]
    BY DEF ApplyMigration, Sees
  <1>3. pc[p] = "apply" /\ pc[p] \in InTransaction /\ SnapOK(p) /\ Typed
    BY <1>1 DEF Goto, IInv, InTransaction
  <1>4. PICK k \in 0..NewestVersion : snap[p].marked = 1..k
    BY <1>3 DEF SnapOK
  <1>5. v = k + 1 /\ (1..k) \cup {v} = 1..v /\ v \in 0..NewestVersion
    BY <1>2, <1>3, <1>4, NextVersion DEF Version
  <1>6. snap[p] \in Content /\ snap[p].done = 1..k /\ snap[p].table /\ ~snap[p].legacy
    BY <1>3, <1>4 DEF SnapOK, Typed
  <1> DEFINE d == With(snap[p], v)
  <1>7. d.table /\ ~d.legacy /\ d.marked = 1..v /\ d.done = 1..v
    BY <1>4, <1>5, <1>6 DEF With, Content
  <1>8. d \in Content
    BY <1>2, <1>6 DEF With, Content
  <1>9. snap' \in [Process -> Content] /\ snap'[p] = d
        /\ \A q \in Process \ {p} : snap'[q] = snap[q]
    BY <1>2, <1>8 DEF IInv, Typed
  <1>10. "apply" \in Places /\ "apply" \in InTransaction
    BY DEF Places, Opening, InTransaction
  <1>11. /\ store' \in [Files -> Content] /\ behind' \subseteq Process
         /\ \A q \in behind \ {p} : q \in behind'
    BY <1>1 DEF IInv, Typed
  <1>12. Typed' /\ HoldersWork' /\ Aside(p) /\ pc'[p] = "apply" /\ Holds(p)'
    <2> HIDE DEF d
    <2> QED BY <1>1, <1>9, <1>10, <1>11, GotoFrame DEF IInv, MayWrite
  <1>13. ~store[at[p]].legacy /\ store[at[p]].marked \subseteq 1..k
    <2>1. CASE Holds(p)
      BY <2>1, <1>3, <1>4, <1>6 DEF SnapOK, Ahead
    <2>2. CASE ~Holds(p)
      BY <2>2, <1>1, <1>3, <1>4, <1>6 DEF SnapOK, AsRead, MayWrite
    <2> QED BY <2>1, <2>2
  <1>14. store[at[p]].legacy \in BOOLEAN /\ d.legacy \in BOOLEAN
    BY <1>3, <1>8 DEF Typed, Content
  <1>15. Ahead(p)'
    BY <1>1, <1>5, <1>7, <1>9, <1>13, <1>14 DEF Ahead
  <1>16. SnapOK(p)'
    BY <1>5, <1>7, <1>9, <1>12, <1>15 DEF SnapOK
  <1>17. UserOK(p)' /\ (at[p] <= file)'
    BY <1>1, <1>12 DEF UserOK, IInv
  <1> QED BY <1>1, <1>12, <1>16, <1>17, OthersKeep

(* Who is ready has in its snapshot exactly the migrations it knows.         *)
LEMMA ReadyHas ==
  ASSUME NEW p \in Process, IInv, Ready(p)
  PROVE  /\ pc[p] = "apply" /\ snap[p] \in Content
         /\ snap[p].marked = 1..known[p] /\ snap[p].done = 1..known[p]
         /\ known[p] \in Version /\ Complete(snap[p])
  <1> USE VersionAssumption
  <1>1. /\ pc[p] = "apply" /\ pc[p] \in InTransaction /\ SnapOK(p)
        /\ snap[p] \in Content /\ known[p] \in Version
    BY DEF Ready, IInv, InTransaction, Typed
  <1>2. snap[p].marked \subseteq 1..known[p] /\ 1..known[p] \subseteq snap[p].marked
    BY DEF Ready, OnlyKnown, Missing
  <1>3. snap[p].marked = 1..known[p]
    BY <1>2
  <1>4. snap[p].done = snap[p].marked /\ snap[p].table /\ ~snap[p].legacy
    BY <1>1 DEF SnapOK
  <1>5. snap[p].marked # {} /\ known[p] \in 0..NewestVersion
    BY <1>1, <1>3 DEF Version
  <1>6. Complete(snap[p])
    BY <1>1, <1>3, <1>4, <1>5, FieldsComplete
  <1> QED BY <1>1, <1>3, <1>4, <1>6

(* A commit that has written: the others see that they are behind.           *)
LEMMA CommitWritesKeeps ==
  ASSUME NEW p \in Process, IInv, Ready(p), Goto(p, "apply", "open"), Sees(p, Fresh),
         CommitWrites(p), UNCHANGED <<file, at, known>>
  PROVE  IInv'
  <1> USE ProcessAssumption
  <1> DEFINE f == at[p]
  <1>1. /\ pc[p] = "apply" /\ snap[p] \in Content
        /\ snap[p].marked = 1..known[p] /\ snap[p].done = 1..known[p]
        /\ known[p] \in Version /\ Complete(snap[p])
    BY ReadyHas
  <1>2. Typed /\ HoldersWork /\ AlwaysComplete /\ f \in Files /\ SnapOK(p) /\ writer[f] = p
    BY DEF IInv, Typed, CommitWrites, Holds
  <1>3. /\ store' = [store EXCEPT ![f] = snap[p]]
        /\ writer' = [writer EXCEPT ![f] = Nobody]
        /\ behind' = behind \cup Readers(p)
        /\ pc' = [pc EXCEPT ![p] = "open"] /\ snap' = [snap EXCEPT ![p] = Fresh]
        /\ UNCHANGED <<file, at, known>>
    BY DEF CommitWrites, Drop, Goto, Sees
  <1>4. /\ pc' \in [Process -> Places] /\ store' \in [Files -> Content]
        /\ writer' \in [Files -> Process \cup {Nobody}]
        /\ snap' \in [Process -> Content] /\ behind' \subseteq Process
    <2>1. pc' \in [Process -> Places]
      BY <1>2, <1>3 DEF Typed, Places
    <2>2. store' \in [Files -> Content]
      BY <1>1, <1>2, <1>3 DEF Typed
    <2>3. writer' \in [Files -> Process \cup {Nobody}]
      BY <1>2, <1>3 DEF Typed
    <2>4. snap' \in [Process -> Content]
      BY <1>2, <1>3, Contents DEF Typed
    <2>5. behind' \subseteq Process
      BY <1>2, <1>3 DEF Typed, Readers
    <2> QED BY <2>1, <2>2, <2>3, <2>4, <2>5
  <1>5. Typed'
    BY <1>2, <1>3, <1>4 DEF Typed
  <1>6. HoldersWork'
    BY <1>2, <1>3 DEF HoldersWork, Typed
  <1>7. AlwaysComplete'
    BY <1>1, <1>2, <1>3 DEF AlwaysComplete, Typed
  <1>8. /\ store[f].marked \subseteq snap[p].marked
        /\ store[f].done = store[f].marked /\ ~snap[p].legacy
    <2>1. store[f].done = store[f].marked
      BY <1>2, CompleteFields DEF AlwaysComplete
    <2>2. store[f].marked \subseteq snap[p].marked /\ ~snap[p].legacy
      BY <1>1, <1>2 DEF SnapOK, Ahead, InTransaction, Holds
    <2> QED BY <2>1, <2>2
  <1>9. ASSUME NEW q \in Process PROVE SnapOK(q)' /\ UserOK(q)' /\ (at[q] <= file)'
    <2>1. SnapOK(q) /\ UserOK(q) /\ at[q] <= file /\ at[q] \in Files
      BY DEF IInv, Typed
    <2>2. CASE q = p
      <3>1. pc'[p] = "open" /\ store'[f] = snap[p]
        BY <1>2, <1>3 DEF Typed
      <3>2. SnapOK(p)'
        BY <3>1 DEF SnapOK, InTransaction
      <3>3. UserOK(p)'
        BY <1>1, <1>3, <3>1 DEF UserOK
      <3> QED BY <1>3, <2>1, <2>2, <3>2, <3>3
    <2>3. CASE q # p /\ at[q] # f
      <3>1. /\ pc'[q] = pc[q] /\ snap'[q] = snap[q] /\ store'[at[q]] = store[at[q]]
            /\ writer'[at[q]] = writer[at[q]]
            /\ q \in behind => q \in behind'
        BY <1>2, <1>3, <2>1, <2>3 DEF Typed
      <3>2. SnapOK(q)'
        BY <1>3, <2>1, <3>1 DEF SnapOK, Ahead, AsRead, Holds
      <3>3. UserOK(q)'
        BY <1>3, <2>1, <3>1 DEF UserOK
      <3> QED BY <1>3, <2>1, <3>2, <3>3
    <2>4. CASE q # p /\ at[q] = f
      <3>1. /\ pc'[q] = pc[q] /\ snap'[q] = snap[q] /\ store'[f] = snap[p]
            /\ writer'[f] = Nobody /\ writer[f] # q
        BY <1>2, <1>3, <2>4 DEF Typed
      <3>2. pc[q] \in InTransaction => q \in behind'
        BY <1>3, <2>4 DEF Readers
      <3>3. ~Holds(q) /\ ~Holds(q)'
        BY <1>3, <2>4, <3>1 DEF Holds
      <3>4. pc[q] \in InTransaction => AsRead(q)'
        BY <1>3, <1>8, <2>1, <2>4, <3>1, <3>2, <3>3 DEF SnapOK, AsRead
      <3>5. SnapOK(q)'
        BY <2>1, <3>1, <3>3, <3>4 DEF SnapOK
      <3>6. store[f].done \subseteq snap[p].done
        BY <1>1, <1>8
      <3>7. UserOK(q)'
        BY <1>3, <2>1, <2>4, <3>1, <3>6 DEF UserOK
      <3> QED BY <1>3, <2>1, <3>5, <3>7
    <2> QED BY <2>2, <2>3, <2>4
  <1> QED BY <1>5, <1>6, <1>7, <1>9 DEF IInv

(* A commit of a transaction that only read.                                *)
LEMMA CommitReadKeeps ==
  ASSUME NEW p \in Process, IInv, Ready(p), Goto(p, "apply", "open"), Sees(p, Fresh),
         ~Holds(p), behind' = behind \ {p}, UNCHANGED <<file, store, writer, at, known>>
  PROVE  IInv'
  <1>1. /\ pc[p] = "apply" /\ snap[p].marked = 1..known[p]
    BY ReadyHas
  <1>2. SnapOK(p) /\ pc[p] \in InTransaction /\ at[p] \in Files
    BY <1>1 DEF IInv, InTransaction, Typed
  <1>3. store[at[p]].done = store[at[p]].marked
    BY <1>2, CompleteFields DEF IInv, AlwaysComplete
  <1>4. 1..known[p] \subseteq store[at[p]].done
    BY <1>1, <1>2, <1>3 DEF SnapOK, AsRead
  <1>5. snap' = [snap EXCEPT ![p] = Fresh]
    BY DEF Sees
  <1>6. snap' \in [Process -> Content] /\ \A q \in Process \ {p} : snap'[q] = snap[q]
    BY <1>5, Contents DEF IInv, Typed
  <1>7. "open" \in Places
    BY DEF Places
  <1>8. store' \in [Files -> Content] /\ behind' \subseteq Process
    BY DEF IInv, Typed
  <1>9. Typed' /\ HoldersWork' /\ Aside(p) /\ pc'[p] = "open"
    BY <1>6, <1>7, <1>8, GotoFrame DEF IInv
  <1>10. SnapOK(p)' /\ UserOK(p)' /\ (at[p] <= file)'
    BY <1>4, <1>9 DEF SnapOK, UserOK, InTransaction, IInv
  <1> QED BY <1>9, <1>10, OthersKeep

LEMMA WriteKeeps ==
  ASSUME NEW p \in Process, IInv, Write(p)
  PROVE  IInv'
  <1>1. /\ UNCHANGED <<file, store, writer, pc, at, known, snap>>
        /\ behind \subseteq behind' /\ behind' \subseteq Process
    BY DEF Write, files, private, Readers, IInv, Typed
  <1>2. Typed' /\ HoldersWork' /\ AlwaysComplete'
    BY <1>1 DEF IInv, Typed, HoldersWork, AlwaysComplete
  <1>3. \A q \in Process : SnapOK(q)' /\ UserOK(q)' /\ (at[q] <= file)'
    BY <1>1 DEF IInv, SnapOK, Ahead, AsRead, UserOK, Holds
  <1> QED BY <1>2, <1>3 DEF IInv

LEMMA RemoveFileKeeps ==
  ASSUME IInv, RemoveFile
  PROVE  IInv'
  <1>1. /\ UNCHANGED <<store, writer, pc, at, known, snap, behind>>
        /\ file < MaxFiles /\ file' = file + 1
    BY DEF RemoveFile, private
  <1>2. Typed' /\ file' > file
    BY <1>1, BoundAssumption DEF IInv, Typed, Files
  <1>3. HoldersWork' /\ AlwaysComplete'
    BY <1>1 DEF IInv, HoldersWork, AlwaysComplete
  <1>4. \A q \in Process : SnapOK(q)' /\ UserOK(q)'
    BY <1>1 DEF IInv, SnapOK, Ahead, AsRead, UserOK, Holds
  <1>5. \A q \in Process : (at[q] <= file)'
    BY <1>1, BoundAssumption DEF IInv, Typed, Files
  <1> QED BY <1>2, <1>3, <1>4, <1>5 DEF IInv

LEMMA MigrateKeeps ==
  ASSUME NEW p \in Process, IInv, Migrate(p)
  PROVE  IInv'
  <1>1. CASE Create(p)
    BY <1>1, TableKeeps DEF Create, budget
  <1>2. CASE FindTable(p)
    BY <1>2, FindTableKeeps
  <1>3. CASE FindLocked(p)
    BY <1>3, FindLockedKeeps
  <1>4. CASE CreateAfterWait(p)
    BY <1>4, TableKeeps DEF CreateAfterWait, budget
  <1>5. CASE ReadApplied(p)
    BY <1>5, ReadAppliedKeeps
  <1>6. CASE RefuseLegacy(p)
    BY <1>6, EndKeeps DEF RefuseLegacy, Ended
  <1>7. CASE ApplyMigration(p)
    BY <1>7, ApplyKeeps
  <1>8. CASE CannotWrite(p)
    BY <1>8, EndKeeps DEF CannotWrite, Ended
  <1>9. CASE RejectUnknown(p)
    BY <1>9, EndKeeps DEF RejectUnknown, Ended
  <1>10. CASE Commit(p)
    <2>1. /\ Ready(p) /\ Goto(p, "apply", "open") /\ Sees(p, Fresh)
          /\ UNCHANGED <<file, at, known>>
      BY <1>10 DEF Commit
    <2>2. CASE CommitWrites(p)
      BY <2>1, <2>2, CommitWritesKeeps
    <2>3. CASE ~Holds(p) /\ behind' = behind \ {p} /\ UNCHANGED <<store, writer>>
      BY <2>1, <2>3, CommitReadKeeps
    <2> QED BY <1>10, <2>2, <2>3 DEF Commit
  <1> QED BY <1>1, <1>2, <1>3, <1>4, <1>5, <1>6, <1>7, <1>8, <1>9, <1>10 DEF Migrate

LEMMA NextIInv == IInv /\ [SchemaNext]_schemaVars => IInv'
  <1> SUFFICES ASSUME IInv, [SchemaNext]_schemaVars PROVE IInv'
    OBVIOUS
  <1>1. ASSUME NEW p \in Process, Open(p) PROVE IInv'
    BY <1>1, OpenKeeps
  <1>2. ASSUME NEW p \in Process, Migrate(p) PROVE IInv'
    BY <1>2, MigrateKeeps
  <1>3. ASSUME NEW p \in Process, Trouble(p) PROVE IInv'
    BY <1>3, EndKeeps DEF Trouble, TimeOut, CommitFails, Die, Ended
  <1>4. ASSUME NEW p \in Process, Close(p) PROVE IInv'
    BY <1>4, EndKeeps DEF Close, Ended
  <1>5. ASSUME NEW p \in Process, Write(p) PROVE IInv'
    BY <1>5, WriteKeeps
  <1>6. CASE RemoveFile
    BY <1>6, RemoveFileKeeps
  <1>7. CASE UNCHANGED schemaVars \/ \E p \in Process : WriteFails(p)
    <2>1. UNCHANGED <<file, store, writer, pc, at, known, snap, behind>>
      BY <1>7 DEF schemaVars, files, private, WriteFails
    <2>2. Typed' /\ HoldersWork' /\ AlwaysComplete'
      BY <2>1 DEF IInv, Typed, HoldersWork, AlwaysComplete
    <2>3. \A q \in Process : SnapOK(q)' /\ UserOK(q)' /\ (at[q] <= file)'
      BY <2>1 DEF IInv, SnapOK, Ahead, AsRead, UserOK, Holds
    <2> QED BY <2>2, <2>3 DEF IInv
  <1> QED BY <1>1, <1>2, <1>3, <1>4, <1>5, <1>6, <1>7 DEF SchemaNext

LEMMA InductiveInvariant == SchemaSpec => []IInv
  BY InitIInv, NextIInv, PTL DEF SchemaSpec

-----------------------------------------------------------------------------
LEMMA NextCounted == Counted /\ [SchemaNext]_schemaVars => Counted'
  <1> SUFFICES ASSUME Counted, [SchemaNext]_schemaVars PROVE Counted'
    OBVIOUS
  <1> USE BoundAssumption DEF Counted
  <1>1. ASSUME NEW p \in Process, Open(p) PROVE Counted'
    BY <1>1 DEF Open
  <1>2. ASSUME NEW p \in Process, Migrate(p) PROVE Counted'
    BY <1>2 DEF Migrate, Create, FindTable, FindLocked, CreateAfterWait, ReadApplied,
      RefuseLegacy, ApplyMigration, CannotWrite, RejectUnknown, Commit, budget
  <1>3. ASSUME NEW p \in Process, Trouble(p) \/ WriteFails(p) PROVE Counted'
    BY <1>3 DEF Trouble, TimeOut, CommitFails, Die, WriteFails, Fault
  <1>4. ASSUME NEW p \in Process, Close(p) \/ Write(p) PROVE Counted'
    BY <1>4 DEF Close, Write, budget
  <1>5. CASE RemoveFile
    BY <1>5 DEF RemoveFile, budget
  <1>6. CASE UNCHANGED schemaVars
    BY <1>6 DEF schemaVars, budget
  <1> QED BY <1>1, <1>2, <1>3, <1>4, <1>5, <1>6 DEF SchemaNext

(* Every variable of the openers keeps its type, and a lock is held by a     *)
(* process in a transaction on its file (migrations.go:56-112).             *)
THEOREM TypeCorrect == SchemaSpec => []SchemaTypeOK
  <1>1. SchemaInit => Counted
    BY InitTyped
  <1>2. SchemaSpec => []Counted
    BY <1>1, NextCounted, PTL DEF SchemaSpec
  <1>3. IInv /\ Counted => SchemaTypeOK
    BY TypesAre DEF IInv
  <1> QED BY InductiveInvariant, <1>2, <1>3, PTL

(* No file is ever between two versions, however many processes open it and  *)
(* die in the middle (migrations.go:67-112).                                *)
THEOREM NeverHalfMigrated == SchemaSpec => []AlwaysComplete
  <1>1. IInv => AlwaysComplete
    BY DEF IInv
  <1> QED BY InductiveInvariant, <1>1, PTL

(* Who has a database open has the tables its statements name, whatever the  *)
(* others have migrated since (migrations.go:92-111).                       *)
THEOREM TablesAreThere == SchemaSpec => []UsersFindTheirTables
  <1>1. IInv => UsersFindTheirTables
    BY DEF IInv, UserOK, UsersFindTheirTables
  <1> QED BY InductiveInvariant, <1>1, PTL

(* Migrations are applied once and in order (migrations.go:92-99).           *)
THEOREM OnceAndInOrder == SchemaSpec => []AppliedOnce
  <1>1. ASSUME IInv PROVE AppliedOnce
    <2> SUFFICES ASSUME NEW p \in Process, pc[p] = "apply", NEW v \in Version, IsNext(p, v)
                 PROVE  /\ v \notin snap[p].done /\ 1..(v - 1) \subseteq snap[p].done
                        /\ ~snap[p].legacy
      BY DEF AppliedOnce
    <2>1. SnapOK(p) /\ Typed
      BY <1>1 DEF IInv
    <2>2. snap[p].done = snap[p].marked /\ ~snap[p].legacy
      BY <2>1 DEF SnapOK, InTransaction
    <2>3. PICK k \in 0..NewestVersion : snap[p].marked = 1..k
      BY <2>1 DEF SnapOK, InTransaction
    <2>4. v = k + 1
      BY <2>1, <2>3, NextVersion
    <2> QED BY <2>2, <2>3, <2>4, VersionAssumption
  <1> QED BY InductiveInvariant, <1>1, PTL

-----------------------------------------------------------------------------
(* Only a refusal gives the advice to delete everything.                     *)
LEMMA OnlyRefusal ==
  ASSUME NEW p \in Process, IInv, [SchemaNext]_schemaVars, pc'[p] = "legacy", pc[p] # "legacy"
  PROVE  RefuseLegacy(p)
  <1>1. ASSUME NEW q \in Process, NEW to, pc' = [pc EXCEPT ![q] = to], to # "legacy"
        PROVE  FALSE
    BY <1>1 DEF IInv, Typed
  <1>2. ASSUME NEW q \in Process, Open(q) PROVE FALSE
    BY <1>1, <1>2 DEF Open
  <1>3. ASSUME NEW q \in Process, Migrate(q) PROVE RefuseLegacy(p)
    <2>1. CASE RefuseLegacy(q)
      <3>1. pc' = [pc EXCEPT ![q] = "legacy"]
        BY <2>1 DEF RefuseLegacy, End
      <3>2. q = p
        BY <3>1 DEF IInv, Typed
      <3> QED BY <2>1, <3>2
    <2>2. CASE Create(q) \/ FindTable(q) \/ FindLocked(q) \/ CreateAfterWait(q)
      BY <2>2, <1>1 DEF Create, FindTable, FindLocked, CreateAfterWait, Goto
    <2>3. CASE ReadApplied(q) \/ ApplyMigration(q) \/ Commit(q)
      BY <2>3, <1>1 DEF ReadApplied, ApplyMigration, Commit, Goto
    <2>4. CASE CannotWrite(q) \/ RejectUnknown(q)
      BY <2>4, <1>1 DEF CannotWrite, RejectUnknown, End
    <2> QED BY <1>3, <2>1, <2>2, <2>3, <2>4 DEF Migrate
  <1>4. ASSUME NEW q \in Process, Trouble(q) \/ Close(q) PROVE FALSE
    BY <1>1, <1>4 DEF Trouble, TimeOut, CommitFails, Die, Close, End
  <1>5. ASSUME NEW q \in Process, Write(q) \/ WriteFails(q) PROVE FALSE
    BY <1>5 DEF Write, WriteFails, private
  <1>6. CASE RemoveFile
    BY <1>6 DEF RemoveFile, private
  <1>7. CASE UNCHANGED schemaVars
    BY <1>7 DEF schemaVars, private
  <1> QED BY <1>2, <1>3, <1>4, <1>5, <1>6, <1>7 DEF SchemaNext

(* The advice to delete everything is given only for a database of before    *)
(* the migrations, however many others are opening it (migrations.go:83-91). *)
THEOREM AdviceIsRight == SchemaSpec => LegacyIsLegacy
  <1>1. ASSUME IInv, [SchemaNext]_schemaVars
        PROVE  \A p \in Process : pc'[p] = "legacy" /\ pc[p] # "legacy" => store[at[p]].legacy
    <2> SUFFICES ASSUME NEW p \in Process, pc'[p] = "legacy", pc[p] # "legacy"
                 PROVE  store[at[p]].legacy
      OBVIOUS
    <2>1. pc[p] = "read" /\ Suspect(p)
      BY <1>1, OnlyRefusal DEF RefuseLegacy
    <2>2. SnapOK(p) /\ pc[p] \in InTransaction
      BY <1>1, <2>1 DEF IInv, InTransaction
    <2>3. snap[p].legacy
      BY <2>1, <2>2 DEF SnapOK, Suspect
    <2> QED BY <2>2, <2>3 DEF SnapOK, Ahead, AsRead
  <1>2. IInv /\ [SchemaNext]_schemaVars =>
          [\A p \in Process :
             pc'[p] = "legacy" /\ pc[p] # "legacy" => store[at[p]].legacy]_schemaVars
    BY <1>1
  <1> QED BY InductiveInvariant, <1>2, PTL DEF SchemaSpec, LegacyIsLegacy

-----------------------------------------------------------------------------
(* The refinement mapping.                                                  *)
SchemaBar == [f \in Files |-> IF store[f].legacy THEN {0} ELSE store[f].marked]
Using(p) == pc[p] = "open" \/ Settled(p)
UsingBar == [p \in Process |-> IF Using(p) THEN [file |-> at[p], known |-> known[p]]
                              ELSE [file |-> 0, known |-> 0]]

(* What p's steps leave as it was for q.                                    *)
Same(q) ==
    /\ pc'[q] = pc[q] /\ at'[q] = at[q] /\ known'[q] = known[q] /\ snap'[q] = snap[q]
    /\ Holds(q)' <=> Holds(q)

LEMMA SameUsing ==
  ASSUME NEW q, Same(q)
  PROVE  Using(q)' <=> Using(q)
  BY DEF Same, Using, Settled

LEMMA OthersSame ==
  ASSUME NEW p \in Process, NEW q \in Process \ {p}, IInv,
         Open(p) \/ Migrate(p) \/ Trouble(p) \/ Close(p)
  PROVE  Same(q)
  <1> USE ProcessAssumption DEF Same
  <1>1. Typed /\ at[p] \in Files /\ at[q] \in Files
    BY DEF IInv, Typed
  <1>2. ASSUME NEW verdict, End(p, verdict) PROVE Same(q)
    BY <1>1, <1>2 DEF End, Sees, Drop, Holds, Typed
  <1>3. ASSUME Seize(p), MayWrite(p) \/ Unlocked(p), UNCHANGED at PROVE Holds(q)' <=> Holds(q)
    BY <1>1, <1>3 DEF Seize, MayWrite, Holds, Unlocked, Typed
  <1>4. CASE Open(p)
    BY <1>1, <1>4 DEF Open, files, Typed, Holds
  <1>5. CASE Create(p) \/ CreateAfterWait(p)
    BY <1>1, <1>3, <1>5 DEF Create, CreateAfterWait, Goto, Sees, Typed
  <1>6. CASE FindTable(p) \/ FindLocked(p) \/ ReadApplied(p)
    BY <1>1, <1>6 DEF FindTable, FindLocked, ReadApplied, Goto, Sees, files, Typed, Holds
  <1>7. CASE ApplyMigration(p)
    BY <1>1, <1>3, <1>7 DEF ApplyMigration, Goto, Sees, Typed
  <1>8. CASE RefuseLegacy(p) \/ CannotWrite(p) \/ RejectUnknown(p)
    BY <1>2, <1>8 DEF RefuseLegacy, CannotWrite, RejectUnknown
  <1>9. CASE Commit(p)
    <2>1. /\ pc' = [pc EXCEPT ![p] = "open"] /\ snap' = [snap EXCEPT ![p] = Fresh]
          /\ UNCHANGED <<at, known>>
      BY <1>9 DEF Commit, Goto, Sees
    <2>2. \/ Holds(p) /\ writer' = [writer EXCEPT ![at[p]] = Nobody]
          \/ UNCHANGED writer
      BY <1>9 DEF Commit, CommitWrites, Drop
    <2>3. Holds(q)' <=> Holds(q)
      BY <1>1, <2>1, <2>2 DEF Typed, Holds
    <2> QED BY <1>1, <2>1, <2>3 DEF Typed
  <1>10. CASE Trouble(p) \/ Close(p)
    BY <1>2, <1>10 DEF Trouble, TimeOut, CommitFails, Die, Close
  <1> QED BY <1>4, <1>5, <1>6, <1>7, <1>8, <1>9, <1>10 DEF Migrate

(* A step that is none of Schema's.                                         *)
LEMMA Stutters ==
  ASSUME file' = file, store' = store,
         \A q \in Process : /\ Using(q)' <=> Using(q)
                            /\ Using(q) => at'[q] = at[q] /\ known'[q] = known[q]
  PROVE  UNCHANGED <<file, SchemaBar, UsingBar>>
  <1>1. SchemaBar' = SchemaBar
    BY DEF SchemaBar
  <1>2. UsingBar' = UsingBar
    BY DEF UsingBar
  <1> QED BY <1>1, <1>2

LEMMA EndMaps ==
  ASSUME NEW p \in Process, NEW verdict \in Ended, IInv, End(p, verdict),
         \A q \in Process \ {p} : Same(q)
  PROVE  \/ UNCHANGED <<file, SchemaBar, UsingBar>>
         \/ /\ UsingBar[p] # [file |-> 0, known |-> 0]
            /\ UsingBar' = [UsingBar EXCEPT ![p] = [file |-> 0, known |-> 0]]
            /\ UNCHANGED <<file, SchemaBar>>
  <1>1. file' = file /\ store' = store /\ pc'[p] = verdict
    BY DEF End, IInv, Typed
  <1>2. ~Using(p)'
    BY <1>1 DEF Using, Settled, InTransaction, Ended
  <1>3. \A q \in Process \ {p} : /\ Using(q)' <=> Using(q)
                                 /\ at'[q] = at[q] /\ known'[q] = known[q]
    BY SameUsing DEF Same
  <1>4. CASE ~Using(p)
    BY <1>1, <1>2, <1>3, <1>4, Stutters
  <1>5. CASE Using(p)
    <2>1. known[p] # 0
      BY VersionAssumption DEF IInv, Typed, Version
    <2>2. UsingBar[p] # [file |-> 0, known |-> 0]
      BY <1>5, <2>1 DEF UsingBar
    <2>3. UsingBar' = [UsingBar EXCEPT ![p] = [file |-> 0, known |-> 0]]
      BY <1>2, <1>3 DEF UsingBar
    <2>4. UNCHANGED <<file, SchemaBar>>
      BY <1>1 DEF SchemaBar
    <2> QED BY <2>2, <2>3, <2>4
  <1> QED BY <1>4, <1>5

(* Where a process comes to use a file whose migrations are, or become, its  *)
(* own.                                                                    *)
Opens(p) == \E f \in Files, k \in 1..NewestVersion :
    /\ UsingBar[p] = [file |-> 0, known |-> 0] /\ f <= file
    /\ SchemaBar[f] \subseteq 1..k
    /\ SchemaBar' = [SchemaBar EXCEPT ![f] = 1..k]
    /\ UsingBar' = [UsingBar EXCEPT ![p] = [file |-> f, known |-> k]]
    /\ UNCHANGED file

LEMMA FindTableMaps ==
  ASSUME NEW p \in Process, IInv, FindTable(p), \A q \in Process \ {p} : Same(q)
  PROVE  UNCHANGED <<file, SchemaBar, UsingBar>> \/ Opens(p)
  <1>1. /\ pc[p] = "create" /\ snap' = [snap EXCEPT ![p] = store[at[p]]] /\ store[at[p]].table
        /\ UNCHANGED <<file, store, writer, at, known>>
    BY DEF FindTable, Goto, Sees, files
  <1>2. \A q \in Process \ {p} : /\ Using(q)' <=> Using(q)
                                 /\ at'[q] = at[q] /\ known'[q] = known[q]
    BY SameUsing DEF Same
  <1>3. ~Using(p)
    BY <1>1 DEF Using, Settled, InTransaction
  <1>4. CASE ~Using(p)'
    BY <1>1, <1>2, <1>3, <1>4, Stutters
  <1>5. CASE Using(p)'
    <2>1. at[p] \in Files /\ known[p] \in 1..NewestVersion /\ at[p] <= file /\ snap \in [Process -> Content]
      BY DEF IInv, Typed, Version
    <2>2. pc'[p] = "read" /\ snap'[p] = store[at[p]]
      BY <1>1, <2>1 DEF FindTable, Goto, IInv, Typed
    <2>3. store[at[p]].marked = 1..known[p]
      BY <1>1, <1>5, <2>2 DEF Using, Settled
    <2>4. ~store[at[p]].legacy
      BY <1>1, <2>1, CompleteFields DEF IInv, AlwaysComplete
    <2>5. SchemaBar[at[p]] = 1..known[p] /\ SchemaBar' = SchemaBar
      BY <1>1, <2>1, <2>3, <2>4 DEF SchemaBar
    <2>6. SchemaBar' = [SchemaBar EXCEPT ![at[p]] = 1..known[p]]
      BY <2>5 DEF SchemaBar
    <2>7. UsingBar[p] = [file |-> 0, known |-> 0]
      BY <1>3 DEF UsingBar
    <2>8. UsingBar' = [UsingBar EXCEPT ![p] = [file |-> at[p], known |-> known[p]]]
      BY <1>1, <1>2, <1>5 DEF UsingBar
    <2> QED BY <1>1, <2>1, <2>5, <2>6, <2>7, <2>8 DEF Opens
  <1> QED BY <1>4, <1>5

LEMMA CommitMaps ==
  ASSUME NEW p \in Process, IInv, Commit(p), \A q \in Process \ {p} : Same(q)
  PROVE  UNCHANGED <<file, SchemaBar, UsingBar>> \/ Opens(p)
  <1>1. /\ Ready(p) /\ pc'[p] = "open" /\ UNCHANGED <<file, at, known>>
    BY DEF Commit, Goto, IInv, Typed
  <1>2. \A q \in Process \ {p} : /\ Using(q)' <=> Using(q)
                                 /\ at'[q] = at[q] /\ known'[q] = known[q]
    BY SameUsing DEF Same
  <1>3. /\ pc[p] = "apply" /\ snap[p].marked = 1..known[p]
        /\ known[p] \in 1..NewestVersion
    BY <1>1, ReadyHas DEF Version
  <1>4. Using(p)' /\ SnapOK(p) /\ pc[p] \in InTransaction /\ at[p] \in Files /\ at[p] <= file
    BY <1>1, <1>3 DEF Using, IInv, Typed, InTransaction
  <1>5. CASE ~Holds(p)
    <2>1. store' = store
      BY <1>5 DEF Commit, CommitWrites
    <2>2. Using(p)
      BY <1>3, <1>4, <1>5 DEF Using, Settled
    <2> QED BY <1>1, <1>2, <1>4, <2>1, <2>2, Stutters
  <1>6. CASE Holds(p)
    <2>1. store' = [store EXCEPT ![at[p]] = snap[p]]
      BY <1>6 DEF Commit, CommitWrites
    <2>2. ~Using(p)
      BY <1>3, <1>6 DEF Using, Settled
    <2>3. ~snap[p].legacy /\ store[at[p]].marked \subseteq 1..known[p] /\ ~store[at[p]].legacy
      BY <1>3, <1>4, <1>6 DEF SnapOK, Ahead
    <2>4. SchemaBar[at[p]] \subseteq 1..known[p]
      BY <1>4, <2>3 DEF SchemaBar
    <2>5. SchemaBar' = [SchemaBar EXCEPT ![at[p]] = 1..known[p]]
      BY <1>3, <1>4, <2>1, <2>3 DEF SchemaBar, IInv, Typed
    <2>6. UsingBar[p] = [file |-> 0, known |-> 0]
      BY <2>2 DEF UsingBar
    <2>7. UsingBar' = [UsingBar EXCEPT ![p] = [file |-> at[p], known |-> known[p]]]
      BY <1>1, <1>2, <1>4 DEF UsingBar
    <2> QED BY <1>1, <1>3, <1>4, <2>4, <2>5, <2>6, <2>7 DEF Opens
  <1> QED BY <1>5, <1>6

LEMMA StepMaps ==
  ASSUME IInv, [SchemaNext]_schemaVars
  PROVE  Atomically!Next \/ UNCHANGED Atomically!vars
  <1> USE DEF Atomically!vars
  <1>1. ASSUME UNCHANGED <<file, SchemaBar, UsingBar>> PROVE UNCHANGED Atomically!vars
    BY <1>1 DEF SchemaBar, UsingBar, Using
  <1>2. ASSUME NEW p \in Process, Opens(p) PROVE Atomically!Next
    BY <1>2 DEF Opens, Atomically!Next, Atomically!Open, Atomically!Closed, Atomically!Files, Files,
      SchemaBar, UsingBar, Using
  <1>3. ASSUME NEW p \in Process, UsingBar[p] # [file |-> 0, known |-> 0],
               UsingBar' = [UsingBar EXCEPT ![p] = [file |-> 0, known |-> 0]],
               UNCHANGED <<file, SchemaBar>>
        PROVE  Atomically!Next
    BY <1>3 DEF Atomically!Next, Atomically!Leave, Atomically!Closed, SchemaBar, UsingBar, Using
  <1>4. ASSUME NEW p \in Process, NEW verdict \in Ended, End(p, verdict),
               \A q \in Process \ {p} : Same(q)
        PROVE  Atomically!Next \/ UNCHANGED Atomically!vars
    BY <1>1, <1>3, <1>4, EndMaps
  <1>5. ASSUME NEW p \in Process, Open(p) \/ Migrate(p) \/ Trouble(p) \/ Close(p)
        PROVE  Atomically!Next \/ UNCHANGED Atomically!vars
    <2>1. \A q \in Process \ {p} : Same(q)
      BY <1>5, OthersSame
    <2>2. \A q \in Process \ {p} : (Using(q)' <=> Using(q)) /\ at'[q] = at[q] /\ known'[q] = known[q]
      BY <2>1, SameUsing DEF Same
    <2>3. ASSUME ~Using(p), ~Using(p)', UNCHANGED <<file, store>>
          PROVE  UNCHANGED Atomically!vars
      BY <1>1, <2>2, <2>3, Stutters
    <2>4. CASE Open(p)
      <3>1. pc[p] \in Ended /\ pc'[p] \in {"create", "error"} /\ UNCHANGED <<file, store>>
        BY <2>4 DEF Open, files, IInv, Typed
      <3> QED BY <2>3, <3>1 DEF Using, Settled, InTransaction, Ended
    <2>5. CASE Create(p) \/ CreateAfterWait(p)
      <3>1. /\ pc[p] \in {"create", "wait"} /\ pc'[p] = "read" /\ Seize(p)
            /\ UNCHANGED <<file, store, at>> /\ at[p] \in Files
        BY <2>5 DEF Create, CreateAfterWait, Goto, IInv, Typed
      <3>2. Holds(p)'
        BY <3>1 DEF Seize, Holds, IInv, Typed
      <3> QED BY <2>3, <3>1, <3>2 DEF Using, Settled, InTransaction
    <2>6. CASE FindTable(p)
      BY <1>1, <1>2, <2>1, <2>6, FindTableMaps
    <2>7. CASE FindLocked(p)
      <3>1. pc[p] = "create" /\ pc'[p] = "wait" /\ UNCHANGED <<file, store>>
        BY <2>7 DEF FindLocked, Goto, files, IInv, Typed
      <3> QED BY <2>3, <3>1 DEF Using, Settled, InTransaction
    <2>8. CASE ReadApplied(p)
      <3>1. /\ pc[p] = "read" /\ pc'[p] = "apply"
            /\ UNCHANGED <<file, store, writer, at, known, snap>>
        BY <2>8 DEF ReadApplied, Goto, files, IInv, Typed
      <3>2. Using(p)' <=> Using(p)
        BY <3>1 DEF Using, Settled, Holds, InTransaction
      <3>3. \A q \in Process : /\ Using(q)' <=> Using(q)
                               /\ at'[q] = at[q] /\ known'[q] = known[q]
        BY <2>2, <3>1, <3>2
      <3> QED BY <1>1, <3>1, <3>3, Stutters
    <2>9. CASE ApplyMigration(p)
      <3>1. /\ pc[p] = "apply" /\ pc'[p] = "apply" /\ Seize(p) /\ Missing(p) # {}
            /\ UNCHANGED <<file, store, at>> /\ at[p] \in Files
        BY <2>9 DEF ApplyMigration, Goto, IsNext, IInv, Typed
      <3>2. Holds(p)'
        BY <3>1 DEF Seize, Holds, IInv, Typed
      <3> QED BY <2>3, <3>1, <3>2 DEF Using, Settled, Missing
    <2>10. CASE RefuseLegacy(p) \/ CannotWrite(p) \/ RejectUnknown(p)
      BY <1>4, <2>1, <2>10 DEF RefuseLegacy, CannotWrite, RejectUnknown, Ended
    <2>11. CASE Commit(p)
      BY <1>1, <1>2, <2>1, <2>11, CommitMaps
    <2>12. CASE Trouble(p) \/ Close(p)
      BY <1>4, <2>1, <2>12 DEF Trouble, TimeOut, CommitFails, Die, Close, Ended
    <2> QED BY <1>5, <2>4, <2>5, <2>6, <2>7, <2>8, <2>9, <2>10, <2>11, <2>12 DEF Migrate
  <1>6. ASSUME UNCHANGED <<file, store, writer, pc, at, known, snap>>
        PROVE  UNCHANGED Atomically!vars
    BY <1>6 DEF Settled, Holds
  <1>7. ASSUME NEW p \in Process, Write(p) \/ WriteFails(p) PROVE UNCHANGED Atomically!vars
    BY <1>6, <1>7 DEF Write, WriteFails, files, private
  <1>8. CASE RemoveFile
    <2>1. UNCHANGED <<store, writer, pc, at, known, snap>> /\ file < MaxFiles /\ file' = file + 1
      BY <1>8 DEF RemoveFile, private
    <2>2. UNCHANGED <<SchemaBar, UsingBar>>
      BY <2>1 DEF SchemaBar, UsingBar, Using, Settled, Holds
    <2> QED BY <2>1, <2>2 DEF Atomically!Next, Atomically!Delete, SchemaBar, UsingBar, Using
  <1>9. CASE UNCHANGED schemaVars
    BY <1>6, <1>9 DEF schemaVars, files, private
  <1> QED BY <1>5, <1>7, <1>8, <1>9 DEF SchemaNext

LEMMA InitMaps == SchemaInit => Atomically!Init
  <1> SUFFICES ASSUME SchemaInit PROVE Atomically!Init
    OBVIOUS
  <1> USE VersionAssumption
  <1>1. PICK found \in {Legacy} \cup {UpTo(k) : k \in 0..NewestVersion} :
          store = [f \in Files |-> IF f = 0 THEN found ELSE Fresh]
    BY DEF SchemaInit
  <1> DEFINE seen == IF found.legacy THEN {0} ELSE found.marked
  <1>2. \A k \in 0..NewestVersion : UpTo(k).marked = 1..k /\ ~UpTo(k).legacy
    BY DEF UpTo
  <1>3. Fresh.marked = {} /\ ~Fresh.legacy
    BY <1>2 DEF Fresh
  <1>4. Legacy.legacy
    BY Contents DEF Legacy, Content
  <1>5. seen \in {{0}} \cup {1..k : k \in 0..NewestVersion}
    <2>1. CASE found = Legacy
      BY <1>4, <2>1
    <2>2. CASE found \in {UpTo(k) : k \in 0..NewestVersion}
      BY <1>2, <2>2
    <2> QED BY <2>1, <2>2
  <1>6. SchemaBar = [f \in Files |-> IF f = 0 THEN seen ELSE {}]
    BY <1>1, <1>3 DEF SchemaBar
  <1>7. UsingBar = [p \in Process |-> [file |-> 0, known |-> 0]]
    BY DEF SchemaInit, UsingBar, Using, Settled, InTransaction
  <1>8. file = 0
    BY DEF SchemaInit
  <1> HIDE DEF seen
  <1> QED BY <1>5, <1>6, <1>7, <1>8
      DEF Atomically!Init, Atomically!Closed, Atomically!Files, Files, SchemaBar, UsingBar, Using

(* Opening a database, statement by statement beside others who open it, die  *)
(* or delete it, implements opening it at once (migrations.go:56-112).      *)
THEOREM OpeningIsAtomic == SchemaSpec => ImplementsSchema
  <1>1. IInv /\ [SchemaNext]_schemaVars => [Atomically!Next]_Atomically!vars
    BY StepMaps
  <1> QED BY InitMaps, <1>1, InductiveInvariant, PTL
      DEF SchemaSpec, ImplementsSchema, Atomically!Spec
=============================================================================
