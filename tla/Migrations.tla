----------------------------- MODULE Migrations -----------------------------
(* Opening the database: store.OpenSQLite and migrate (store/sqlite.go,     *)
(* store/migrations.go), run by several processes at a time, of releases   *)
(* that know different migrations.                                         *)
(*                                                                         *)
(* A transaction of SQLite in WAL mode reads a snapshot; BEGIN takes none.  *)
(* One transaction at a time writes.  A statement that opens its            *)
(* transaction by writing waits for the lock, as long as busy_timeout says; *)
(* one that has read before does not, and fails as well when somebody has  *)
(* committed since its snapshot.                                            *)
EXTENDS Integers, FiniteSets

CONSTANTS
    Process,       \* the processes that open the database
    Nobody,        \* not a process
    NewestVersion, \* the last migration of any release
    MaxFiles,      \* bound: how often nuke deletes the file
    MaxOpens,      \* bound: how often the database is opened
    MaxFaults      \* bound: crashes, timeouts and write errors

ASSUME ProcessAssumption == Nobody \notin Process
ASSUME VersionAssumption == NewestVersion \in Nat \ {0}
ASSUME BoundAssumption == MaxFiles \in Nat /\ MaxOpens \in Nat /\ MaxFaults \in Nat

VARIABLES
    file,          \* the file that has the name of the database
    store,         \* store[f]: what is committed in file f
    writer,        \* writer[f]: who holds the write lock of file f
    pc,            \* pc[p]: where p stands in OpenSQLite, or how it ended
    at,            \* at[p]: the file p opened
    known,         \* known[p]: the migrations of p's binary are 1..known[p]
    snap,          \* snap[p]: the file as p's transaction sees it
    behind,        \* the processes whose snapshot is not the latest any more
    opens, faults  \* how many so far

files == <<file, store, writer>>
private == <<pc, at, known, snap>>
budget == <<opens, faults>>
schemaVars == <<files, private, behind, budget>>

Version == 1..NewestVersion
Files == 0..MaxFiles

(* table: schema_migrations exists; marked: its rows; done: the migrations *)
(* whose statements took effect; legacy: tables of before the migrations.  *)
Content == [table : BOOLEAN, marked : SUBSET Version, done : SUBSET Version,
            legacy : BOOLEAN]
UpTo(k) == [table |-> k > 0, marked |-> 1..k, done |-> 1..k, legacy |-> FALSE]
Fresh == UpTo(0)
Legacy == [Fresh EXCEPT !.legacy = TRUE]

InTransaction == {"read", "apply"}
Opening == {"create", "wait"} \cup InTransaction
Ended == {"closed", "error", "legacy"}

SchemaInit ==
    /\ file = 0 /\ writer = [f \in Files |-> Nobody]
    /\ \E found \in {Legacy} \cup {UpTo(k) : k \in 0..NewestVersion} :
         store = [f \in Files |-> IF f = 0 THEN found ELSE Fresh]
    /\ pc = [p \in Process |-> "closed"] /\ at = [p \in Process |-> 0]
    /\ known = [p \in Process |-> 1] /\ snap = [p \in Process |-> Fresh]
    /\ behind = {} /\ opens = 0 /\ faults = 0

-----------------------------------------------------------------------------
Fault == faults < MaxFaults /\ faults' = faults + 1 /\ UNCHANGED opens

Holds(p) == writer[at[p]] = p
Unlocked(p) == writer[at[p]] = Nobody
Seize(p) == writer' = [writer EXCEPT ![at[p]] = p]
Drop(p) == writer' = IF Holds(p) THEN [writer EXCEPT ![at[p]] = Nobody] ELSE writer

Goto(p, from, to) == pc[p] = from /\ pc' = [pc EXCEPT ![p] = to]
Sees(p, content) == snap' = [snap EXCEPT ![p] = content]

(* Whose snapshot a commit of p leaves behind.                             *)
Readers(p) == {q \in Process \ {p} : at[q] = at[p] /\ pc[q] \in InTransaction}

(* How an open or a connection ends: the deferred Rollback, db.Close, or    *)
(* the death of the process.                                               *)
KeepLock(p, verdict) == \* mutant: neither Rollback nor Close
    /\ pc' = [pc EXCEPT ![p] = verdict] /\ Sees(p, Fresh)
    /\ at' = [at EXCEPT ![p] = 0] /\ known' = [known EXCEPT ![p] = 1]
    /\ behind' = behind \ {p} /\ UNCHANGED files

End(p, verdict) ==
    /\ pc' = [pc EXCEPT ![p] = verdict] /\ Sees(p, Fresh)
    /\ at' = [at EXCEPT ![p] = 0] /\ known' = [known EXCEPT ![p] = 1]
    /\ behind' = behind \ {p} /\ Drop(p) /\ UNCHANGED <<file, store>>

(* sql.Open and the pragmas; journal_mode comes before busy_timeout and     *)
(* does not wait for others that use the file.                             *)
InUse == \E q \in Process : at[q] = file /\ pc[q] \in Opening \cup {"open"}

Open(p) ==
    /\ pc[p] \in Ended /\ opens < MaxOpens /\ opens' = opens + 1
    /\ \/ /\ pc' = [pc EXCEPT ![p] = "create"] /\ at' = [at EXCEPT ![p] = file]
          /\ \E k \in Version : known' = [known EXCEPT ![p] = k]
       \/ InUse /\ pc' = [pc EXCEPT ![p] = "error"] /\ UNCHANGED <<at, known>>
    /\ UNCHANGED <<files, snap, behind, faults>>

(* BEGIN, and CREATE TABLE IF NOT EXISTS: it reads when the table is there, *)
(* else it waits for the write lock.                                       *)
Create(p) ==
    /\ ~store[at[p]].table /\ Unlocked(p) /\ Goto(p, "create", "read")
    /\ Seize(p) /\ Sees(p, [store[at[p]] EXCEPT !.table = TRUE])
    /\ UNCHANGED <<file, store, at, known, behind, budget>>

FindTable(p) ==
    /\ store[at[p]].table /\ Goto(p, "create", "read") /\ Sees(p, store[at[p]])
    /\ UNCHANGED <<files, at, known, behind, budget>>

FindLocked(p) ==
    /\ ~store[at[p]].table /\ ~Unlocked(p) /\ Goto(p, "create", "wait")
    /\ UNCHANGED <<files, at, known, snap, behind, budget>>

CreateAfterWait(p) ==
    /\ Unlocked(p) /\ Goto(p, "wait", "read")
    /\ Seize(p) /\ Sees(p, [store[at[p]] EXCEPT !.table = TRUE])
    /\ UNCHANGED <<file, store, at, known, behind, budget>>

TimeOut(p) ==
    /\ pc[p] = "wait" /\ ~Unlocked(p) /\ Fault /\ End(p, "error")

(* appliedMigrations and hasLegacySchema, whose names include a table of   *)
(* the first migration.                                                    *)
SuspectAlways(p) == \* mutant: the check is made of every database
    snap[p].legacy \/ 1 \in snap[p].done

Suspect(p) == snap[p].marked = {} /\ (snap[p].legacy \/ 1 \in snap[p].done)

ReadApplied(p) ==
    /\ ~Suspect(p) /\ Goto(p, "read", "apply")
    /\ UNCHANGED <<files, at, known, snap, behind, budget>>

RefuseLegacy(p) ==
    /\ pc[p] = "read" /\ Suspect(p) /\ End(p, "legacy") /\ UNCHANGED budget

(* The loop over the migrations, in the order of their versions: the        *)
(* statements of one and its row, in a transaction only this process sees.  *)
Missing(p) == (1..known[p]) \ snap[p].marked
IsNext(p, v) == v \in Missing(p) /\ \A w \in Missing(p) : v <= w
With(content, v) == [content EXCEPT !.done = @ \cup {v}, !.marked = @ \cup {v}]

MayWrite(p) == Holds(p) \/ (Unlocked(p) /\ p \notin behind)

ApplyDirectly(p) == \* mutant: the statements go to s.db in the place of tx
    /\ MayWrite(p) /\ Goto(p, "apply", "apply") /\ Seize(p)
    /\ \E v \in Version :
         /\ IsNext(p, v) /\ Sees(p, With(snap[p], v))
         /\ store' = [store EXCEPT ![at[p]].done = @ \cup {v}]
    /\ UNCHANGED <<file, at, known, behind, budget>>

MarkKnown(p) == \* mutant: the row gets the version of the binary
    /\ MayWrite(p) /\ Goto(p, "apply", "apply") /\ Seize(p)
    /\ \E v \in Version :
         /\ IsNext(p, v)
         /\ Sees(p, [With(snap[p], known[p]) EXCEPT !.done = snap[p].done \cup {v}])
    /\ UNCHANGED <<file, store, at, known, behind, budget>>

ApplyMigration(p) ==
    /\ MayWrite(p) /\ Goto(p, "apply", "apply") /\ Seize(p)
    /\ \E v \in Version : IsNext(p, v) /\ Sees(p, With(snap[p], v))
    /\ UNCHANGED <<file, store, at, known, behind, budget>>

IgnoreError(p) == \* mutant: the error of a statement is not looked at
    /\ pc[p] = "apply" /\ Missing(p) # {} /\ ~MayWrite(p)
    /\ Goto(p, "apply", "open") /\ Sees(p, Fresh) /\ behind' = behind \ {p}
    /\ UNCHANGED <<files, at, known, budget>>

CannotWrite(p) ==
    /\ pc[p] = "apply" /\ Missing(p) # {} /\ ~MayWrite(p)
    /\ End(p, "error") /\ UNCHANGED budget

AnyVersion(p) == TRUE \* mutant: no rejectUnknownMigrations

OnlyKnown(p) == snap[p].marked \subseteq 1..known[p]

RejectUnknown(p) ==
    /\ pc[p] = "apply" /\ Missing(p) = {} /\ ~OnlyKnown(p)
    /\ End(p, "error") /\ UNCHANGED budget

Ready(p) == pc[p] = "apply" /\ Missing(p) = {} /\ OnlyKnown(p)

CommitWrites(p) ==
    /\ Holds(p) /\ store' = [store EXCEPT ![at[p]] = snap[p]] /\ Drop(p)
    /\ behind' = behind \cup Readers(p)

Commit(p) ==
    /\ Ready(p) /\ Goto(p, "apply", "open") /\ Sees(p, Fresh)
    /\ \/ CommitWrites(p)
       \/ ~Holds(p) /\ behind' = behind \ {p} /\ UNCHANGED <<store, writer>>
    /\ UNCHANGED <<file, at, known, budget>>

CommitFails(p) == Ready(p) /\ Fault /\ End(p, "error")

Die(p) == pc[p] \in Opening \cup {"open"} /\ Fault /\ End(p, "closed")

Close(p) == pc[p] = "open" /\ End(p, "closed") /\ UNCHANGED budget

(* A statement that writes, in a transaction of its own; it waits for the   *)
(* lock.                                                                   *)
Write(p) ==
    /\ pc[p] = "open" /\ Unlocked(p) /\ behind' = behind \cup Readers(p)
    /\ UNCHANGED <<files, private, budget>>

(* It fails: busy_timeout is over, or the disk is full.                      *)
WriteFails(p) ==
    /\ pc[p] = "open" /\ Fault /\ UNCHANGED <<files, private, behind>>

(* Reset removes the file; who has it open goes on with it.                *)
RemoveFile ==
    /\ file < MaxFiles /\ file' = file + 1
    /\ UNCHANGED <<store, writer, private, behind, budget>>

Migrate(p) ==
    \/ Create(p) \/ FindTable(p) \/ FindLocked(p) \/ CreateAfterWait(p)
    \/ ReadApplied(p) \/ RefuseLegacy(p)
    \/ ApplyMigration(p) \/ CannotWrite(p) \/ RejectUnknown(p) \/ Commit(p)

Trouble(p) == TimeOut(p) \/ CommitFails(p) \/ Die(p)

SchemaNext ==
    \/ \E p \in Process : Open(p) \/ Migrate(p) \/ Trouble(p) \/ Close(p)
    \/ \E p \in Process : Write(p) \/ WriteFails(p)
    \/ RemoveFile

SchemaSpec == SchemaInit /\ [][SchemaNext]_schemaVars

-----------------------------------------------------------------------------
(* Every variable keeps its type, and a lock is held by a process that is   *)
(* in a transaction on that file.                                          *)
SchemaTypeOK ==
    /\ file \in Files /\ store \in [Files -> Content]
    /\ writer \in [Files -> Process \cup {Nobody}]
    /\ pc \in [Process -> Opening \cup {"open"} \cup Ended]
    /\ at \in [Process -> Files] /\ known \in [Process -> Version]
    /\ snap \in [Process -> Content] /\ behind \subseteq Process
    /\ opens \in 0..MaxOpens /\ faults \in 0..MaxFaults
    /\ \A f \in Files : writer[f] # Nobody =>
         pc[writer[f]] \in InTransaction /\ at[writer[f]] = f

Complete(content) == content = Legacy \/ \E k \in 0..NewestVersion : content = UpTo(k)

(* No file is ever seen between two versions: a file has the tables, the    *)
(* statements and the rows of one version, or is the legacy file it was,   *)
(* whoever opens it and dies opening it (migrations.go:67-112).            *)
AlwaysComplete == \A f \in Files : Complete(store[f])

(* A migration is applied to a database that has all before it, and none   *)
(* is executed on one that has its tables (migrations.go:92-99).           *)
AppliedOnce ==
    \A p \in Process : pc[p] = "apply" =>
      \A v \in Version : IsNext(p, v) =>
        /\ v \notin snap[p].done /\ 1..(v - 1) \subseteq snap[p].done
        /\ ~snap[p].legacy

(* Whoever has a database open has every table its statements name, also    *)
(* after others have opened it since (migrations.go:92-111).               *)
UsersFindTheirTables ==
    \A p \in Process : pc[p] = "open" => 1..known[p] \subseteq store[at[p]].done

(* The advice to delete everything is given only for a database of before   *)
(* the migrations (migrations.go:83-91).                                   *)
LegacyIsLegacy ==
    [][\A p \in Process :
         pc'[p] = "legacy" /\ pc[p] # "legacy" => store[at[p]].legacy]_schemaVars

(* Opening looks atomic.  A process whose snapshot already has exactly its  *)
(* migrations is as good as through, whatever others commit meanwhile.     *)
Settled(p) ==
    pc[p] \in InTransaction /\ ~Holds(p) /\ snap[p].marked = 1..known[p]

Atomically == INSTANCE Schema WITH
    schema <- [f \in Files |-> IF store[f].legacy THEN {0} ELSE store[f].marked],
    using <- [p \in Process |->
                IF pc[p] = "open" \/ Settled(p) THEN [file |-> at[p], known |-> known[p]]
                ELSE [file |-> 0, known |-> 0]]
ImplementsSchema == Atomically!Spec

(* Every open comes to an end, however the others are scheduled: nobody     *)
(* waits for a lock of someone who waits (migrations.go:59, 67-79).        *)
EveryOpenEnds == \A p \in Process : pc[p] \in Opening ~> pc[p] \notin Opening
=============================================================================
