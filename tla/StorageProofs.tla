--------------------------- MODULE StorageProofs ---------------------------
(* Theorems about Storage, for any services, commands, zones and bounds.     *)
EXTENDS Storage, MigrationsProofs, SequenceTheorems, FiniteSetTheorems

(* What the service's lock and the runs add only restricts the openers.      *)
LEMMA StepIsSchema == [Next]_vars => [SchemaNext]_schemaVars
  <1> SUFFICES ASSUME [Next]_vars PROVE [SchemaNext]_schemaVars
    OBVIOUS
  <1>1. ASSUME NEW d \in Daemon, StartService(d) \/ EndService(d) PROVE UNCHANGED schemaVars
    BY <1>1 DEF StartService, EndService
  <1>2. ASSUME NEW p \in Process,
               OpenStore(p) \/ MigrateStore(p) \/ FailToOpen(p) \/ CloseStore(p)
        PROVE  SchemaNext
    BY <1>2 DEF OpenStore, MigrateStore, FailToOpen, CloseStore, SchemaNext, Trouble
  <1>3. ASSUME NEW p \in Process, Kill(p) \/ OtherWrite(p) PROVE SchemaNext
    BY <1>3 DEF Kill, OtherWrite, SchemaNext, Trouble
  <1>4. ASSUME NEW p \in Process, RunStep(p) PROVE SchemaNext \/ UNCHANGED schemaVars
    <2>1. CASE StartRun(p)
      BY <2>1 DEF StartRun
    <2>2. CASE RecordRun(p)
      BY <2>2 DEF RecordRun, SchemaNext
    <2>3. CASE LoseRun(p)
      BY <2>3 DEF LoseRun, SchemaNext
    <2> QED BY <1>4, <2>1, <2>2, <2>3 DEF RunStep
  <1>5. CASE Reset \/ EndReset
    BY <1>5 DEF Reset, EndReset
  <1>6. CASE DeleteStore
    BY <1>6 DEF DeleteStore, SchemaNext
  <1>7. CASE UNCHANGED vars
    BY <1>7 DEF vars
  <1> QED BY <1>1, <1>2, <1>3, <1>4, <1>5, <1>6, <1>7 DEF Next

(* Whatever is proved of the openers alone holds of them at work: the lock of *)
(* the service, the runs and `nuke` only restrict them (app/service.go:36-60, *)
(* 189-209).                                                               *)
THEOREM OpenersAreMigrations == Spec => SchemaSpec
  <1>1. Init => SchemaInit
    BY DEF Init
  <1> QED BY <1>1, StepIsSchema, PTL DEF Spec, SchemaSpec

-----------------------------------------------------------------------------
Working(d) == pc[d] \in Opening \cup {"open"}
Keeps(d) == Working(d) => lock = d /\ at[d] = file
Kept == \A d \in Daemon : Keeps(d)

(* A step of p that leaves the lock and the file alone.                      *)
LEMMA OthersKeepTheirs ==
  ASSUME IInv, Kept, NEW p \in Process, file' = file,
         lock' = lock \/ (p \in Daemon /\ lock = p),
         \A q \in Process \ {p} : pc'[q] = pc[q] /\ at'[q] = at[q],
         p \in Daemon => Keeps(p)'
  PROVE  Kept'
  <1> SUFFICES ASSUME NEW d \in Daemon PROVE Keeps(d)'
    BY DEF Kept
  <1>1. CASE d = p
    BY <1>1
  <1>2. CASE d # p
    <2>1. pc'[d] = pc[d] /\ at'[d] = at[d] /\ Keeps(d)
      BY <1>2, RoleAssumption DEF Kept
    <2> QED BY <1>2, <2>1 DEF Keeps, Working
  <1> QED BY <1>1, <1>2

LEMMA NextKept == IInv /\ Kept /\ [Next]_vars => Kept'
  <1> SUFFICES ASSUME IInv, Kept, [Next]_vars PROVE Kept'
    OBVIOUS
  <1> USE RoleAssumption, ProcessAssumption
  <1>1. Typed
    BY DEF IInv
  <1>2. ASSUME UNCHANGED <<pc, at, file>>, \A d \in Daemon : lock = d => lock' = d \/ ~Working(d)
        PROVE  Kept'
    BY <1>2 DEF Kept, Keeps, Working
  <1>3. ASSUME NEW d \in Daemon, StartService(d) PROVE Kept'
    BY <1>2, <1>3 DEF StartService, schemaVars, files, private
  <1>4. ASSUME NEW d \in Daemon, EndService(d) PROVE Kept'
    BY <1>2, <1>4 DEF EndService, schemaVars, files, private, Working, Opening, InTransaction, Ended
  <1>5. ASSUME NEW p \in Process, OpenStore(p) PROVE Kept'
    <2>1. /\ MayOpen(p) /\ lock' = lock /\ file' = file
          /\ \/ pc' = [pc EXCEPT ![p] = "create"] /\ at' = [at EXCEPT ![p] = file]
             \/ pc' = [pc EXCEPT ![p] = "error"] /\ at' = at
      BY <1>5 DEF OpenStore, Open, files, guard
    <2>2. \A q \in Process \ {p} : pc'[q] = pc[q] /\ at'[q] = at[q]
      BY <1>1, <2>1 DEF Typed
    <2>3. pc'[p] = "error" \/ at'[p] = file
      BY <1>1, <2>1 DEF Typed
    <2>4. p \in Daemon => Keeps(p)'
      BY <2>1, <2>3 DEF Keeps, Working, MayOpen, Opening, InTransaction
    <2> QED BY <2>1, <2>2, <2>4, OthersKeepTheirs
  <1>6. ASSUME NEW p \in Process, NEW verdict \in Ended, End(p, verdict),
               lock' = lock \/ (p \in Daemon /\ lock = p)
        PROVE  Kept'
    <2>1. /\ pc' = [pc EXCEPT ![p] = verdict] /\ at' = [at EXCEPT ![p] = 0] /\ file' = file
      BY <1>6 DEF End
    <2>2. pc'[p] = verdict /\ \A q \in Process \ {p} : pc'[q] = pc[q] /\ at'[q] = at[q]
      BY <1>1, <2>1 DEF Typed
    <2>3. ~Working(p)'
      BY <2>2 DEF Working, Opening, InTransaction, Ended
    <2> QED BY <1>6, <2>1, <2>2, <2>3, OthersKeepTheirs DEF Keeps
  <1>7. ASSUME NEW p \in Process, MigrateStore(p) PROVE Kept'
    <2>1. lock' = lock /\ Migrate(p)
      BY <1>7 DEF MigrateStore, guard
    <2>2. CASE RefuseLegacy(p) \/ CannotWrite(p) \/ RejectUnknown(p)
      BY <1>6, <2>1, <2>2 DEF RefuseLegacy, CannotWrite, RejectUnknown, Ended
    <2>3. ASSUME NEW from, NEW to, Goto(p, from, to), from \in Opening, UNCHANGED <<file, at>>
          PROVE  Kept'
      <3>1. \A q \in Process \ {p} : pc'[q] = pc[q]
        BY <1>1, <2>3 DEF Goto, Typed
      <3>2. p \in Daemon => Keeps(p)'
        BY <2>1, <2>3 DEF Kept, Keeps, Working, Goto
      <3> QED BY <2>1, <2>3, <3>1, <3>2, OthersKeepTheirs
    <2>4. CASE Create(p) \/ FindTable(p) \/ FindLocked(p) \/ CreateAfterWait(p)
      BY <2>3, <2>4 DEF Create, FindTable, FindLocked, CreateAfterWait, files, Opening, InTransaction
    <2>5. CASE ReadApplied(p) \/ ApplyMigration(p) \/ Commit(p)
      BY <2>3, <2>5 DEF ReadApplied, ApplyMigration, Commit, files, Opening, InTransaction
    <2> QED BY <2>1, <2>2, <2>4, <2>5 DEF Migrate
  <1>8. ASSUME NEW p \in Process, FailToOpen(p) \/ CloseStore(p) PROVE Kept'
    BY <1>6, <1>8 DEF FailToOpen, CloseStore, TimeOut, CommitFails, Close, Ended, guard
  <1>9. ASSUME NEW p \in Process, Kill(p) PROVE Kept'
    <2>1. End(p, "closed") /\ lock' = IF lock = p THEN Nobody ELSE lock
      BY <1>9 DEF Kill, Die
    <2>2. pc' = [pc EXCEPT ![p] = "closed"] /\ at' = [at EXCEPT ![p] = 0] /\ file' = file
      BY <2>1 DEF End
    <2>3. ASSUME NEW d \in Daemon PROVE Keeps(d)'
      <3>1. CASE d = p
        BY <1>1, <2>2, <3>1 DEF Typed, Keeps, Working, Opening, InTransaction
      <3>2. CASE d # p
        <4>1. pc'[d] = pc[d] /\ at'[d] = at[d] /\ Keeps(d)
          BY <1>1, <2>2, <3>2 DEF Typed, Kept
        <4> QED BY <2>1, <2>2, <3>2, <4>1 DEF Keeps, Working
      <3> QED BY <3>1, <3>2
    <2> QED BY <2>3 DEF Kept
  <1>10. ASSUME NEW p \in Process, OtherWrite(p) \/ RunStep(p) PROVE Kept'
    <2>1. UNCHANGED <<pc, at, file, lock>>
      BY <1>10 DEF OtherWrite, RunStep, StartRun, RecordRun, LoseRun, Write, WriteFails,
        schemaVars, files, private, guard
    <2> QED BY <1>2, <2>1
  <1>11. CASE Reset
    BY <1>2, <1>11 DEF Reset, schemaVars, files, private
  <1>12. CASE DeleteStore
    <2>1. lock = Nuker /\ UNCHANGED <<pc, at>>
      BY <1>12 DEF DeleteStore, RemoveFile, private
    <2> QED BY <2>1 DEF Kept, Keeps, Working
  <1>13. CASE EndReset
    BY <1>2, <1>13 DEF EndReset, schemaVars, files, private
  <1>14. CASE UNCHANGED vars
    BY <1>2, <1>14 DEF vars, schemaVars, files, private, guard
  <1> QED BY <1>3, <1>4, <1>5, <1>7, <1>8, <1>9, <1>10, <1>11, <1>12, <1>13, <1>14 DEF Next

(* A service never has a database open that has lost its name, however often *)
(* `nuke` runs and whoever is killed (app/service.go:36-60, 189-209).       *)
THEOREM DatabaseIsKept == Spec => []ServiceKeepsItsDatabase
  <1>1. Init => Kept
    BY RoleAssumption DEF Init, SchemaInit, Kept, Keeps, Working, Opening, InTransaction
  <1>2. Kept => ServiceKeepsItsDatabase
    BY DEF Kept, Keeps, Working, ServiceKeepsItsDatabase
  <1>3. Spec => []IInv
    BY OpenersAreMigrations, InductiveInvariant
  <1> QED BY <1>1, <1>2, <1>3, NextKept, PTL DEF Spec

-----------------------------------------------------------------------------
(* What the order of the texts the store sorts by says about the instants    *)
(* they stand for (formatTime and the ORDER BY of store/sqlite.go).         *)
LEMMA AddOne ==
    ASSUME NEW a \in Int, NEW b \in Int, NEW c \in Int PROVE <<a, b>> \o <<c>> = <<a, b, c>>
<1>1. <<a, b>> \in Seq(Int) /\ <<c>> \in Seq(Int) /\ <<a, b, c>> \in Seq(Int)
  OBVIOUS
<1>2. Len(<<a, b>> \o <<c>>) = 3 /\ <<a, b>> \o <<c>> \in Seq(Int)
  BY <1>1, ConcatProperties
<1>3. \A i \in 1..3 : (<<a, b>> \o <<c>>)[i] = <<a, b, c>>[i]
  <2>1. \A i \in 1..3 : i = 1 \/ i = 2 \/ i = 3
    OBVIOUS
  <2>. QED
    BY <1>1, <2>1, ConcatProperties
<1>. QED
  BY <1>1, <1>2, <1>3, SeqEqual

LEMMA AddTwo ==
    ASSUME NEW a \in Int, NEW b \in Int, NEW d \in Int, NEW e \in Int
    PROVE  <<a, b>> \o <<d, e>> = <<a, b, d, e>>
<1>1. <<a, b>> \in Seq(Int) /\ <<d, e>> \in Seq(Int) /\ <<a, b, d, e>> \in Seq(Int)
  OBVIOUS
<1>2. Len(<<a, b>> \o <<d, e>>) = 4 /\ <<a, b>> \o <<d, e>> \in Seq(Int)
  BY <1>1, ConcatProperties
<1>3. \A i \in 1..4 : (<<a, b>> \o <<d, e>>)[i] = <<a, b, d, e>>[i]
  <2>1. \A i \in 1..4 : i = 1 \/ i = 2 \/ i = 3 \/ i = 4
    OBVIOUS
  <2>. QED
    BY <1>1, <2>1, ConcatProperties
<1>. QED
  BY <1>1, <1>2, <1>3, SeqEqual

LEMMA AddTwoMore ==
    ASSUME NEW a \in Int, NEW b \in Int, NEW c \in Int, NEW d \in Int, NEW e \in Int
    PROVE  <<a, b, c>> \o <<d, e>> = <<a, b, c, d, e>>
<1>1. <<a, b, c>> \in Seq(Int) /\ <<d, e>> \in Seq(Int) /\ <<a, b, c, d, e>> \in Seq(Int)
  OBVIOUS
<1>2. Len(<<a, b, c>> \o <<d, e>>) = 5 /\ <<a, b, c>> \o <<d, e>> \in Seq(Int)
  BY <1>1, ConcatProperties
<1>3. \A i \in 1..5 : (<<a, b, c>> \o <<d, e>>)[i] = <<a, b, c, d, e>>[i]
  <2>1. \A i \in 1..5 : i = 1 \/ i = 2 \/ i = 3 \/ i = 4 \/ i = 5
    OBVIOUS
  <2>. QED
    BY <1>1, <2>1, ConcatProperties
<1>. QED
  BY <1>1, <1>2, <1>3, SeqEqual

Sign(offset) == IF offset > 0 THEN Plus ELSE Minus
Size(offset) == IF offset > 0 THEN offset ELSE -offset

(* After the seconds comes one of three shapes, when the offset is not zero.  *)
LEMMA Shapes ==
    ASSUME NEW h \in 0..99, NEW offset \in Int, offset # 0
    PROVE  /\ h = 0 => Fraction(h) \o Suffix(offset) = <<Sign(offset), Size(offset)>>
           /\ h # 0 /\ h % 10 = 0 => Fraction(h) \o Suffix(offset) =
                <<Dot, Digit(h \div 10), Sign(offset), Size(offset)>>
           /\ h % 10 # 0 => Fraction(h) \o Suffix(offset) =
                <<Dot, Digit(h \div 10), Digit(h % 10), Sign(offset), Size(offset)>>
<1>1. Suffix(offset) = <<Sign(offset), Size(offset)>>
  BY DEF Suffix, Sign, Size
<1>2. Sign(offset) \in Int /\ Size(offset) \in Int /\ Dot \in Int
  BY DEF Sign, Size, Plus, Minus, Dot
<1>3. Digit(h \div 10) \in Int /\ Digit(h % 10) \in Int
  BY DEF Digit
<1>4. ASSUME h = 0 PROVE Fraction(h) \o Suffix(offset) = <<Sign(offset), Size(offset)>>
  <2>1. Fraction(h) = <<>>
    BY <1>4 DEF Fraction
  <2>2. <<Sign(offset), Size(offset)>> \in Seq(Int)
    BY <1>2
  <2>. QED
    BY <1>1, <2>1, <2>2, ConcatEmptySeq
<1>5. ASSUME h # 0, h % 10 = 0
      PROVE  Fraction(h) \o Suffix(offset)
               = <<Dot, Digit(h \div 10), Sign(offset), Size(offset)>>
  <2>1. <<Dot, Digit(h \div 10)>> \in Seq(Int)
    BY <1>2, <1>3
  <2>2. Fraction(h) = <<Dot, Digit(h \div 10)>>
    BY <1>5, <2>1, ConcatEmptySeq DEF Fraction
  <2>. QED
    BY <1>1, <1>2, <1>3, <2>2, AddTwo
<1>6. ASSUME h % 10 # 0
      PROVE  Fraction(h) \o Suffix(offset)
               = <<Dot, Digit(h \div 10), Digit(h % 10), Sign(offset), Size(offset)>>
  <2>1. h # 0
    BY <1>6
  <2>2. Fraction(h) = <<Dot, Digit(h \div 10)>> \o <<Digit(h % 10)>>
    BY <1>6, <2>1 DEF Fraction
  <2>3. Fraction(h) = <<Dot, Digit(h \div 10), Digit(h % 10)>>
    BY <1>2, <1>3, <2>2, AddOne
  <2>. QED
    BY <1>1, <1>2, <1>3, <2>3, AddTwoMore
<1>. QED
  BY <1>4, <1>5, <1>6

(* Its first entries.                                                       *)
LEMMA Entries ==
    ASSUME NEW h \in 0..99, NEW offset \in Int, offset # 0,
           NEW text, text = Fraction(h) \o Suffix(offset)
    PROVE  /\ 1 \in DOMAIN text /\ text[1] = IF h = 0 THEN Sign(offset) ELSE Dot
           /\ h # 0 =>
                /\ 2 \in DOMAIN text /\ text[2] = Digit(h \div 10)
                /\ 3 \in DOMAIN text
                /\ text[3] = IF h % 10 = 0 THEN Sign(offset) ELSE Digit(h % 10)
<1>1. CASE h = 0
  <2>1. text = <<Sign(offset), Size(offset)>>
    BY <1>1, Shapes
  <2>. QED
    BY <1>1, <2>1
<1>2. CASE h # 0 /\ h % 10 = 0
  <2>1. text = <<Dot, Digit(h \div 10), Sign(offset), Size(offset)>>
    BY <1>2, Shapes
  <2>. QED
    BY <1>2, <2>1
<1>3. CASE h # 0 /\ h % 10 # 0
  <2>1. text = <<Dot, Digit(h \div 10), Digit(h % 10), Sign(offset), Size(offset)>>
    BY <1>3, Shapes
  <2>. QED
    BY <1>3, <2>1
<1>. QED
  BY <1>1, <1>2, <1>3

(* A sign comes before a dot, and both before a digit: so what stops earlier  *)
(* sorts first, and else the first digit that differs decides.              *)
LEMMA EarlierFraction ==
    ASSUME NEW h \in 0..99, NEW k \in 0..99, h < k, NEW offset \in Int, offset # 0,
           NEW s, s = Fraction(h) \o Suffix(offset),
           NEW t, t = Fraction(k) \o Suffix(offset)
    PROVE  Precedes(s, t)
<1>1. /\ Sign(offset) < Dot /\ \A d \in 0..9 : Sign(offset) < Digit(d)
      /\ \A d, e \in 0..9 : d < e => Digit(d) < Digit(e)
  BY DEF Sign, Plus, Minus, Dot, Digit
<1>2. /\ h \div 10 \in 0..9 /\ k \div 10 \in 0..9 /\ h % 10 \in 0..9 /\ k % 10 \in 0..9
      /\ h \div 10 < k \div 10 \/ (h \div 10 = k \div 10 /\ h % 10 < k % 10)
  OBVIOUS
<1>3. /\ 1 \in DOMAIN t /\ t[1] = Dot /\ 2 \in DOMAIN t /\ t[2] = Digit(k \div 10)
      /\ 3 \in DOMAIN t /\ t[3] = IF k % 10 = 0 THEN Sign(offset) ELSE Digit(k % 10)
  <2>1. k # 0
    OBVIOUS
  <2>. QED
    BY <2>1, Entries
<1>4. \E i \in DOMAIN s \cap DOMAIN t : s[i] < t[i] /\ \A j \in 1..(i - 1) : s[j] = t[j]
  <2>1. CASE h = 0
    <3>1. 1 \in DOMAIN s /\ s[1] = Sign(offset)
      BY <2>1, Entries
    <3>2. s[1] < t[1] /\ \A j \in 1..(1 - 1) : s[j] = t[j]
      BY <1>1, <1>3, <3>1
    <3>. QED
      BY <1>3, <3>1, <3>2
  <2>2. CASE h # 0 /\ h \div 10 < k \div 10
    <3>1. 1 \in DOMAIN s /\ s[1] = Dot /\ 2 \in DOMAIN s /\ s[2] = Digit(h \div 10)
      BY <2>2, Entries
    <3>2. s[2] < t[2]
      BY <1>1, <1>2, <1>3, <2>2, <3>1
    <3>3. \A j \in 1..(2 - 1) : s[j] = t[j]
      BY <1>3, <3>1
    <3>. QED
      BY <1>3, <3>1, <3>2, <3>3
  <2>3. CASE h # 0 /\ h \div 10 = k \div 10 /\ h % 10 < k % 10
    <3>1. /\ 1 \in DOMAIN s /\ s[1] = Dot /\ 2 \in DOMAIN s /\ s[2] = Digit(h \div 10)
          /\ 3 \in DOMAIN s /\ s[3] = IF h % 10 = 0 THEN Sign(offset) ELSE Digit(h % 10)
      BY <2>3, Entries
    <3>2. s[3] < t[3]
      <4>1. t[3] = Digit(k % 10)
        BY <1>2, <1>3, <2>3
      <4>2. CASE h % 10 = 0
        BY <1>1, <1>2, <3>1, <4>1, <4>2
      <4>3. CASE h % 10 # 0
        BY <1>1, <1>2, <2>3, <3>1, <4>1, <4>3
      <4>. QED
        BY <4>2, <4>3
    <3>3. \A j \in 1..(3 - 1) : s[j] = t[j]
      <4>1. s[1] = t[1] /\ s[2] = t[2]
        BY <1>3, <2>3, <3>1
      <4>2. \A j \in 1..(3 - 1) : j = 1 \/ j = 2
        OBVIOUS
      <4>. QED
        BY <4>1, <4>2
    <3>. QED
      BY <1>3, <3>1, <3>2, <3>3
  <2>. QED
    BY <1>2, <2>1, <2>2, <2>3
<1>. QED
  BY <1>4 DEF Precedes

(* Of two instants written with the same offset from UTC the one of an       *)
(* earlier second sorts first; when that offset is not zero, the earlier one *)
(* does (sqlite.go:139-143, 235-240).                                      *)
THEOREM TextOrderIsTimeOrder ==
    ASSUME NEW x \in Nat, NEW y \in Nat, NEW offset \in Int,
           \/ x \div 100 < y \div 100
           \/ x < y /\ offset # 0
    PROVE  Before(FormatTime(x, offset), FormatTime(y, offset))
<1>1. CASE x \div 100 < y \div 100
  BY <1>1 DEF Before, FormatTime
<1>2. CASE x < y /\ offset # 0 /\ ~(x \div 100 < y \div 100)
  <2>1. x \div 100 = y \div 100 /\ x % 100 < y % 100
    BY <1>2
  <2>2. x % 100 \in 0..99 /\ y % 100 \in 0..99
    OBVIOUS
  <2>3. Precedes(Fraction(x % 100) \o Suffix(offset), Fraction(y % 100) \o Suffix(offset))
    BY <1>2, <2>1, <2>2, EarlierFraction
  <2>. QED
    BY <2>1, <2>3 DEF Before, FormatTime
<1>. QED
  BY <1>1, <1>2

-----------------------------------------------------------------------------
(* The runs.  A run is known by its number; those in flight have not been      *)
(* recorded, so there is room for them below `begun` (Counts).               *)
Flown == {n \in 1..begun : \E p \in Process : \E run \in flying[p] : run.number = n}

Stamped(row) ==
    /\ row.started \in Nat
    /\ \E offset \in Int : row.text = FormatTime(row.started, offset)

RunTypes ==
    /\ now \in DOMAIN Moment /\ zone \in Zones /\ begun \in 0..MaxRuns
    /\ flying \in [Process -> SUBSET Run] /\ rows = [f \in Files |-> rows[f]]

Launched == \A p \in Process : \A run \in flying[p] :
    run.number <= begun /\ \E m \in DOMAIN Moment : run.started = Moment[m]

Numbered == \A p, q \in Process : \A run \in flying[p], other \in flying[q] :
    run.number = other.number => p = q /\ run = other

Counts == \A f \in Files :
    IsFiniteSet(rows[f]) /\ Cardinality(rows[f]) + Cardinality(Flown) <= begun

Texts == \A f \in Files : \A row \in rows[f] : Stamped(row)

RunsInv == RunTypes /\ Launched /\ Numbered /\ Counts /\ Texts

LEMMA FlownFinite == ASSUME RunTypes PROVE IsFiniteSet(Flown) /\ Cardinality(Flown) \in Nat
  <1>1. IsFiniteSet(1..begun)
    <2>1. 1 \in Int /\ begun \in Int
      BY RunAssumption DEF RunTypes
    <2> QED BY <2>1, FS_Interval
  <1>2. Flown \in SUBSET (1..begun)
    BY DEF Flown
  <1>3. IsFiniteSet(Flown)
    BY <1>1, <1>2, FS_Subset
  <1> QED BY <1>3, FS_CardinalityType

(* A run that is no longer in flight: the process died, or the insert failed. *)
LEMMA FewerFly ==
  ASSUME RunsInv, UNCHANGED <<now, zone, rows, begun>>, flying' \in [Process -> SUBSET Run],
         \A p \in Process : flying'[p] \subseteq flying[p]
  PROVE  RunsInv'
  <1>1. RunTypes' /\ Launched' /\ Numbered' /\ Texts'
    BY DEF RunsInv, RunTypes, Launched, Numbered, Texts
  <1>2. Flown' \in SUBSET Flown
    BY DEF Flown
  <1>3. Cardinality(Flown') <= Cardinality(Flown) /\ Cardinality(Flown') \in Nat
    BY <1>2, FlownFinite, FS_Subset, FS_CardinalityType DEF RunsInv
  <1>4. Counts'
    <2>1. \A f \in Files : IsFiniteSet(rows[f]) /\ Cardinality(rows[f]) \in Nat
        BY FS_CardinalityType DEF RunsInv, Counts
    <2>2. begun \in Int
      BY RunAssumption DEF RunsInv, RunTypes
    <2> QED BY <1>3, <2>1, <2>2, FlownFinite DEF RunsInv, Counts
  <1> QED BY <1>1, <1>4 DEF RunsInv

(* The number of a run that starts is new.                                  *)
LEMMA StartKeepsRuns == ASSUME RunsInv, NEW p \in Process, StartRun(p) PROVE RunsInv'
  <1> USE RunAssumption, ClockAssumption
  <1>1. /\ begun' = begun + 1 /\ begun < MaxRuns /\ begun \in Nat /\ UNCHANGED <<zone, rows>>
        /\ now' \in DOMAIN Moment
    BY DEF StartRun, RunsInv, RunTypes
  <1>2. PICK run : /\ flying' = [flying EXCEPT ![p] = @ \cup {run}] /\ run \in Run
                   /\ run.started = Moment[now'] /\ run.number = begun'
    <2>1. PICK t \in Task : flying' = [flying EXCEPT ![p] = @ \cup
                       {[task |-> t, started |-> Moment[now'], number |-> begun']}]
      BY DEF StartRun
    <2>2. Moment[now'] \in Nat /\ begun' \in 1..MaxRuns
      BY <1>1
    <2> DEFINE new == [task |-> t, started |-> Moment[now'], number |-> begun']
    <2>3. new \in Run /\ new.started = Moment[now'] /\ new.number = begun'
      BY <2>2 DEF Run
    <2>4. flying' = [flying EXCEPT ![p] = @ \cup {new}]
      BY <2>1
    <2> HIDE DEF new
    <2> QED BY <2>3, <2>4
  <1>3. /\ flying' \in [Process -> SUBSET Run] /\ flying'[p] = flying[p] \cup {run}
        /\ \A q \in Process \ {p} : flying'[q] = flying[q]
    BY <1>2 DEF RunsInv, RunTypes
  <1>4. RunTypes' /\ Texts'
    <2>1. begun' \in 0..MaxRuns
      BY <1>1
    <2> QED BY <1>1, <1>3, <2>1 DEF RunsInv, RunTypes, Texts
  <1>5. \A q \in Process : \A other \in flying[q] : other.number \in 1..MaxRuns /\ other.number < begun'
    BY <1>1 DEF RunsInv, RunTypes, Launched, Run
  <1>6. \A q \in Process : \A other \in flying'[q] :
          other \in flying[q] \/ (q = p /\ other = run)
    BY <1>3
  <1>7. Launched'
    <2>1. \A q \in Process : \A other \in flying'[q] : other.number <= begun'
      BY <1>1, <1>2, <1>5, <1>6
    <2>2. \A q \in Process : \A other \in flying'[q] :
            \E m \in DOMAIN Moment : other.started = Moment[m]
      BY <1>1, <1>2, <1>6 DEF RunsInv, Launched
    <2> QED BY <2>1, <2>2 DEF Launched
  <1>8. Numbered'
    BY <1>1, <1>2, <1>5, <1>6 DEF RunsInv, Numbered
  <1>9. Counts'
    <2>1. Flown' = Flown \cup {begun'}
      <3>1. \A n \in 1..begun' : n # begun' => n \in 1..begun
        BY <1>1
      <3>2. \A n \in 1..begun : n \in 1..begun' /\ n # begun'
        BY <1>1
      <3>3. begun' \in 1..begun'
        BY <1>1
      <3> QED BY <1>2, <1>3, <1>6, <3>1, <3>2, <3>3 DEF Flown
    <2>2. Cardinality(Flown') <= Cardinality(Flown) + 1 /\ Cardinality(Flown') \in Nat
      <3>1. IsFiniteSet(Flown) /\ Cardinality(Flown) \in Nat
        BY FlownFinite DEF RunsInv
      <3>2. Cardinality(Flown \cup {begun'}) \in {Cardinality(Flown), Cardinality(Flown) + 1}
        BY <3>1, FS_AddElement
      <3> QED BY <2>1, <3>1, <3>2
    <2>3. \A f \in Files : IsFiniteSet(rows[f]) /\ Cardinality(rows[f]) \in Nat
      BY FS_CardinalityType DEF RunsInv, Counts
    <2> QED BY <1>1, <2>2, <2>3, FlownFinite DEF RunsInv, Counts
  <1> QED BY <1>4, <1>7, <1>8, <1>9 DEF RunsInv

(* A run that is recorded makes place for its row.                          *)
LEMMA RecordKeepsRuns ==
  ASSUME IInv, RunsInv, NEW p \in Process, RecordRun(p) PROVE RunsInv'
  <1> USE RunAssumption, ClockAssumption
  <1>1. PICK run \in flying[p] :
          /\ flying' = [flying EXCEPT ![p] = @ \ {run}]
          /\ rows' = [rows EXCEPT ![at[p]] = @ \cup {Row(p, run)}]
          /\ UNCHANGED <<now, zone, begun>>
    BY DEF RecordRun
  <1>2. at[p] \in Files /\ begun \in Nat
    BY DEF IInv, Typed, RunsInv, RunTypes
  <1>3. /\ flying' \in [Process -> SUBSET Run] /\ flying'[p] = flying[p] \ {run}
        /\ \A q \in Process \ {p} : flying'[q] = flying[q]
    BY <1>1 DEF RunsInv, RunTypes
  <1>4. /\ rows' = [f \in Files |-> rows'[f]]
        /\ rows'[at[p]] = rows[at[p]] \cup {Row(p, run)}
        /\ \A f \in Files \ {at[p]} : rows'[f] = rows[f]
    BY <1>1, <1>2 DEF RunsInv, RunTypes
  <1>5. RunTypes' /\ Launched' /\ Numbered'
    BY <1>1, <1>3, <1>4 DEF RunsInv, RunTypes, Launched, Numbered
  <1>6. Texts'
    <2>1. PICK m \in DOMAIN Moment : run.started = Moment[m]
      BY DEF RunsInv, Launched
    <2>2. run.started \in Nat /\ zone[p][run.started] \in Int
      BY <2>1 DEF RunsInv, RunTypes
    <2>3. /\ Row(p, run).started = run.started
          /\ Row(p, run).text = FormatTime(run.started, zone[p][run.started])
      BY DEF Row
    <2>4. Stamped(Row(p, run))
      BY <2>2, <2>3 DEF Stamped
    <2> QED BY <1>4, <2>4 DEF RunsInv, Texts
  <1>7. Counts'
    <2>1. run.number \in 1..begun /\ run.number \in Flown
      BY <1>2 DEF RunsInv, RunTypes, Launched, Flown, Run
    <2>2. Flown' = Flown \ {run.number}
      <3>1. \A q \in Process : \A other \in flying'[q] :
              other \in flying[q] /\ other.number # run.number
        BY <1>3 DEF RunsInv, Numbered
      <3>2. \A q \in Process : \A other \in flying[q] :
              other.number # run.number => other \in flying'[q]
        BY <1>3
      <3> QED BY <1>1, <3>1, <3>2 DEF Flown
    <2>3. Cardinality(Flown') = Cardinality(Flown) - 1 /\ Cardinality(Flown') \in Nat
      BY <2>1, <2>2, FlownFinite, FS_RemoveElement, FS_CardinalityType DEF RunsInv
    <2>4. \A f \in Files : IsFiniteSet(rows[f]) /\ Cardinality(rows[f]) \in Nat
      BY FS_CardinalityType DEF RunsInv, Counts
    <2>5. /\ IsFiniteSet(rows'[at[p]]) /\ Cardinality(rows'[at[p]]) \in Nat
          /\ Cardinality(rows'[at[p]]) <= Cardinality(rows[at[p]]) + 1
      <3>1. IsFiniteSet(rows[at[p]]) /\ Cardinality(rows[at[p]]) \in Nat
        BY <1>2, <2>4
      <3>2. /\ IsFiniteSet(rows[at[p]] \cup {Row(p, run)})
            /\ Cardinality(rows[at[p]] \cup {Row(p, run)})
                 \in {Cardinality(rows[at[p]]), Cardinality(rows[at[p]]) + 1}
        BY <3>1, FS_AddElement
      <3> QED BY <1>4, <3>1, <3>2
    <2>6. ASSUME NEW f \in Files
          PROVE  IsFiniteSet(rows'[f]) /\ Cardinality(rows'[f]) + Cardinality(Flown') <= begun
      <3>1. Cardinality(rows[f]) + Cardinality(Flown) <= begun
        BY DEF RunsInv, Counts
      <3>2. CASE f = at[p]
        BY <1>2, <2>3, <2>4, <2>5, <3>1, <3>2, FlownFinite DEF RunsInv
      <3>3. CASE f # at[p]
        BY <1>2, <1>4, <2>3, <2>4, <3>1, <3>3, FlownFinite DEF RunsInv
      <3> QED BY <3>2, <3>3
    <2> QED BY <1>1, <2>6 DEF Counts
  <1> QED BY <1>5, <1>6, <1>7 DEF RunsInv

LEMMA NextKeepsRuns == IInv /\ RunsInv /\ [Next]_vars => RunsInv'
  <1> SUFFICES ASSUME IInv, RunsInv, [Next]_vars PROVE RunsInv'
    OBVIOUS
  <1>1. CASE UNCHANGED runs
    BY <1>1 DEF runs, RunsInv, RunTypes, Launched, Numbered, Counts, Texts, Flown
  <1>2. ASSUME NEW p \in Process, StartRun(p) PROVE RunsInv'
    BY <1>2, StartKeepsRuns
  <1>3. ASSUME NEW p \in Process, RecordRun(p) PROVE RunsInv'
    BY <1>3, RecordKeepsRuns
  <1>4. ASSUME NEW p \in Process, NEW lost, flying' = [flying EXCEPT ![p] = @ \ lost],
               UNCHANGED <<now, zone, rows, begun>>
        PROVE  RunsInv'
    <2>1. flying' \in [Process -> SUBSET Run] /\ \A q \in Process : flying'[q] \subseteq flying[q]
      BY <1>4 DEF RunsInv, RunTypes
    <2> QED BY <1>4, <2>1, FewerFly
  <1>5. ASSUME NEW p \in Process, LoseRun(p) PROVE RunsInv'
    BY <1>4, <1>5 DEF LoseRun
  <1>6. ASSUME NEW p \in Process, Kill(p) PROVE RunsInv'
    <2>1. flying' = [flying EXCEPT ![p] = @ \ flying[p]] /\ UNCHANGED <<now, zone, rows, begun>>
      BY <1>6 DEF Kill, RunsInv, RunTypes
    <2> QED BY <1>4, <2>1
  <1>7. \/ UNCHANGED runs
        \/ \E p \in Process : StartRun(p) \/ RecordRun(p) \/ LoseRun(p) \/ Kill(p)
    BY DEF Next, RunStep, StartService, EndService, OpenStore, MigrateStore, FailToOpen,
      CloseStore, OtherWrite, Reset, DeleteStore, EndReset, vars
  <1> QED BY <1>1, <1>2, <1>3, <1>5, <1>6, <1>7

LEMMA InitRuns == Init => RunsInv
  <1> SUFFICES ASSUME Init PROVE RunsInv
    OBVIOUS
  <1> USE RunAssumption, ClockAssumption
  <1>1. RunTypes /\ Launched /\ Numbered /\ Texts
    BY DEF Init, RunTypes, Launched, Numbered, Texts
  <1>2. Flown = {} /\ begun = 0 /\ \A f \in Files : rows[f] = {}
    BY DEF Init, Flown
  <1>3. Counts
    BY <1>2, FS_EmptySet DEF Counts
  <1> QED BY <1>1, <1>3 DEF RunsInv

LEMMA StampedText ==
    ASSUME NEW row, Stamped(row)
    PROVE  /\ row.started \in Nat /\ OffsetOf(row) \in Int
           /\ row.text = FormatTime(row.started, OffsetOf(row))
           /\ row.text.seconds = row.started \div 100 + OffsetOf(row)
<1>1. PICK offset \in Int : row.text = FormatTime(row.started, offset)
  BY DEF Stamped
<1>2. OffsetOf(row) = offset /\ row.started \in Nat
  BY <1>1 DEF OffsetOf, FormatTime, Stamped
<1>3. row.text.seconds = row.started \div 100 + offset
  BY <1>1 DEF FormatTime
<1>. QED
  BY <1>1, <1>2, <1>3

(* When two runs of a task were written with the same offset from UTC, `list` *)
(* does not prefer the one of an earlier second; nor the earlier one at all, *)
(* where the offset is not zero (sqlite.go:139-143, 235-240).               *)
THEOREM LatestIsShown == Spec => []LatestAtOneOffset
  <1>1. IInv /\ RunsInv => LatestAtOneOffset
    <2> SUFFICES ASSUME RunsInv, file \in Files, NEW t \in Task,
                        NEW last \in LastRun(t), NEW row \in RowsOf(t),
                        OffsetOf(row) = OffsetOf(last)
                 PROVE  /\ row.started \div 100 <= last.started \div 100
                        /\ OffsetOf(last) # 0 => row.started <= last.started
      BY DEF IInv, Typed, LatestAtOneOffset
    <2>1. Stamped(row) /\ Stamped(last) /\ ~Before(last.text, row.text)
      BY DEF RunsInv, Texts, LastRun, RowsOf
    <2>2. \A r : Stamped(r) => /\ r.started \in Nat /\ OffsetOf(r) \in Int
                               /\ r.text = FormatTime(r.started, OffsetOf(r))
      BY StampedText
    <2>3. /\ row.started \in Nat /\ last.started \in Nat /\ OffsetOf(last) \in Int
          /\ row.text = FormatTime(row.started, OffsetOf(last))
          /\ last.text = FormatTime(last.started, OffsetOf(last))
      BY <2>1, <2>2
    <2>4. ~(\/ last.started \div 100 < row.started \div 100
            \/ last.started < row.started /\ OffsetOf(last) # 0)
      BY <2>1, <2>3, TextOrderIsTimeOrder
    <2> QED BY <2>3, <2>4
  <1>2. Spec => []IInv
    BY OpenersAreMigrations, InductiveInvariant
  <1> QED BY <1>1, <1>2, InitRuns, NextKeepsRuns, PTL DEF Spec

(* In whatever zones they were written, the run `list` shows is behind no     *)
(* other by more than a second and what their clocks were apart              *)
(* (sqlite.go:139-143, 235-240).                                            *)
THEOREM NotFarBehind == Spec => []LatestWithinOffsets
<1>1. IInv /\ RunsInv => LatestWithinOffsets
  <2> SUFFICES ASSUME RunsInv, file \in Files, NEW t \in Task,
                      NEW last \in LastRun(t), NEW row \in RowsOf(t)
               PROVE  row.started < last.started + 100 * (OffsetOf(last) - OffsetOf(row) + 1)
    BY DEF IInv, Typed, LatestWithinOffsets
  <2>1. Stamped(row) /\ Stamped(last) /\ ~Before(last.text, row.text)
    BY DEF RunsInv, Texts, LastRun, RowsOf
  <2>2. /\ row.started \in Nat /\ OffsetOf(row) \in Int
        /\ last.started \in Nat /\ OffsetOf(last) \in Int
        /\ row.text.seconds = row.started \div 100 + OffsetOf(row)
        /\ last.text.seconds = last.started \div 100 + OffsetOf(last)
    BY <2>1, StampedText
  <2>3. ~(last.text.seconds < row.text.seconds)
    BY <2>1 DEF Before
  <2>4. /\ row.started < 100 * (row.started \div 100) + 100
        /\ 100 * (last.started \div 100) <= last.started
    BY <2>2
  <2>. QED
    BY <2>2, <2>3, <2>4
<1>2. Spec => []IInv
  BY OpenersAreMigrations, InductiveInvariant
<1>. QED
  BY <1>1, <1>2, InitRuns, NextKeepsRuns, PTL DEF Spec

-----------------------------------------------------------------------------
LockTypes == lock \in Process \cup {Nobody, Nuker} /\ deleted \in {FALSE, lock = Nuker}

LEMMA NextLockTypes == LockTypes /\ [Next]_vars => LockTypes'
  <1> SUFFICES ASSUME LockTypes, [Next]_vars PROVE LockTypes'
    OBVIOUS
  <1> USE RoleAssumption, ProcessAssumption DEF LockTypes
  <1>1. ASSUME NEW d \in Daemon, StartService(d) \/ EndService(d) PROVE LockTypes'
    BY <1>1 DEF StartService, EndService
  <1>2. ASSUME NEW p \in Process, Kill(p) PROVE LockTypes'
    BY <1>2 DEF Kill
  <1>3. CASE Reset \/ DeleteStore \/ EndReset
    BY <1>3 DEF Reset, DeleteStore, EndReset
  <1>4. CASE UNCHANGED guard
    BY <1>4 DEF guard
  <1>5. \/ UNCHANGED guard
        \/ \E d \in Daemon : StartService(d) \/ EndService(d)
        \/ \E p \in Process : Kill(p)
        \/ Reset \/ DeleteStore \/ EndReset
    BY DEF Next, RunStep, StartRun, RecordRun, LoseRun, OpenStore, MigrateStore, FailToOpen,
      CloseStore, OtherWrite, vars
  <1> QED BY <1>1, <1>2, <1>3, <1>4, <1>5

(* Every variable keeps its type, and no file has more rows than runs were    *)
(* started: none is recorded twice (runner.go:28-46, sqlite.go:156-169).    *)
THEOREM StorageTypes == Spec => []TypeOK
  <1>1. Init => LockTypes
    BY DEF Init, LockTypes
  <1>2. SchemaTypeOK /\ LockTypes /\ RunsInv => TypeOK
    <2> SUFFICES ASSUME SchemaTypeOK, LockTypes, RunsInv PROVE TypeOK
      OBVIOUS
    <2>1. ASSUME NEW f \in Files PROVE Cardinality(rows[f]) <= begun
      <3>1. /\ Cardinality(rows[f]) + Cardinality(Flown) <= begun
            /\ Cardinality(rows[f]) \in Nat /\ Cardinality(Flown) \in Nat
        BY FlownFinite, FS_CardinalityType DEF RunsInv, Counts
      <3>2. begun \in Int
        BY RunAssumption DEF RunsInv, RunTypes
      <3> QED BY <3>1, <3>2
    <2> QED BY <2>1 DEF TypeOK, LockTypes, RunsInv, RunTypes
  <1>3. Spec => []SchemaTypeOK
    BY OpenersAreMigrations, TypeCorrect
  <1>4. Spec => []IInv
    BY OpenersAreMigrations, InductiveInvariant
  <1> QED BY <1>1, <1>2, <1>3, <1>4, NextLockTypes, InitRuns, NextKeepsRuns, PTL DEF Spec
=============================================================================
