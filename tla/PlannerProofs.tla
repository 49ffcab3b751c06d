---------------------------- MODULE PlannerProofs ----------------------------
(* Proofs about Planner, for every zone, schedule, bound and way to cut time  *)
(* into ticks.                                                              *)
(*                                                                         *)
(* That no instant comes twice or late holds in every zone: each call keeps   *)
(* to its half-open range and sorts what it found.  That none is missing and *)
(* none is added needs a zone in which the dates grow with time and every   *)
(* date has its midnight: the loop over the dates steps from one midnight   *)
(* to the next.                                                             *)
EXTENDS Planner, FiniteSetTheorems, SequenceTheorems, TLAPS

-----------------------------------------------------------------------------
(* Sorting.  Of a finite set of instants there is one with any number of      *)
(* others before it, less than there are: the numbers differ, and there are *)
(* as many as instants.                                                     *)
Below(S, u) == {v \in S : v < u}

LEMMA BelowBounds ==
    ASSUME NEW S, IsFiniteSet(S), S \subseteq Int, NEW u \in S
    PROVE  /\ Cardinality(S) \in Nat /\ Cardinality(Below(S, u)) \in Nat
           /\ Cardinality(Below(S, u)) < Cardinality(S)
<1>1. IsFiniteSet(S \ {u}) /\ Cardinality(S \ {u}) = Cardinality(S) - 1
  BY FS_RemoveElement
<1>2. Below(S, u) \in SUBSET (S \ {u})
  BY DEF Below
<1>3. IsFiniteSet(Below(S, u)) /\ Cardinality(Below(S, u)) <= Cardinality(S \ {u})
  BY <1>1, <1>2, FS_Subset
<1>4. Cardinality(S) \in Nat /\ Cardinality(Below(S, u)) \in Nat
  BY <1>3, FS_CardinalityType
<1>. QED
  BY <1>1, <1>3, <1>4

LEMMA BelowGrows ==
    ASSUME NEW S, IsFiniteSet(S), S \subseteq Int, NEW u \in S, NEW v \in S, u < v
    PROVE  Cardinality(Below(S, u)) < Cardinality(Below(S, v))
<1>1. Below(S, v) \in SUBSET S /\ Below(S, v) \subseteq Int
  BY DEF Below
<1>2. IsFiniteSet(Below(S, v))
  BY <1>1, FS_Subset
<1>3. u \in Below(S, v)
  BY DEF Below
<1>4. /\ IsFiniteSet(Below(S, v) \ {u})
      /\ Cardinality(Below(S, v) \ {u}) = Cardinality(Below(S, v)) - 1
  BY <1>2, <1>3, FS_RemoveElement
<1>5. Below(S, u) \in SUBSET (Below(S, v) \ {u})
  <2>1. ASSUME NEW w \in Below(S, u) PROVE w \in Below(S, v) \ {u}
    <3>1. w \in S /\ w \in Int /\ u \in Int /\ v \in Int /\ w < u
      BY DEF Below
    <3>. QED
      BY <3>1 DEF Below
  <2>. QED
    BY <2>1
<1>6. IsFiniteSet(Below(S, u)) /\ Cardinality(Below(S, u)) <= Cardinality(Below(S, v) \ {u})
  BY <1>4, <1>5, FS_Subset
<1>7. Cardinality(Below(S, u)) \in Nat /\ Cardinality(Below(S, v)) \in Nat
  BY <1>2, <1>6, FS_CardinalityType
<1>. QED
  BY <1>4, <1>6, <1>7

LEMMA Ranked ==
    ASSUME NEW S, IsFiniteSet(S), S \subseteq Int, NEW k \in 0..(Cardinality(S) - 1)
    PROVE  \E u \in S : Cardinality(Below(S, u)) = k
<1> DEFINE n == Cardinality(S)
           rank == [u \in S |-> Cardinality(Below(S, u))]
           R == 0..(n - 1)
<1>1. n \in Nat
  BY FS_CardinalityType
<1>2. IsFiniteSet(R) /\ Cardinality(R) = n
  <2>1. 0 \in Int /\ n - 1 \in Int
    BY <1>1
  <2>2. IsFiniteSet(R) /\ Cardinality(R) = IF 0 > n - 1 THEN 0 ELSE n - 1 - 0 + 1
    BY <2>1, FS_Interval
  <2>. QED
    BY <1>1, <2>2
<1>3. rank \in [S -> R]
  <2>1. ASSUME NEW u \in S PROVE Cardinality(Below(S, u)) \in R
    <3>1. Cardinality(Below(S, u)) \in Nat /\ Cardinality(Below(S, u)) < n
      BY BelowBounds
    <3>. QED
      BY <1>1, <3>1
  <2>. QED
    BY <2>1
<1>4. \A u, v \in S : rank[u] = rank[v] => u = v
  <2> SUFFICES ASSUME NEW u \in S, NEW v \in S, u # v
               PROVE  Cardinality(Below(S, u)) # Cardinality(Below(S, v))
    OBVIOUS
  <2>1. u < v \/ v < u
    OBVIOUS
  <2>2. Cardinality(Below(S, u)) \in Nat /\ Cardinality(Below(S, v)) \in Nat
    BY BelowBounds
  <2>. QED
    <3>1. CASE u < v
      <4>1. Cardinality(Below(S, u)) < Cardinality(Below(S, v))
        BY <3>1, BelowGrows
      <4>. QED
        BY <2>2, <4>1
    <3>2. CASE v < u
      <4>1. Cardinality(Below(S, v)) < Cardinality(Below(S, u))
        BY <3>2, BelowGrows
      <4>. QED
        BY <2>2, <4>1
    <3>. QED
      BY <2>1, <3>1, <3>2
<1>5. rank \in Injection(S, R)
  BY <1>3, <1>4 DEF Injection, IsInjective
<1>6. rank \in Surjection(S, R)
  BY <1>2, <1>5, FS_Injection
<1>. QED
  BY <1>6 DEF Surjection

(* So the sort puts everything it is given in order, and leaves nothing out.  *)
LEMMA SortedSorts ==
    ASSUME NEW S, IsFiniteSet(S), S \subseteq Int
    PROVE  /\ Sorted(S) \in Seq(S) /\ ToSet(Sorted(S)) = S
           /\ \A i, j \in 1..Len(Sorted(S)) : i < j => Sorted(S)[i] < Sorted(S)[j]
<1> DEFINE n == Cardinality(S)
           s == Sorted(S)
           pick(i) == CHOOSE u \in S : Cardinality({v \in S : v < u}) = i - 1
<1>1. n \in Nat
  BY FS_CardinalityType
<1>2. ASSUME NEW i \in 1..n
      PROVE  pick(i) \in S /\ Cardinality(Below(S, pick(i))) = i - 1
  <2>1. i - 1 \in 0..(n - 1)
    BY <1>1
  <2>2. \E u \in S : Cardinality({v \in S : v < u}) = i - 1
    BY <2>1, Ranked DEF Below
  <2>. QED
    BY <2>2 DEF Below
<1>3. s = [i \in 1..n |-> pick(i)]
  BY DEF Sorted
<1> HIDE DEF s, pick
<1>4. s \in Seq(S) /\ Len(s) = n /\ \A i \in 1..n : s[i] = pick(i)
  <2>1. s \in [1..n -> S]
    BY <1>2, <1>3
  <2>. QED
    BY <1>1, <1>3, <2>1
<1>5. ASSUME NEW i \in 1..n, NEW j \in 1..n, i < j PROVE s[i] < s[j]
  <2>1. s[i] \in S /\ s[j] \in S /\ s[i] \in Int /\ s[j] \in Int
    BY <1>2, <1>4
  <2>2. Cardinality(Below(S, s[i])) = i - 1 /\ Cardinality(Below(S, s[j])) = j - 1
    BY <1>2, <1>4
  <2>3. s[j] # s[i]
    BY <1>5, <2>2
  <2>4. ~(s[j] < s[i])
    <3> SUFFICES ASSUME s[j] < s[i] PROVE FALSE
      OBVIOUS
    <3>1. Cardinality(Below(S, s[j])) < Cardinality(Below(S, s[i]))
      BY <2>1, BelowGrows
    <3>. QED
      BY <1>1, <1>5, <2>2, <3>1
  <2>. QED
    BY <2>1, <2>3, <2>4
<1>6. ASSUME NEW u \in S PROVE \E i \in 1..n : s[i] = u
  <2>1. PICK k \in Nat : k = Cardinality(Below(S, u)) /\ k < n
    BY BelowBounds
  <2>2. k + 1 \in 1..n /\ k + 1 - 1 = k
    BY <1>1, <2>1
  <2>3. s[k + 1] \in S /\ Cardinality(Below(S, s[k + 1])) = k
    BY <1>2, <1>4, <2>2
  <2>4. ~(s[k + 1] < u) /\ ~(u < s[k + 1])
    <3>1. s[k + 1] < u => k < k
      BY <2>1, <2>3, BelowGrows
    <3>2. u < s[k + 1] => k < k
      BY <2>1, <2>3, BelowGrows
    <3>. QED
      BY <3>1, <3>2
  <2>5. s[k + 1] \in Int /\ u \in Int
    BY <2>3
  <2>. QED
    BY <2>2, <2>4, <2>5
<1>7. ToSet(s) = S
  <2>1. DOMAIN s = 1..n
    BY <1>4
  <2>. QED
    BY <1>2, <1>4, <1>6, <2>1 DEF ToSet
<1>. QED
  BY <1>4, <1>5, <1>7 DEF s

LEMMA LeastIsThere ==
    ASSUME NEW S, IsFiniteSet(S), S \subseteq Int, S # {}
    PROVE  Min(S) \in S /\ \A v \in S : Min(S) <= v
<1>1. Cardinality(S) \in Nat /\ Cardinality(S) # 0
  BY FS_CardinalityType, FS_EmptySet
<1>2. 0 \in 0..(Cardinality(S) - 1)
  BY <1>1
<1>3. PICK u \in S : Cardinality(Below(S, u)) = 0
  BY <1>2, Ranked
<1>4. Below(S, u) \in SUBSET S
  BY DEF Below
<1>5. Below(S, u) = {}
  BY <1>3, <1>4, FS_Subset, FS_EmptySet
<1>6. \A v \in S : u <= v
  BY <1>5 DEF Below
<1>. QED
  BY <1>6 DEF Min

(* Two results, one after the other.                                        *)
LEMMA Joined ==
    ASSUME NEW s \in Seq(Int), NEW t \in Seq(Int)
    PROVE  /\ Len(s) \in Nat /\ Len(t) \in Nat
           /\ s \o t \in Seq(Int) /\ Len(s \o t) = Len(s) + Len(t)
           /\ \A i \in 1..Len(s) : (s \o t)[i] = s[i]
           /\ \A k \in 1..Len(t) : (s \o t)[Len(s) + k] = t[k]
           /\ \A i \in 1..(Len(s) + Len(t)) :
                 i \in 1..Len(s) \/ \E k \in 1..Len(t) : i = Len(s) + k
<1> DEFINE n == Len(s)
           m == Len(t)
           r == s \o t
<1>1. n \in Nat /\ m \in Nat
  BY LenProperties
<1>2. /\ r \in Seq(Int) /\ Len(r) = n + m
      /\ \A i \in 1..(n + m) : r[i] = IF i <= n THEN s[i] ELSE t[i - n]
  BY <1>1, ConcatProperties
<1> HIDE DEF n, m, r
<1>3. ASSUME NEW i \in 1..n PROVE r[i] = s[i]
  <2>1. i \in 1..(n + m) /\ i <= n
    BY <1>1
  <2>. QED
    BY <1>2, <2>1
<1>4. ASSUME NEW k \in 1..m PROVE r[n + k] = t[k]
  <2> DEFINE i == n + k
  <2>1. i \in 1..(n + m) /\ ~(i <= n) /\ i - n = k
    BY <1>1
  <2> HIDE DEF i
  <2>2. r[i] = t[i - n]
    BY <1>2, <2>1
  <2>. QED
    BY <2>1, <2>2 DEF i
<1>5. ASSUME NEW i \in 1..(n + m) PROVE i \in 1..n \/ \E k \in 1..m : i = n + k
  <2>1. i \in 1..n \/ (i - n \in 1..m /\ i = n + (i - n))
    BY <1>1
  <2>. QED
    BY <2>1
<1>. QED
  BY <1>1, <1>2, <1>3, <1>4, <1>5 DEF n, m, r

LEMMA JoinedSets ==
    ASSUME NEW s \in Seq(Int), NEW t \in Seq(Int)
    PROVE  ToSet(s \o t) = ToSet(s) \cup ToSet(t)
<1> DEFINE n == Len(s)
           m == Len(t)
           r == s \o t
<1>1. /\ n \in Nat /\ m \in Nat /\ Len(r) = n + m
      /\ \A i \in 1..n : r[i] = s[i]
      /\ \A k \in 1..m : r[n + k] = t[k]
      /\ \A i \in 1..(n + m) : i \in 1..n \/ \E k \in 1..m : i = n + k
  BY Joined
<1>2. DOMAIN s = 1..n /\ DOMAIN t = 1..m /\ DOMAIN r = 1..(n + m)
  <2>1. r \in Seq(Int)
    BY Joined
  <2>. QED
    BY <1>1, <2>1, LenProperties
<1> HIDE DEF n, m, r
<1>3. ASSUME NEW i \in 1..(n + m) PROVE r[i] \in ToSet(s) \cup ToSet(t)
  <2>1. i \in 1..n => r[i] = s[i] /\ s[i] \in ToSet(s)
    BY <1>1, <1>2 DEF ToSet
  <2>2. ASSUME NEW k \in 1..m, i = n + k PROVE r[i] = t[k] /\ t[k] \in ToSet(t)
    BY <1>1, <1>2, <2>2 DEF ToSet
  <2>. QED
    BY <1>1, <2>1, <2>2
<1>4. ASSUME NEW i \in 1..n PROVE s[i] \in ToSet(r)
  <2>1. i \in DOMAIN r /\ r[i] = s[i]
    BY <1>1, <1>2
  <2>. QED
    BY <2>1 DEF ToSet
<1>5. ASSUME NEW k \in 1..m PROVE t[k] \in ToSet(r)
  <2>1. n + k \in DOMAIN r /\ r[n + k] = t[k]
    BY <1>1, <1>2
  <2>. QED
    BY <2>1 DEF ToSet
<1>6. ToSet(r) \subseteq ToSet(s) \cup ToSet(t)
  BY <1>2, <1>3 DEF ToSet
<1>7. ToSet(s) \subseteq ToSet(r) /\ ToSet(t) \subseteq ToSet(r)
  BY <1>2, <1>4, <1>5 DEF ToSet
<1>. QED
  BY <1>6, <1>7 DEF r

-----------------------------------------------------------------------------
(* The calendar.  A wall time is a date and a clock value, and only one of   *)
(* each.                                                                   *)
Wall(u) == u + Offset(u)

LEMMA Division ==
    ASSUME NEW w \in Int, NEW k \in Int, k > 0
    PROVE  w = k * (w \div k) + (w % k)
OBVIOUS

LEMMA DateAndClock ==
    ASSUME NEW w \in Int
    PROVE  w \div Day \in Int /\ w % Day \in Clocks /\ w = (w \div Day) * Day + (w % Day)
<1>1. w \div Day \in Int /\ w % Day \in Clocks
  BY TimeAssumption DEF Clocks
<1>2. w = Day * (w \div Day) + (w % Day)
  <2>1. Day \in Int /\ Day > 0
    BY TimeAssumption
  <2>. QED
    BY <2>1, Division
<1>3. Day * (w \div Day) = (w \div Day) * Day
  BY <1>1, TimeAssumption
<1>. QED
  BY <1>1, <1>2, <1>3

LEMMA OfDateAndClock ==
    ASSUME NEW date \in Int, NEW clock \in Clocks
    PROVE  /\ date * Day + clock \in Int
           /\ (date * Day + clock) \div Day = date /\ (date * Day + clock) % Day = clock
BY TimeAssumption DEF Clocks

LEMMA DatesApart ==
    ASSUME NEW d \in Int, NEW e \in Int, d < e
    PROVE  d * Day \in Int /\ e * Day \in Int /\ d * Day + Day <= e * Day
BY TimeAssumption

LEMMA DivGrows ==
    ASSUME NEW a \in Int, NEW b \in Int, a <= b
    PROVE  a \div Day <= b \div Day
<1> DEFINE d == a \div Day
           e == b \div Day
           first == d * Day
           second == e * Day
<1>1. /\ d \in Int /\ a % Day \in Clocks /\ a = first + (a % Day)
      /\ e \in Int /\ b % Day \in Clocks /\ b = second + (b % Day)
  BY DateAndClock
<1>2. first \in Int /\ second \in Int
  BY <1>1, TimeAssumption
<1> HIDE DEF d, e
<1>3. e < d => second + Day <= first
  BY <1>1, DatesApart
<1> HIDE DEF first, second
<1>4. a % Day >= 0 /\ b % Day < Day /\ a % Day \in Int /\ b % Day \in Int /\ Day \in Int
  BY <1>1, TimeAssumption DEF Clocks
<1>5. ~(e < d)
  <2> DEFINE r == a % Day
             t == b % Day
  <2>1. /\ r >= 0 /\ t < Day /\ r \in Int /\ t \in Int /\ Day \in Int
    BY <1>4
  <2>2. a = first + r /\ b = second + t
    BY <1>1
  <2> HIDE DEF r, t
  <2>. QED
    BY <1>1, <1>2, <1>3, <2>1, <2>2
<1>. QED
  BY <1>1, <1>5 DEF d, e

(* Offsets of the zone, and instants out of instants.                       *)
LEMMA Offsets ==
    ASSUME zone \in Zone
    PROVE  /\ zone.before \in Int /\ zone.after \in Int /\ zone.at \in Int
           /\ \A u \in Int : Offset(u) \in Int /\ 1 - Day <= Offset(u) /\ Offset(u) <= Day - 1
BY ZoneAssumption, TimeAssumption DEF Offset

LEMMA Instants ==
    ASSUME zone \in Zone
    PROVE  /\ \A u \in Int : Wall(u) \in Int /\ DateOf(u) \in Int /\ ClockOf(u) \in Clocks
           /\ \A date \in Int, clock \in Clocks : TimeDate(date, clock) \in Int
           /\ \A u \in Int : Midnight(u) \in Int /\ AddDate(u) \in Int
<1>1. ASSUME NEW u \in Int
      PROVE  Wall(u) \in Int /\ DateOf(u) \in Int /\ ClockOf(u) \in Clocks
  <2>1. Wall(u) \in Int
    BY Offsets DEF Wall
  <2>. QED
    BY <2>1, DateAndClock DEF DateOf, ClockOf, Wall
<1>2. ASSUME NEW date \in Int, NEW clock \in Clocks
      PROVE  TimeDate(date, clock) \in Int
  <2>1. date * Day + clock \in Int
    BY OfDateAndClock
  <2>. QED
    BY <2>1, Offsets DEF TimeDate
<1>3. 0 \in Clocks
  BY TimeAssumption DEF Clocks
<1>4. ASSUME NEW u \in Int PROVE Midnight(u) \in Int /\ AddDate(u) \in Int
  <2>1. DateOf(u) \in Int /\ DateOf(u) + 1 \in Int /\ ClockOf(u) \in Clocks
    BY <1>1
  <2>. QED
    BY <1>2, <1>3, <2>1 DEF Midnight, AddDate
<1>. QED
  BY <1>1, <1>2, <1>4

(* When some instant reads a wall time, time.Date finds one that does.        *)
LEMMA TimeDateFinds ==
    ASSUME zone \in Zone, NEW date \in Int, NEW clock \in Clocks, NEW u \in Int,
           Wall(u) = date * Day + clock
    PROVE  Wall(TimeDate(date, clock)) = date * Day + clock
<1> DEFINE wall == date * Day + clock
<1>1. wall \in Int
  BY OfDateAndClock
<1>2. u + Offset(u) = wall
  BY DEF Wall
<1>3. TimeDate(date, clock) =
        LET utc == wall - Offset(wall)
            samePeriod == (wall < zone.at) = (utc < zone.at)
        IN  IF Offset(wall) = 0 \/ samePeriod THEN utc ELSE wall - Offset(utc)
  BY DEF TimeDate
<1> HIDE DEF wall
<1>4. Wall(TimeDate(date, clock)) = wall
  BY <1>1, <1>2, <1>3, Offsets DEF Wall, Offset
<1>. QED
  BY <1>4 DEF wall

LEMMA Reading ==
    ASSUME zone \in Zone, NEW u \in Int, NEW date \in Int, NEW clock \in Clocks
    PROVE  Wall(u) = date * Day + clock <=> DateOf(u) = date /\ ClockOf(u) = clock
<1>1. Wall(u) \in Int /\ DateOf(u) = Wall(u) \div Day /\ ClockOf(u) = Wall(u) % Day
  BY Instants DEF DateOf, ClockOf, Wall
<1>2. Wall(u) = DateOf(u) * Day + ClockOf(u)
  <2>1. Wall(u) = (Wall(u) \div Day) * Day + (Wall(u) % Day)
    BY <1>1, DateAndClock
  <2>. QED
    BY <1>1, <2>1
<1>3. Wall(u) = date * Day + clock => DateOf(u) = date /\ ClockOf(u) = clock
  BY OfDateAndClock DEF DateOf, ClockOf, Wall
<1>. QED
  BY <1>2, <1>3

(* Zones whose clocks skip no midnight and do not go back over one.           *)
OrdinaryZone ==
    /\ DateOf(zone.at - 1) <= DateOf(zone.at)
    /\ \A date \in Int :
          ~(zone.at + zone.before <= date * Day /\ date * Day < zone.at + zone.after)

LEMMA DatesGrow ==
    ASSUME zone \in Zone, OrdinaryZone, NEW u \in Int, NEW v \in Int, u <= v
    PROVE  DateOf(u) <= DateOf(v)
<1>1. \A x \in Int : Wall(x) \in Int /\ DateOf(x) \in Int /\ DateOf(x) = Wall(x) \div Day
  BY Instants DEF DateOf, Wall
<1>2. \A x, y \in Int : Wall(x) <= Wall(y) => DateOf(x) <= DateOf(y)
  BY <1>1, DivGrows
<1>3. CASE u < zone.at /\ ~(v < zone.at)
  <2>1. zone.at \in Int /\ zone.at - 1 \in Int
    BY Offsets
  <2>2. Wall(u) <= Wall(zone.at - 1)
    BY <1>3, Offsets DEF Wall, Offset
  <2>3. Wall(zone.at) <= Wall(v)
    BY <1>3, Offsets DEF Wall, Offset
  <2>4. DateOf(zone.at - 1) <= DateOf(zone.at)
    BY DEF OrdinaryZone
  <2>5. DateOf(u) <= DateOf(zone.at - 1) /\ DateOf(zone.at) <= DateOf(v)
    BY <1>2, <2>1, <2>2, <2>3
  <2>. QED
    BY <1>1, <2>1, <2>4, <2>5
<1>4. CASE ~(u < zone.at /\ ~(v < zone.at))
  <2>1. Wall(u) <= Wall(v)
    BY <1>4, Offsets DEF Wall, Offset
  <2>. QED
    BY <1>2, <2>1
<1>. QED
  BY <1>3, <1>4

LEMMA MidnightIsShown ==
    ASSUME zone \in Zone, OrdinaryZone, NEW date \in Int
    PROVE  /\ TimeDate(date, 0) \in Int
           /\ DateOf(TimeDate(date, 0)) = date /\ ClockOf(TimeDate(date, 0)) = 0
<1>1. 0 \in Clocks /\ date * Day + 0 \in Int /\ date * Day + 0 = date * Day
  BY TimeAssumption DEF Clocks
<1>2. \E u \in Int : Wall(u) = date * Day + 0
  <2> DEFINE wall == date * Day
  <2>1. wall \in Int /\ ~(zone.at + zone.before <= wall /\ wall < zone.at + zone.after)
    BY <1>1 DEF OrdinaryZone
  <2> HIDE DEF wall
  <2>2. CASE wall < zone.at + zone.before
    <3>1. wall - zone.before \in Int /\ Wall(wall - zone.before) = wall
      BY <2>1, <2>2, Offsets DEF Wall, Offset
    <3>. QED
      BY <1>1, <3>1 DEF wall
  <2>3. CASE zone.at + zone.after <= wall
    <3>1. wall - zone.after \in Int /\ Wall(wall - zone.after) = wall
      BY <2>1, <2>3, Offsets DEF Wall, Offset
    <3>. QED
      BY <1>1, <3>1 DEF wall
  <2>. QED
    BY <2>1, <2>2, <2>3, Offsets
<1>3. TimeDate(date, 0) \in Int
  BY <1>1, Instants
<1>4. Wall(TimeDate(date, 0)) = date * Day + 0
  BY <1>1, <1>2, TimeDateFinds
<1>. QED
  BY <1>1, <1>3, <1>4, Reading

-----------------------------------------------------------------------------
(* One call of Due keeps to its range.                                     *)
LEMMA CronNextFinds ==
    ASSUME NEW d \in Definition, NEW c \in d.cron, NEW u \in Int
    PROVE  /\ CronNext(c, u) \in Int
           /\ c.every = 0 =>
                \/ CronNext(c, u) = Zero
                \/ /\ ClockOf(CronNext(c, u)) \in c.clocks
                   /\ \A v \in Int : u < v /\ v < CronNext(c, u) => ClockOf(v) \notin c.clocks
<1> DEFINE found == {v \in (u + 1)..(u + 2 * Day) : ClockOf(v) \in c.clocks}
<1>1. c.every \in Nat /\ Day \in Int /\ Zero \in Int
  BY DefinitionAssumption, TimeAssumption DEF Zero
<1>2. found \subseteq Int /\ found \in SUBSET ((u + 1)..(u + 2 * Day))
  BY <1>1
<1>3. IsFiniteSet(found)
  <2>1. u + 1 \in Int /\ u + 2 * Day \in Int
    BY <1>1
  <2>2. IsFiniteSet((u + 1)..(u + 2 * Day))
    BY <2>1, FS_Interval
  <2>. QED
    BY <1>2, <2>2, FS_Subset
<1>4. found # {} => Min(found) \in found /\ \A v \in found : Min(found) <= v
  BY <1>2, <1>3, LeastIsThere
<1>5. CronNext(c, u) = IF c.every > 0 THEN u + c.every
                       ELSE IF found = {} THEN Zero ELSE Min(found)
  BY DEF CronNext
<1>6. \A v \in Int :
        v \in found <=> u < v /\ v <= u + 2 * Day /\ ClockOf(v) \in c.clocks
  BY <1>1
<1> HIDE DEF found
<1>7. CASE c.every = 0 /\ found # {}
  <2>1. CronNext(c, u) = Min(found) /\ Min(found) \in Int /\ Min(found) \in found
    <3>1. ~(c.every > 0)
      BY <1>7
    <3>. QED
      BY <1>2, <1>4, <1>5, <1>7, <3>1
  <2>2. u < Min(found) /\ Min(found) <= u + 2 * Day /\ ClockOf(Min(found)) \in c.clocks
    BY <1>6, <2>1
  <2>3. ASSUME NEW v \in Int, u < v, v < Min(found) PROVE ClockOf(v) \notin c.clocks
    <3>1. v <= u + 2 * Day
      BY <1>1, <2>1, <2>2, <2>3
    <3>2. v \notin found
      BY <1>2, <1>4, <2>1, <2>3
    <3>. QED
      BY <1>6, <2>3, <3>1, <3>2
  <2>. QED
    BY <2>1, <2>2, <2>3
<1>. QED
  BY <1>1, <1>5, <1>7

LEMMA TimesAreFinite ==
    ASSUME TypeOK
    PROVE  /\ times \subseteq (lastTick + 1)..through
           /\ times \subseteq Int /\ IsFiniteSet(times)
<1>1. lastTick + 1 \in Int /\ through \in Int /\ times \in SUBSET ((lastTick + 1)..through)
  BY TimeAssumption DEF TypeOK
<1>2. IsFiniteSet((lastTick + 1)..through)
  BY <1>1, FS_Interval
<1>3. IsFiniteSet(times)
  BY <1>1, <1>2, FS_Subset
<1>. QED
  BY <1>1, <1>3

(* What was returned is of the past of the cursor, what is to come is not.   *)
Past == \A i \in 1..Len(fired) : fired[i] <= lastTick
PlanInv == TypeOK /\ Past /\ InOrderOnce /\ (phase = "idle" => through = lastTick)

LEMMA TickKeeps == ASSUME PlanInv, Tick PROVE PlanInv'
<1>1. /\ phase = "idle" /\ lastTick \in Int /\ through = lastTick
      /\ times \subseteq (lastTick + 1)..through
  BY TimeAssumption DEF PlanInv, TypeOK, Tick
<1>2. times = {}
  BY <1>1
<1>3. PICK u \in (lastTick + 1)..Horizon : through' = u
  BY DEF Tick
<1>4. /\ UNCHANGED <<zone, def, since, lastTick, times, fired>> /\ phase' \in {"cron", "dates"}
      /\ next' = IF def.cron = {} THEN Midnight(lastTick)
                 ELSE CronNext(CHOOSE c \in def.cron : TRUE, lastTick)
  BY DEF Tick
<1>5. next' \in Int
  <2>1. Midnight(lastTick) \in Int
    BY <1>1, Instants DEF PlanInv, TypeOK
  <2>2. def.cron # {} => (CHOOSE c \in def.cron : TRUE) \in def.cron
    OBVIOUS
  <2>3. def \in Definition
    BY DEF PlanInv, TypeOK
  <2>4. def.cron # {} => CronNext(CHOOSE c \in def.cron : TRUE, lastTick) \in Int
    BY <1>1, <2>2, <2>3, CronNextFinds
  <2>. QED
    BY <1>4, <2>1, <2>4
<1>6. through' \in lastTick..Horizon
  BY <1>1, <1>3, TimeAssumption
<1>7. TypeOK'
  BY <1>2, <1>4, <1>5, <1>6 DEF PlanInv, TypeOK
<1>. QED
  BY <1>4, <1>7 DEF PlanInv, Past, InOrderOnce

LEMMA AddCronKeeps == ASSUME PlanInv, AddCron PROVE PlanInv'
<1>1. /\ lastTick \in Int /\ through \in Int /\ next \in Int /\ def \in Definition
      /\ times \subseteq (lastTick + 1)..through /\ phase = "cron"
  BY TimeAssumption DEF PlanInv, TypeOK, AddCron
<1>2. times' \subseteq (lastTick + 1)..through
  <2>1. InRange(next) => next \in (lastTick + 1)..through
    BY <1>1 DEF InRange
  <2>2. times' \subseteq times \cup (IF InRange(next) THEN {next} ELSE {})
    BY DEF AddCron
  <2>. QED
    BY <1>1, <2>1, <2>2
<1>3. next' \in Int
  <2>1. PICK c \in def.cron : next' = CronNext(c, next)
    BY DEF AddCron
  <2>. QED
    BY <1>1, <2>1, CronNextFinds
<1>4. UNCHANGED <<zone, def, since, lastTick, through, phase, fired>>
  BY DEF AddCron
<1>. QED
  BY <1>1, <1>2, <1>3, <1>4 DEF PlanInv, TypeOK, Past, InOrderOnce

LEMMA VisitDateKeeps == ASSUME PlanInv, VisitDate PROVE PlanInv'
<1>1. /\ lastTick \in Int /\ through \in Int /\ next \in Int /\ zone \in Zone
      /\ times \subseteq (lastTick + 1)..through /\ phase = "dates"
  BY TimeAssumption DEF PlanInv, TypeOK, VisitDate
<1>2. \A u \in OfDate(next) : u \in Int
  <2>1. DateOf(next) \in Int /\ def \in Definition
    BY <1>1, Instants DEF PlanInv, TypeOK
  <2>2. \A clock \in def.timeOfDay : OnDate(next, clock) \in Int
    BY <1>1, <2>1, Instants, DefinitionAssumption DEF OnDate
  <2>. QED
    BY <2>2 DEF OfDate, Window
<1>3. times' \subseteq (lastTick + 1)..through
  <2>1. \A u \in Int : InRange(u) => u \in (lastTick + 1)..through
    BY <1>1 DEF InRange
  <2>. QED
    BY <1>1, <1>2, <2>1 DEF VisitDate
<1>4. next' \in Int
  BY <1>1, Instants DEF VisitDate
<1>5. UNCHANGED <<zone, def, since, lastTick, through, phase, fired>>
  BY DEF VisitDate
<1>. QED
  BY <1>1, <1>3, <1>4, <1>5 DEF PlanInv, TypeOK, Past, InOrderOnce

LEMMA CronDoneKeeps == ASSUME PlanInv, CronDone PROVE PlanInv'
<1>1. next' \in Int
  BY Instants, TimeAssumption DEF CronDone, PlanInv, TypeOK
<1>. QED
  BY <1>1 DEF CronDone, PlanInv, TypeOK, Past, InOrderOnce

(* The half-open ranges of two calls meet at the cursor; the one is in order *)
(* after the other.                                                        *)
LEMMA ReturnKeeps == ASSUME PlanInv, Return PROVE PlanInv'
<1> DEFINE batch == Sorted(times)
           n == Len(fired)
           m == Len(batch)
<1>1. /\ lastTick \in Int /\ through \in Int /\ lastTick <= through /\ fired \in Seq(Int)
      /\ lastTick \in since..Horizon /\ through \in lastTick..Horizon
      /\ since \in Int /\ Horizon \in Int
  BY TimeAssumption DEF PlanInv, TypeOK
<1>2. /\ times \subseteq (lastTick + 1)..through
      /\ times \subseteq Int /\ IsFiniteSet(times)
  BY TimesAreFinite DEF PlanInv
<1>3. batch \in Seq(times) /\ \A i, j \in 1..m : i < j => batch[i] < batch[j]
  BY <1>2, SortedSorts
<1>4. /\ fired' = fired \o batch /\ lastTick' = through /\ through' = through
      /\ times' = {} /\ phase' = "idle" /\ next' = Zero /\ UNCHANGED <<zone, def, since>>
  BY DEF Return
<1> HIDE DEF batch
<1>5. batch \in Seq(Int) /\ m \in Nat /\ n \in Nat
      /\ \A i \in 1..m : batch[i] \in Int /\ lastTick < batch[i] /\ batch[i] <= through
  <2>1. m \in Nat /\ n \in Nat /\ batch \in [1..m -> times]
    BY <1>1, <1>3
  <2>2. \A i \in 1..m : batch[i] \in Int /\ batch[i] \in (lastTick + 1)..through
    BY <1>2, <2>1
  <2>3. batch \in [1..m -> Int]
    BY <2>1, <2>2
  <2>. QED
    BY <1>1, <2>1, <2>2, <2>3
<1>6. /\ fired' \in Seq(Int) /\ Len(fired') = n + m
      /\ \A i \in 1..n : fired'[i] = fired[i]
      /\ \A k \in 1..m : fired'[n + k] = batch[k]
  BY <1>1, <1>4, <1>5, Joined
<1>7. /\ \A i \in 1..n : fired[i] \in Int /\ fired[i] <= lastTick
      /\ \A i, j \in 1..n : i < j => fired[i] < fired[j]
  BY <1>1 DEF PlanInv, Past, InOrderOnce
<1>8. \A i \in 1..(n + m) : i \in 1..n \/ \E k \in 1..m : i = n + k
  BY <1>1, <1>5, Joined
<1>9. Past'
  <2>1. ASSUME NEW i \in 1..n PROVE fired'[i] <= through
    <3>1. fired'[i] = fired[i] /\ fired[i] \in Int /\ fired[i] <= lastTick
      BY <1>6, <1>7
    <3>. QED
      BY <1>1, <3>1
  <2>2. \A k \in 1..m : fired'[n + k] <= through
    BY <1>5, <1>6
  <2>. QED
    BY <1>4, <1>6, <1>8, <2>1, <2>2 DEF Past
<1>10. InOrderOnce'
  <2>1. ASSUME NEW i \in 1..(n + m), NEW j \in 1..(n + m), i < j PROVE fired'[i] < fired'[j]
    <3>1. CASE i \in 1..n /\ j \in 1..n
      BY <1>6, <1>7, <2>1, <3>1
    <3>2. ASSUME i \in 1..n, NEW k \in 1..m, j = n + k PROVE fired'[i] < fired'[j]
      <4>1. fired[i] \in Int /\ fired[i] <= lastTick /\ batch[k] \in Int /\ lastTick < batch[k]
        BY <1>5, <1>7, <3>2
      <4>2. fired[i] < batch[k]
        BY <1>1, <4>1
      <4>. QED
        BY <1>6, <3>2, <4>2
    <3>3. ASSUME NEW k \in 1..m, i = n + k, NEW l \in 1..m, j = n + l
          PROVE  fired'[i] < fired'[j]
      <4>1. k < l
        BY <1>5, <2>1, <3>3
      <4>. QED
        BY <1>3, <1>6, <3>3, <4>1
    <3>4. ~(i > n /\ j \in 1..n)
      BY <1>5, <2>1
    <3>5. i \in 1..n \/ i > n
      BY <1>5
    <3>. QED
      BY <1>8, <3>1, <3>2, <3>3, <3>4, <3>5
  <2>. QED
    BY <1>6, <2>1 DEF InOrderOnce
<1>11. TypeOK'
  <2>1. Zero \in Int
    BY TimeAssumption DEF Zero
  <2>2. through \in since..Horizon /\ through \in through..Horizon
    BY <1>1
  <2>. QED
    BY <1>1, <1>4, <1>6, <2>1, <2>2 DEF PlanInv, TypeOK
<1>. QED
  BY <1>4, <1>9, <1>10, <1>11 DEF PlanInv

LEMMA PlanStep == PlanInv /\ [Next]_vars => PlanInv'
<1> SUFFICES ASSUME PlanInv, [Next]_vars PROVE PlanInv'
  OBVIOUS
<1>1. CASE Tick BY <1>1, TickKeeps
<1>2. CASE AddCron BY <1>2, AddCronKeeps
<1>3. CASE CronDone BY <1>3, CronDoneKeeps
<1>6. CASE VisitDate BY <1>6, VisitDateKeeps
<1>4. CASE Return BY <1>4, ReturnKeeps
<1>5. CASE UNCHANGED vars BY <1>5 DEF vars, PlanInv, TypeOK, Past, InOrderOnce
<1>. QED
  BY <1>1, <1>2, <1>3, <1>4, <1>5, <1>6 DEF Next

LEMMA PlanInit == Init => PlanInv
<1> SUFFICES ASSUME Init PROVE PlanInv
  OBVIOUS
<1>1. since \in 0..Horizon /\ Horizon \in Nat /\ Zero \in Int
  BY TimeAssumption DEF Init, Zero
<1>2. /\ lastTick = since /\ through = since /\ times = {} /\ fired = <<>> /\ next = Zero
      /\ phase = "idle"
  BY DEF Init
<1>3. fired \in Seq(Int) /\ Len(fired) = 0
  BY <1>2
<1>4. TypeOK
  BY <1>1, <1>2, <1>3 DEF Init, TypeOK
<1>. QED
  BY <1>2, <1>3, <1>4 DEF PlanInv, Past, InOrderOnce

(* Every variable keeps its type; what one call has collected so far is of    *)
(* its range, and what a call leaves behind nothing (scheduler.go:25-81).   *)
THEOREM PlannerTypes == Spec => []TypeOK
<1>1. PlanInv => TypeOK
  BY DEF PlanInv
<1>. QED
  BY <1>1, PlanInit, PlanStep, PTL DEF Spec

(* However time is cut into ticks, whatever the zone does to its clocks and   *)
(* whatever forms one definition has: no instant is returned twice, and they *)
(* are returned in order (scheduler.go:25-81, service.go:86-99).            *)
THEOREM EachOnceInOrder == Spec => []InOrderOnce
<1>1. PlanInv => InOrderOnce
  BY DEF PlanInv
<1>. QED
  BY <1>1, PlanInit, PlanStep, PTL DEF Spec

-----------------------------------------------------------------------------
(* What a definition means.  The dates of the loop are the midnights of one   *)
(* date after the other, so that when it is over every date of the range    *)
(* has been visited; the cron loop has passed every instant before `next`.  *)
NoDelay == \A c \in def.cron : c.every = 0
ByCron(u) == \E c \in def.cron : ClockOf(u) \in c.clocks

Span(date, w) ==
    LET start == TimeDate(date, w.start)
    IN  {v \in start..TimeDate(date, w.stop) : (v - start) % w.interval = 0}
Named(date) ==
    {TimeDate(date, clock) : clock \in def.timeOfDay} \cup UNION {Span(date, w) : w \in def.window}
OnItsDate(u) == u \in Named(DateOf(u))

CronPassed ==
    /\ InRange(next) => ByCron(next)
    /\ \A u \in Int : InRange(u) /\ u < next /\ ByCron(u) => u \in times

DatesVisited ==
    /\ next = TimeDate(DateOf(next), 0) /\ DateOf(lastTick) <= DateOf(next)
    /\ \A u \in Int : InRange(u) /\ ByCron(u) => u \in times
    /\ \A u \in Int : InRange(u) /\ OnItsDate(u) /\ DateOf(u) < DateOf(next) => u \in times

CallInv ==
    /\ \A u \in times : Occurs(u)
    /\ phase = "cron" => CronPassed
    /\ phase = "dates" => DatesVisited

FiredInv ==
    /\ \A u \in ToSet(fired) : since < u /\ u <= lastTick /\ Occurs(u)
    /\ \A u \in Int : since < u /\ u <= lastTick /\ (ByCron(u) \/ OnItsDate(u)) => u \in ToSet(fired)

ExactInv == PlanInv /\ (OrdinaryZone /\ NoDelay => CallInv /\ FiredInv)

(* These speak of the zone, the definition and where the service began.      *)
LEMMA Unmoved ==
    ASSUME UNCHANGED <<zone, def, since>>
    PROVE  /\ OrdinaryZone' = OrdinaryZone /\ NoDelay' = NoDelay
           /\ \A u : Occurs(u)' = Occurs(u) /\ ByCron(u)' = ByCron(u)
                     /\ OnItsDate(u)' = OnItsDate(u) /\ DateOf(u)' = DateOf(u)
           /\ \A date, clock : TimeDate(date, clock)' = TimeDate(date, clock)
<1>1. UNCHANGED zone /\ UNCHANGED def /\ UNCHANGED since
  OBVIOUS
<1>2. \A u : Offset(u)' = Offset(u)
  BY <1>1 DEF Offset
<1>3. \A u : DateOf(u)' = DateOf(u) /\ ClockOf(u)' = ClockOf(u)
  BY <1>2 DEF DateOf, ClockOf
<1>4. \A date, clock : TimeDate(date, clock)' = TimeDate(date, clock)
  BY <1>1, <1>2 DEF TimeDate
<1>5. OrdinaryZone' = OrdinaryZone
  BY <1>1, <1>3 DEF OrdinaryZone
<1>6. \A date, w : Span(date, w)' = Span(date, w)
  BY <1>4 DEF Span
<1>7. \A u : OnItsDate(u)' = OnItsDate(u)
  BY <1>1, <1>3, <1>4, <1>6 DEF OnItsDate, Named
<1>8. \A u : Occurs(u)' = Occurs(u)
  BY <1>1, <1>3, <1>4 DEF Occurs
<1>9. NoDelay' = NoDelay /\ \A u : ByCron(u)' = ByCron(u)
  BY <1>1, <1>3 DEF NoDelay, ByCron
<1>. QED
  BY <1>3, <1>4, <1>5, <1>7, <1>8, <1>9

LEMMA OfItsDate == \A u : OfDate(u) = Named(DateOf(u))
BY DEF OfDate, OnDate, Window, Named, Span

(* The dates of instants within the bound are among Dates.                    *)
LEMMA InDates ==
    ASSUME zone \in Zone, NEW u \in 0..Horizon
    PROVE  DateOf(u) \in Dates
<1> DEFINE days == Horizon \div Day
           rest == Horizon % Day
<1>1. /\ days \in Int /\ rest \in Clocks /\ Horizon = days * Day + rest
      /\ Horizon \in Int /\ u \in Int /\ 0 \in Clocks
  BY DateAndClock, TimeAssumption DEF Clocks
<1>2. Wall(u) \in Int /\ DateOf(u) = Wall(u) \div Day /\ DateOf(u) \in Int
  BY <1>1, Instants DEF DateOf, Wall
<1> HIDE DEF days, rest
<1>3. -1 <= DateOf(u)
  <2>1. (-1) * Day + 0 \in Int /\ ((-1) * Day + 0) \div Day = -1
    BY <1>1, OfDateAndClock
  <2>2. (-1) * Day + 0 <= Wall(u)
    BY <1>1, Offsets, TimeAssumption DEF Wall
  <2>. QED
    BY <1>2, <2>1, <2>2, DivGrows
<1>4. DateOf(u) <= days + 2
  <2>1. days + 2 \in Int
    BY <1>1
  <2>2. (days + 2) * Day + 0 \in Int /\ ((days + 2) * Day + 0) \div Day = days + 2
    BY <1>1, <2>1, OfDateAndClock
  <2>3. (days + 2) * Day + 0 = days * Day + 2 * Day
    BY <1>1, TimeAssumption
  <2>4. Wall(u) <= days * Day + 2 * Day
    BY <1>1, Offsets, TimeAssumption DEF Wall, Clocks
  <2>. QED
    BY <1>2, <2>2, <2>3, <2>4, DivGrows
<1>. QED
  BY <1>1, <1>2, <1>3, <1>4 DEF Dates, days

LEMMA NamedOccurs ==
    ASSUME NEW date \in Dates, NEW u \in Named(date)
    PROVE  Occurs(u)
BY DEF Named, Span, Occurs

LEMMA CronOccurs ==
    ASSUME NoDelay, NEW u, ByCron(u)
    PROVE  Occurs(u)
BY DEF NoDelay, ByCron, Occurs

(* The cron loop begins and goes on with the next instant that is meant.      *)
LEMMA CronGoesOn ==
    ASSUME PlanInv, NoDelay, NEW c \in def.cron, NEW u \in Int, NEW v \in Int,
           u < v, v < CronNext(c, u), v > 0
    PROVE  ~ByCron(v)
<1>1. def \in Definition /\ \A e \in def.cron : e = c
  BY DefinitionAssumption DEF PlanInv, TypeOK, Valid
<1>2. c.every = 0
  BY DEF NoDelay
<1>3. CronNext(c, u) # Zero
  BY TimeAssumption, CronNextFinds, <1>1 DEF Zero
<1>4. ClockOf(v) \notin c.clocks
  BY <1>1, <1>2, <1>3, CronNextFinds
<1>. QED
  BY <1>1, <1>4 DEF ByCron

LEMMA CronShows ==
    ASSUME PlanInv, NoDelay, NEW c \in def.cron, NEW u \in Int, CronNext(c, u) > 0
    PROVE  ByCron(CronNext(c, u))
<1>1. def \in Definition
  BY DEF PlanInv, TypeOK
<1>2. c.every = 0
  BY DEF NoDelay
<1>3. CronNext(c, u) # Zero
  BY TimeAssumption, CronNextFinds, <1>1 DEF Zero
<1>. QED
  BY <1>1, <1>2, <1>3, CronNextFinds DEF ByCron

(* One step of the machine at a time, in an ordinary zone.                    *)
Ordinary == PlanInv /\ OrdinaryZone /\ NoDelay /\ CallInv /\ FiredInv

LEMMA Facts ==
    ASSUME PlanInv
    PROVE  /\ zone \in Zone /\ def \in Definition /\ next \in Int
           /\ since \in 0..Horizon /\ lastTick \in 0..Horizon /\ through \in 0..Horizon
           /\ lastTick \in Int /\ through \in Int /\ since <= lastTick /\ lastTick <= through
           /\ times \subseteq Int /\ Zero < 0
           /\ \A u \in times : InRange(u)
           /\ \A u \in Int : DateOf(u) \in Int
<1>1. /\ zone \in Zone /\ def \in Definition /\ next \in Int
      /\ since \in Beginnings /\ lastTick \in since..Horizon /\ through \in lastTick..Horizon
      /\ times \subseteq (lastTick + 1)..through
  BY DEF PlanInv, TypeOK
<1>2. /\ since \in 0..Horizon /\ lastTick \in 0..Horizon /\ through \in 0..Horizon
      /\ since <= lastTick /\ lastTick <= through /\ lastTick \in Int /\ through \in Int
  BY <1>1, TimeAssumption
<1>3. times \subseteq Int /\ \A u \in times : InRange(u)
  BY <1>1, <1>2 DEF InRange
<1>4. Zero < 0
  BY TimeAssumption DEF Zero
<1>. QED
  BY <1>1, <1>2, <1>3, <1>4, Instants

(* The date loop begins with the midnight before the range.                   *)
LEMMA DatesBegin ==
    ASSUME PlanInv, OrdinaryZone, NEW u \in Int, NEW v \in Int, u = Midnight(v)
    PROVE  u = TimeDate(DateOf(u), 0) /\ DateOf(u) = DateOf(v)
<1>1. DateOf(v) \in Int /\ zone \in Zone
  BY Facts
<1>. QED
  BY <1>1, MidnightIsShown DEF Midnight

LEMMA TickExact == ASSUME Ordinary, Tick PROVE (CallInv /\ FiredInv)'
<1> USE DEF Ordinary
<1>1. /\ UNCHANGED <<zone, def, since, lastTick, times, fired>> /\ phase' \in {"cron", "dates"}
      /\ phase' = "cron" => def.cron # {} /\ next' = CronNext(CHOOSE c \in def.cron : TRUE, lastTick)
      /\ phase' = "dates" => def.cron = {} /\ next' = Midnight(lastTick)
  BY DEF Tick
<1>2. UNCHANGED <<zone, def, since>>
  BY <1>1
<1>3. PlanInv' /\ next' \in Int
  BY TickKeeps DEF PlanInv, TypeOK
<1>4. FiredInv'
  BY <1>1, <1>2, Unmoved DEF FiredInv
<1>5. \A u \in times' : Occurs(u)'
  BY <1>1, <1>2, Unmoved DEF CallInv
<1>6. \A u : InRange(u)' => lastTick < u
  BY <1>1 DEF InRange
<1>7. ASSUME phase' = "cron" PROVE CronPassed'
  <2>1. PICK c \in def.cron : next' = CronNext(c, lastTick)
    BY <1>1, <1>7
  <2>2. InRange(next)' => ByCron(next')
    BY <1>3, <1>6, <2>1, Facts, CronShows
  <2>3. \A u \in Int : InRange(u)' /\ u < next' => ~ByCron(u)
    BY <1>6, <2>1, Facts, CronGoesOn
  <2>4. ByCron(next)' = ByCron(next')
    BY <1>1 DEF ByCron, ClockOf, Offset
  <2>. QED
    BY <1>2, <2>2, <2>3, <2>4, Unmoved DEF CronPassed
<1>8. ASSUME phase' = "dates" PROVE DatesVisited'
  <2>1. next' = Midnight(lastTick) /\ def.cron = {}
    BY <1>1, <1>8
  <2>2. next' = TimeDate(DateOf(next'), 0) /\ DateOf(next') = DateOf(lastTick)
    BY <1>3, <2>1, Facts, DatesBegin
  <2>3. \A u \in Int : InRange(u)' => ~ByCron(u) /\ DateOf(lastTick) <= DateOf(u)
    BY <1>6, <2>1, Facts, DatesGrow DEF ByCron
  <2>. QED
    BY <1>1, <1>2, <2>2, <2>3, Facts, Unmoved DEF DatesVisited
<1>. QED
  BY <1>1, <1>4, <1>5, <1>7, <1>8 DEF CallInv

LEMMA AddCronExact == ASSUME Ordinary, AddCron PROVE (CallInv /\ FiredInv)'
<1> USE DEF Ordinary
<1>1. /\ UNCHANGED <<zone, def, since, lastTick, through, phase, fired>> /\ phase = "cron"
      /\ times' = times \cup {u \in {next} : InRange(u)} /\ next <= through
  BY DEF AddCron
<1>2. UNCHANGED <<zone, def, since>> /\ CronPassed
  BY <1>1 DEF CallInv
<1>3. PICK c \in def.cron : next' = CronNext(c, next)
  BY DEF AddCron
<1>4. next' \in Int
  BY AddCronKeeps DEF PlanInv, TypeOK
<1>5. FiredInv'
  BY <1>1, <1>2, Unmoved DEF FiredInv
<1>6. \A u \in times' : Occurs(u)'
  BY <1>1, <1>2, CronOccurs, Unmoved DEF CallInv, CronPassed
<1>7. \A u : InRange(u)' = InRange(u)
  BY <1>1 DEF InRange
<1>8. InRange(next') => ByCron(next')
  BY <1>3, <1>4, Facts, CronShows DEF InRange
<1>9. \A u \in Int : InRange(u) /\ u < next' /\ ByCron(u) => u \in times'
  <2> SUFFICES ASSUME NEW u \in Int, InRange(u), u < next', ByCron(u) PROVE u \in times'
    OBVIOUS
  <2>1. u > 0
    BY Facts DEF InRange
  <2>2. ~(next < u)
    BY <1>3, <1>4, <2>1, Facts, CronGoesOn
  <2>3. u < next \/ u = next
    BY <2>2, Facts
  <2>. QED
    BY <1>1, <1>2, <2>3 DEF CronPassed
<1>10. CronPassed'
  <2>1. ByCron(next)' = ByCron(next') /\ InRange(next)' = InRange(next')
    BY <1>1 DEF ByCron, ClockOf, Offset, InRange
  <2>. QED
    BY <1>2, <1>7, <1>8, <1>9, <2>1, Unmoved DEF CronPassed
<1>. QED
  BY <1>1, <1>5, <1>6, <1>10 DEF CallInv

LEMMA CronDoneExact == ASSUME Ordinary, CronDone PROVE (CallInv /\ FiredInv)'
<1> USE DEF Ordinary
<1>1. /\ UNCHANGED <<zone, def, since, lastTick, through, times, fired>> /\ phase = "cron"
      /\ phase' = "dates" /\ next > through /\ next' = Midnight(lastTick)
  BY DEF CronDone
<1>2. UNCHANGED <<zone, def, since>> /\ CronPassed
  BY <1>1 DEF CallInv
<1>3. next' \in Int
  BY CronDoneKeeps DEF PlanInv, TypeOK
<1>4. FiredInv' /\ \A u \in times' : Occurs(u)'
  BY <1>1, <1>2, Unmoved DEF FiredInv, CallInv
<1>5. next' = TimeDate(DateOf(next'), 0) /\ DateOf(next') = DateOf(lastTick)
  BY <1>1, <1>3, Facts, DatesBegin
<1>6. \A u \in Int : InRange(u) => DateOf(lastTick) <= DateOf(u) /\ u < next
  BY <1>1, Facts, DatesGrow DEF InRange
<1>7. \A u : InRange(u)' = InRange(u)
  BY <1>1 DEF InRange
<1>8. DatesVisited'
  BY <1>1, <1>2, <1>5, <1>6, <1>7, Facts, Unmoved DEF DatesVisited, CronPassed
<1>. QED
  BY <1>1, <1>4, <1>8 DEF CallInv

LEMMA VisitDateExact == ASSUME Ordinary, VisitDate PROVE (CallInv /\ FiredInv)'
<1> USE DEF Ordinary
<1>1. /\ UNCHANGED <<zone, def, since, lastTick, through, phase, fired>> /\ phase = "dates"
      /\ times' = times \cup {u \in OfDate(next) : InRange(u)} /\ next <= Midnight(through)
      /\ next' = AddDate(next)
  BY DEF VisitDate, MoreDates
<1>2. UNCHANGED <<zone, def, since>> /\ DatesVisited
  BY <1>1 DEF CallInv
<1> DEFINE date == DateOf(next)
<1>3. date \in Int /\ next = TimeDate(date, 0) /\ DateOf(lastTick) <= date
  BY <1>2, Facts DEF DatesVisited
<1>4. next' = TimeDate(date + 1, 0) /\ DateOf(next') = date + 1
  BY <1>1, <1>3, Facts, MidnightIsShown DEF AddDate
(* The date visited is one of the range.                                    *)
<1>5. date \in Dates
  <2>1. Midnight(through) \in Int /\ DateOf(Midnight(through)) = DateOf(through)
    BY Facts, Instants, DatesBegin
  <2>2. date <= DateOf(through)
    BY <1>1, <2>1, Facts, DatesGrow
  <2>. QED
    BY <1>3, <2>2, Facts, InDates, TimeAssumption DEF Dates
<1>6. \A u \in times' : Occurs(u)'
  BY <1>1, <1>2, <1>5, OfItsDate, NamedOccurs, Unmoved DEF CallInv
<1>7. \A u : InRange(u)' = InRange(u)
  BY <1>1 DEF InRange
<1>8. \A u \in Int : InRange(u) /\ OnItsDate(u) /\ DateOf(u) < date + 1 => u \in times'
  <2> SUFFICES ASSUME NEW u \in Int, InRange(u), OnItsDate(u), DateOf(u) < date + 1
               PROVE  u \in times'
    OBVIOUS
  <2>1. DateOf(u) < date \/ DateOf(u) = date
    BY <1>3, Facts
  <2>2. DateOf(u) = date => u \in OfDate(next)
    BY OfItsDate DEF OnItsDate
  <2>. QED
    BY <1>1, <1>2, <2>1, <2>2 DEF DatesVisited
<1>9. DatesVisited'
  <2>1. DateOf(next)' = date + 1 /\ DateOf(lastTick)' = DateOf(lastTick)
    BY <1>1, <1>4 DEF DateOf, Offset
  <2>2. next' = TimeDate(DateOf(next), 0)'
    BY <1>1, <1>4, <2>1 DEF TimeDate, Offset
  <2>3. DateOf(lastTick) <= date + 1
    BY <1>3, Facts
  <2> HIDE DEF date
  <2>. QED
    BY <1>1, <1>2, <1>7, <1>8, <2>1, <2>2, <2>3, Unmoved DEF DatesVisited
<1>10. FiredInv'
  BY <1>1, <1>2, Unmoved DEF FiredInv
<1>. QED
  BY <1>1, <1>6, <1>9, <1>10 DEF CallInv

(* A call ends when every date of the range has been visited: what it has     *)
(* collected is what was meant, on its date.                                *)
LEMMA ReturnExact == ASSUME Ordinary, Return PROVE (CallInv /\ FiredInv)'
<1> USE DEF Ordinary
<1>1. /\ UNCHANGED <<zone, def, since, through>> /\ phase = "dates" /\ phase' = "idle"
      /\ fired' = fired \o Sorted(times) /\ lastTick' = through /\ times' = {} /\ ~MoreDates
  BY DEF Return
<1>2. UNCHANGED <<zone, def, since>> /\ DatesVisited
  BY <1>1 DEF CallInv
<1>3. ToSet(fired') = ToSet(fired) \cup times
  <2>1. IsFiniteSet(times) /\ times \subseteq Int
    BY TimesAreFinite DEF PlanInv
  <2>2. Sorted(times) \in Seq(times) /\ ToSet(Sorted(times)) = times
    BY <2>1, SortedSorts
  <2>3. fired \in Seq(Int)
    BY DEF PlanInv, TypeOK
  <2>4. Sorted(times) \in Seq(Int)
    <3> DEFINE batch == Sorted(times)
    <3>1. Len(batch) \in Nat /\ batch \in [1..Len(batch) -> times]
      BY <2>2, LenProperties
    <3> HIDE DEF batch
    <3>2. batch \in [1..Len(batch) -> Int]
      BY <2>1, <3>1
    <3>3. batch \in Seq(Int)
      BY <3>1, <3>2
    <3>. QED
      BY <3>3 DEF batch
  <2>. QED
    BY <1>1, <2>2, <2>3, <2>4, JoinedSets
<1>4. \A u \in Int : InRange(u) /\ OnItsDate(u) => u \in times
  <2> SUFFICES ASSUME NEW u \in Int, InRange(u), OnItsDate(u) PROVE u \in times
    OBVIOUS
  <2>1. Scheduled
    BY DEF OnItsDate, Named, Scheduled
  <2>2. Midnight(through) \in Int /\ DateOf(Midnight(through)) = DateOf(through)
        /\ Midnight(through) = TimeDate(DateOf(through), 0)
    BY Facts, Instants, DatesBegin
  <2>3. ~(next <= Midnight(through)) /\ next = TimeDate(DateOf(next), 0)
    BY <1>1, <1>2, <2>1 DEF MoreDates, DatesVisited
  <2>4. DateOf(through) <= DateOf(next) /\ DateOf(through) # DateOf(next)
    BY <2>2, <2>3, Facts, DatesGrow
  <2>5. DateOf(u) <= DateOf(through)
    BY Facts, DatesGrow DEF InRange
  <2>6. DateOf(u) < DateOf(next)
    BY <2>4, <2>5, Facts
  <2>. QED
    BY <1>2, <2>6 DEF DatesVisited
<1>5. FiredInv'
  <2>1. ASSUME NEW u \in ToSet(fired') PROVE since < u /\ u <= through /\ Occurs(u)
    <3>1. u \in times => u \in Int /\ lastTick < u /\ u <= through /\ Occurs(u)
      BY Facts DEF CallInv, InRange
    <3>2. u \in ToSet(fired) => u \in Int /\ since < u /\ u <= lastTick /\ Occurs(u)
      BY DEF FiredInv, PlanInv, TypeOK, ToSet
    <3>. QED
      BY <1>3, <2>1, <3>1, <3>2, Facts
  <2>2. ASSUME NEW u \in Int, since < u, u <= through, ByCron(u) \/ OnItsDate(u)
        PROVE  u \in ToSet(fired')
    <3>1. CASE u <= lastTick
      BY <1>3, <2>2, <3>1 DEF FiredInv
    <3>2. CASE ~(u <= lastTick)
      BY <1>2, <1>3, <1>4, <2>2, <3>2, Facts DEF InRange, DatesVisited
    <3>. QED
      BY <3>1, <3>2
  <2>. QED
    BY <1>1, <1>2, <2>1, <2>2, Unmoved DEF FiredInv
<1>. QED
  BY <1>1, <1>5 DEF CallInv

LEMMA ExactStep == ExactInv /\ [Next]_vars => ExactInv'
<1> SUFFICES ASSUME ExactInv, [Next]_vars PROVE ExactInv'
  OBVIOUS
<1>1. PlanInv'
  BY PlanStep DEF ExactInv
<1>2. UNCHANGED <<zone, def, since>>
  BY DEF Next, vars, Tick, AddCron, CronDone, VisitDate, Return
<1>3. ASSUME OrdinaryZone', NoDelay' PROVE (CallInv /\ FiredInv)'
  <2>1. Ordinary
    BY <1>2, <1>3, Unmoved DEF Ordinary, ExactInv
  <2>2. CASE UNCHANGED vars
    BY <2>1, <2>2, Unmoved
    DEF vars, Ordinary, CallInv, FiredInv, CronPassed, DatesVisited, InRange
  <2>. QED
    BY <2>1, <2>2, TickExact, AddCronExact, CronDoneExact, VisitDateExact, ReturnExact DEF Next
<1>. QED
  BY <1>1, <1>3 DEF ExactInv

LEMMA ExactInit == Init => ExactInv
<1> SUFFICES ASSUME Init PROVE ExactInv
  OBVIOUS
<1>1. PlanInv
  BY PlanInit
<1>2. /\ times = {} /\ phase = "idle" /\ fired = <<>> /\ lastTick = since
  BY DEF Init
<1>3. since \in Int
  BY <1>1, Facts, TimeAssumption
<1>4. ToSet(fired) = {}
  BY <1>2 DEF ToSet
<1>. QED
  BY <1>1, <1>2, <1>3, <1>4 DEF ExactInv, CallInv, FiredInv

(* time.Date keeps every clock value of the definition on its date.           *)
AllClocks == def.timeOfDay \cup UNION {{w.start, w.stop} : w \in def.window}
OnTheirDate == \A date \in Dates, clock \in AllClocks : DateOf(TimeDate(date, clock)) = date

LEMMA OccursOnItsDate ==
    ASSUME PlanInv, OrdinaryZone, NoDelay, OnTheirDate, NEW u \in Int, Occurs(u)
    PROVE  ByCron(u) \/ OnItsDate(u)
<1>1. def \in Definition /\ zone \in Zone /\ \A date \in Dates : date \in Int
  BY Facts DEF Dates
<1>2. CASE \E c \in def.cron : ClockOf(u) \in c.clocks
  BY <1>2 DEF ByCron
<1>3. ASSUME NEW date \in Dates, NEW clock \in def.timeOfDay, u = TimeDate(date, clock)
      PROVE  OnItsDate(u)
  <2>1. DateOf(u) = date
    BY <1>3 DEF OnTheirDate, AllClocks
  <2>. QED
    BY <1>3, <2>1 DEF OnItsDate, Named
<1>4. ASSUME NEW date \in Dates, NEW w \in def.window, u \in Span(date, w)
      PROVE  OnItsDate(u)
  <2>1. /\ TimeDate(date, w.start) \in Int /\ TimeDate(date, w.stop) \in Int
        /\ TimeDate(date, w.start) <= u /\ u <= TimeDate(date, w.stop)
    <3>1. w.start \in Clocks /\ w.stop \in Clocks
      BY <1>1, DefinitionAssumption
    <3>2. TimeDate(date, w.start) \in Int /\ TimeDate(date, w.stop) \in Int
      BY <1>1, <3>1, Instants
    <3>. QED
      BY <1>4, <3>2 DEF Span
  <2>2. DateOf(TimeDate(date, w.start)) = date /\ DateOf(TimeDate(date, w.stop)) = date
    BY DEF OnTheirDate, AllClocks
  <2>3. date <= DateOf(u) /\ DateOf(u) <= date
    BY <1>1, <2>1, <2>2, DatesGrow
  <2>4. DateOf(u) = date
    BY <1>1, <2>3, Facts
  <2>. QED
    BY <1>4, <2>4 DEF OnItsDate, Named
<1>. QED
  BY <1>2, <1>3, <1>4 DEF Occurs, NoDelay, Span

(* However time is cut into ticks, the executions are those the definition    *)
(* means, none left out and none added, for every definition without        *)
(* "@every" and every zone that skips no midnight, does not go back over    *)
(* one, and does not push a clock value of the definition to another date   *)
(* (scheduler.go:25-81).                                                    *)
THEOREM NothingElseIsDue == Spec => [](OrdinaryZone /\ NoDelay /\ OnTheirDate => DueExact)
<1>1. ASSUME ExactInv, OrdinaryZone, NoDelay, OnTheirDate PROVE DueExact
  <2>1. PlanInv /\ FiredInv
    BY <1>1 DEF ExactInv
  <2>2. ASSUME NEW u \in ToSet(fired) PROVE u \in {v \in (since + 1)..lastTick : Occurs(v)}
    <3>1. u \in Int
      BY <2>1 DEF PlanInv, TypeOK, ToSet
    <3>. QED
      BY <2>1, <2>2, <3>1, Facts DEF FiredInv
  <2>3. ASSUME NEW u \in {v \in (since + 1)..lastTick : Occurs(v)} PROVE u \in ToSet(fired)
    <3>1. u \in Int /\ since < u /\ u <= lastTick /\ Occurs(u)
      BY <2>1, Facts
    <3>. QED
      BY <1>1, <2>1, <3>1, OccursOnItsDate DEF FiredInv
  <2>. QED
    BY <2>2, <2>3 DEF DueExact
<1>2. ExactInv => (OrdinaryZone /\ NoDelay /\ OnTheirDate => DueExact)
  BY <1>1
<1>. QED
  BY <1>2, ExactInit, ExactStep, PTL DEF Spec

(* When a clock value is shown twice the clocks went back, and then no clock  *)
(* value is skipped: time.Date returns instants that read what it was asked. *)
LEMMA ShownTwice ==
    ASSUME zone \in Zone, NEW u \in Int, NEW v \in Int, u # v, Wall(u) = Wall(v),
           NEW date \in Int, NEW clock \in Clocks
    PROVE  DateOf(TimeDate(date, clock)) = date /\ ClockOf(TimeDate(date, clock)) = clock
<1> DEFINE wall == date * Day + clock
<1>1. wall \in Int
  BY OfDateAndClock
<1> HIDE DEF wall
<1>2. zone.after < zone.before
  BY Offsets DEF Wall, Offset
<1>3. \E x \in Int : Wall(x) = wall
  <2>1. CASE wall < zone.at + zone.before
    <3>1. wall - zone.before \in Int /\ Wall(wall - zone.before) = wall
      BY <1>1, <2>1, Offsets DEF Wall, Offset
    <3>. QED
      BY <3>1
  <2>2. CASE ~(wall < zone.at + zone.before)
    <3>1. wall - zone.after \in Int /\ Wall(wall - zone.after) = wall
      BY <1>1, <1>2, <2>2, Offsets DEF Wall, Offset
    <3>. QED
      BY <3>1
  <2>. QED
    BY <2>1, <2>2
<1>4. TimeDate(date, clock) \in Int /\ Wall(TimeDate(date, clock)) = date * Day + clock
  BY <1>3, Instants, TimeDateFinds DEF wall
<1>. QED
  BY <1>4, Reading

LEMMA OnceOnItsDate ==
    ASSUME ExactInv, OrdinaryZone, def.cron = {}, def.window = {},
           NEW date \in Dates, NEW clock \in def.timeOfDay,
           Reads(date, clock) # {}, Reads(date, clock) \subseteq (since + 1)..lastTick
    PROVE  Cardinality(Reads(date, clock) \cap ToSet(fired)) = 1
<1> DEFINE v == TimeDate(date, clock)
<1>1. PlanInv /\ FiredInv
  BY DEF ExactInv, NoDelay
<1>2. zone \in Zone /\ date \in Int /\ def.timeOfDay \subseteq Clocks /\ clock \in Clocks
  BY <1>1, Facts, DefinitionAssumption DEF Dates
<1>3. \A u \in Reads(date, clock) :
        /\ u \in Int /\ since < u /\ u <= lastTick /\ 0 <= u /\ u <= Horizon
        /\ DateOf(u) = date /\ ClockOf(u) = clock /\ Wall(u) = date * Day + clock
  <2> SUFFICES ASSUME NEW u \in Reads(date, clock)
               PROVE  /\ u \in Int /\ since < u /\ u <= lastTick /\ 0 <= u /\ u <= Horizon
                      /\ DateOf(u) = date /\ ClockOf(u) = clock /\ Wall(u) = date * Day + clock
    OBVIOUS
  <2>1. u \in (since + 1)..lastTick /\ DateOf(u) = date /\ ClockOf(u) = clock
    BY DEF Reads
  <2>2. u \in Int /\ since < u /\ u <= lastTick /\ 0 <= u /\ u <= Horizon
    BY <1>1, <2>1, Facts, TimeAssumption
  <2>. QED
    BY <1>2, <2>1, <2>2, Reading
<1>4. PICK u \in Reads(date, clock) : TRUE
  OBVIOUS
<1>5. v \in Int /\ Wall(v) = date * Day + clock /\ DateOf(v) = date /\ ClockOf(v) = clock
  <2>1. v \in Int
    BY <1>2, Instants
  <2>2. Wall(v) = date * Day + clock
    BY <1>2, <1>3, <1>4, TimeDateFinds
  <2>. QED
    BY <1>2, <2>1, <2>2, Reading
<1> HIDE DEF v
(* It is not far from the one that is there.                                *)
<1>6. v \in Reads(date, clock)
  <2>1. u \in Int /\ 0 <= u /\ u <= Horizon /\ Wall(u) = Wall(v)
    BY <1>3, <1>4, <1>5
  <2>2. u - 2 * Day <= v /\ v <= u + 2 * Day
    BY <1>2, <1>5, <2>1, Offsets, TimeAssumption DEF Wall
  <2>3. v \in (-2 * Day)..(Horizon + 2 * Day)
    BY <1>5, <2>1, <2>2, TimeAssumption
  <2>. QED
    BY <1>5, <2>3 DEF Reads
<1>7. v \in ToSet(fired)
  <2>1. OnItsDate(v)
    BY <1>5 DEF OnItsDate, Named, v
  <2>. QED
    BY <1>1, <1>3, <1>6, <2>1 DEF FiredInv
<1>8. ASSUME NEW w \in Reads(date, clock), w \in ToSet(fired) PROVE w = v
  <2>1. PICK e \in Dates, c \in def.timeOfDay : w = TimeDate(e, c)
    BY <1>1, <1>8 DEF FiredInv, Occurs
  <2>2. e \in Int /\ c \in Clocks
    BY <1>2 DEF Dates
  <2>3. w \in Int /\ Wall(w) = Wall(v) /\ DateOf(w) = date /\ ClockOf(w) = clock
    BY <1>3, <1>5
  <2>4. w # v => DateOf(TimeDate(e, c)) = e /\ ClockOf(TimeDate(e, c)) = c
    BY <1>2, <1>5, <2>2, <2>3, ShownTwice
  <2>. QED
    BY <2>1, <2>3, <2>4 DEF v
<1>9. Reads(date, clock) \cap ToSet(fired) = {v}
  BY <1>6, <1>7, <1>8
<1>. QED
  BY <1>9, FS_Singleton

(* A time of day fires once on each date on which the clock shows it, when it *)
(* is shown twice too, in every zone that skips no midnight and does not go  *)
(* back over one (scheduler.go:55-66).                                      *)
THEOREM FiresOnceADay == Spec => [](OrdinaryZone => OnceADay)
<1>1. ExactInv => (OrdinaryZone => OnceADay)
  BY OnceOnItsDate DEF OnceADay
<1>. QED
  BY <1>1, ExactInit, ExactStep, PTL DEF Spec

(* Both hypotheses hold in a zone that never moves its clocks.                *)
FixedZone == zone.before = zone.after

LEMMA FixedIsOrdinary ==
    ASSUME PlanInv, FixedZone
    PROVE  OrdinaryZone /\ OnTheirDate
<1>1. zone \in Zone /\ def \in Definition
  BY Facts
<1>2. \A u \in Int : Wall(u) = u + zone.before /\ DateOf(u) = Wall(u) \div Day /\ Wall(u) \in Int
  BY <1>1, Instants DEF FixedZone, Wall, DateOf, Offset
<1>3. OrdinaryZone
  <2>1. zone.at \in Int /\ zone.at - 1 \in Int /\ zone.before \in Int
    BY <1>1, Offsets
  <2>2. DateOf(zone.at - 1) <= DateOf(zone.at)
    <3>1. Wall(zone.at - 1) <= Wall(zone.at)
      BY <1>2, <2>1
    <3>. QED
      BY <1>2, <2>1, <3>1, DivGrows
  <2>3. ASSUME NEW date \in Int
        PROVE  ~(zone.at + zone.before <= date * Day /\ date * Day < zone.at + zone.after)
    <3> DEFINE wall == date * Day
    <3>1. wall \in Int
      BY TimeAssumption
    <3> HIDE DEF wall
    <3>2. ~(zone.at + zone.before <= wall /\ wall < zone.at + zone.after)
      BY <2>1, <3>1 DEF FixedZone
    <3>. QED
      BY <3>2 DEF wall
  <2>. QED
    BY <2>2, <2>3 DEF OrdinaryZone
<1>4. ASSUME NEW date \in Dates, NEW clock \in AllClocks PROVE DateOf(TimeDate(date, clock)) = date
  <2>1. date \in Int /\ clock \in Clocks
    BY <1>1, DefinitionAssumption DEF Dates, AllClocks
  <2> DEFINE wall == date * Day + clock
  <2>2. wall \in Int
    BY <2>1, OfDateAndClock
  <2>3. wall - zone.before \in Int /\ Wall(wall - zone.before) = wall
    <3> HIDE DEF wall
    <3>. QED
      BY <1>1, <1>2, <2>2, Offsets
  <2>4. Wall(TimeDate(date, clock)) = date * Day + clock
    BY <1>1, <2>1, <2>3, TimeDateFinds
  <2>. QED
    BY <1>1, <2>1, <2>4, Instants, Reading
<1>. QED
  BY <1>3, <1>4 DEF OnTheirDate

(* So there every definition without "@every" is carried out exactly, and a   *)
(* time of day once a day, from any cursor and over any ticks               *)
(* (scheduler.go:25-81).                                                    *)
COROLLARY ExactInFixedZones == Spec => [](FixedZone /\ NoDelay => DueExact /\ OnceADay)
<1>1. PlanInv /\ FixedZone => OrdinaryZone /\ OnTheirDate
  BY FixedIsOrdinary
<1>2. Spec => []PlanInv
  BY PlanInit, PlanStep, PTL DEF Spec
<1>. QED
  BY <1>1, <1>2, NothingElseIsDue, FiresOnceADay, PTL
=============================================================================
