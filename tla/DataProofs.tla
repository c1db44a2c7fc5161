----------------------------- MODULE DataProofs -----------------------------
(***************************************************************************)
(* Four components of MCData, each with an inductive invariant of its own, *)
(* for any number of tables, intervals, callers, keys, requests and        *)
(* services.  A step of DataSpec is one of one component and leaves the    *)
(* others as they were, so their conjunction DataInv is inductive as well. *)
(*                                                                         *)
(* TimeInv     what is flushed follows the clock, and what is rolled up    *)
(*             has been flushed.                                           *)
(* RecentStay  the ring has what the last ring_secs brought.               *)
(* RoomInv     a flush is behind the clock by the rounds that were late    *)
(*             and no further, so that the ring still has its minutes.     *)
(* TableInv    for each bucket of each table: it was over when it was      *)
(*             made, it is there until it is pruned, and it is all that    *)
(*             was stored in it unless it was made again after some of     *)
(*             what it is made from had been pruned.                       *)
(* IconInv     a placeholder has the call that extracts.                   *)
(* ScmInv      a restart that reports success has seen its service stop    *)
(*             and start.                                                  *)
(* CallInv     a request of root has its row, with its result.             *)
(***************************************************************************)
EXTENDS MCData, SequenceTheorems, FiniteSetTheorems, WellFoundedInduction, TLAPS

-----------------------------------------------------------------------------
(* Minutes, buckets and the ring.                                          *)

\* A set of naturals has a least element.
LEMMA SmallestExists ==
    ASSUME NEW S \in SUBSET Nat, S # {}
    PROVE  \E n \in S : \A m \in S : n <= m
  <1>1. IsWellFoundedOn(OpToRel(<, Nat), Nat)
    BY NatLessThanWellFounded
  <1>2. PICK n \in S : \A m \in S : ~(<<m, n>> \in OpToRel(<, Nat))
    BY <1>1, WFMin
  <1>3. \A m \in S : ~(m < n)
    BY <1>2 DEF OpToRel
  <1> QED
    BY <1>3

\* Min returns it.
LEMMA MinIsLeast ==
    ASSUME NEW S \in SUBSET Nat, S # {}
    PROVE  Min(S) \in S /\ \A m \in S : Min(S) <= m
  BY SmallestExists DEF Min

\* And Max the greatest one of a set that has a bound.
LEMMA MaxIsGreatest ==
    ASSUME NEW n \in Nat, NEW S \in SUBSET (0..n), S # {}
    PROVE  Max(S) \in S /\ \A m \in S : m <= Max(S)
  <1> DEFINE T == {n - m : m \in S}
  <1>1. T \in SUBSET Nat /\ T # {}
    <2>1. \A m \in S : m \in Int /\ 0 <= m /\ m <= n
      OBVIOUS
    <2>2. \A m \in S : n - m \in Nat
      BY <2>1
    <2> QED
      BY <2>2
  <1>2. PICK k \in T : \A m \in T : k <= m
    BY <1>1, SmallestExists
  <1>3. PICK g \in S : k = n - g
    BY <1>2
  <1>4. \A m \in S : m <= g
    BY <1>2, <1>3
  <1> QED
    BY <1>4 DEF Max

\* Division by a width.
LEMMA DivIs ==
    ASSUME NEW x \in Int, NEW w \in Nat \ {0}
    PROVE  /\ x \div w \in Int
           /\ w * (x \div w) <= x /\ x < w * (x \div w) + w
  OBVIOUS

\* Multiples are in the order of their factors.
LEMMA TimesKeeps ==
    ASSUME NEW i \in Int, NEW j \in Int, NEW w \in Nat, i <= j
    PROVE  w * i <= w * j
  OBVIOUS

\* And only then.
LEMMA TimesReflects ==
    ASSUME NEW i \in Int, NEW j \in Int, NEW w \in Nat \ {0}, w * i < w * j
    PROVE  i < j
  BY TimesKeeps

\* The minute of a time.
LEMMA MinuteIs ==
    ASSUME NEW x \in Int
    PROVE  Minute(x) \in Int /\ Minute(x) * PerMin <= x /\ x < (Minute(x) + 1) * PerMin
  <1>1. PerMin \in Nat \ {0}
    BY ConstantsAssumption
  <1>2. /\ x \div PerMin \in Int
        /\ PerMin * (x \div PerMin) <= x /\ x < PerMin * (x \div PerMin) + PerMin
    BY <1>1, DivIs
  <1> QED
    BY <1>1, <1>2 DEF Minute

\* A minute that has begun.
LEMMA MinuteHasBegun ==
    ASSUME NEW x \in Int, NEW m \in Int
    PROVE  m * PerMin <= x <=> m <= Minute(x)
  <1>1. PerMin \in Nat \ {0} /\ Minute(x) \in Int
    BY ConstantsAssumption, MinuteIs
  <1>2. ASSUME m <= Minute(x) PROVE m * PerMin <= x
    <2>1. PerMin * m <= PerMin * Minute(x)
      BY <1>1, <1>2, TimesKeeps
    <2> QED
      BY <2>1, <1>1, MinuteIs
  <1>3. ASSUME m * PerMin <= x PROVE m <= Minute(x)
    <2>1. PerMin * m < PerMin * (Minute(x) + 1)
      BY <1>1, <1>3, MinuteIs
    <2> QED
      BY <2>1, <1>1, TimesReflects
  <1> QED
    BY <1>2, <1>3

\* Minutes follow the clock.
LEMMA MinutesGrow ==
    ASSUME NEW x \in Int, NEW y \in Int, x <= y
    PROVE  Minute(x) <= Minute(y)
  <1>1. Minute(x) \in Int /\ Minute(x) * PerMin <= x /\ PerMin \in Nat
    BY MinuteIs, ConstantsAssumption
  <1>2. Minute(x) * PerMin <= y
    BY <1>1
  <1> QED
    BY <1>1, <1>2, MinuteHasBegun

\* The minute of a sample is one of those there are.
LEMMA MinutesAreThere ==
    ASSUME NEW x \in Samples
    PROVE  Minute(x) \in Minutes
  <1>1. Minute(0) = 0
    BY ConstantsAssumption DEF Minute
  <1>2. 0 <= Minute(x) /\ Minute(x) <= Minute(MaxTime) /\ Minute(x) \in Int
    <2>1. MaxTime \in Nat /\ x \in Int /\ 0 <= x /\ x <= MaxTime
      BY ConstantsAssumption DEF Samples
    <2>2. Minute(0) <= Minute(x) /\ Minute(x) <= Minute(MaxTime) /\ Minute(x) \in Int
      BY <2>1, MinutesGrow, MinuteIs
    <2> QED
      BY <1>1, <2>2
  <1> QED
    BY <1>2 DEF Minutes, Minute

\* What the ring has after the next sample: one of its oldest may be gone, but none
\* of the last ring_secs.
LEMMA PushKeeps ==
    ASSUME NEW c \in Nat, NEW r \in SUBSET (0..c), Cardinality(r) <= RingSecs
    PROVE  /\ Push(r, c + 1) \subseteq r \cup {c + 1}
           /\ c + 1 \in Push(r, c + 1)
           /\ Cardinality(Push(r, c + 1)) <= RingSecs
           /\ \A x \in r : x > c + 1 - RingSecs => x \in Push(r, c + 1)
  <1>1. RingSecs \in Nat \ {0}
    BY ConstantsAssumption
  <1>2. IsFiniteSet(r) /\ Cardinality(r) \in Nat
    <2>1. IsFiniteSet(0..c)
      BY FS_Interval
    <2>2. IsFiniteSet(r)
      BY <2>1, FS_Subset
    <2> QED
      BY <2>2, FS_CardinalityType
  <1>3. ~ \E y \in r : y > c + 1
    OBVIOUS
  <1>s. r \in SUBSET Nat /\ \A y \in r : y \in Int /\ 0 <= y /\ y <= c
    OBVIOUS
  <1>4. CASE RingFull(r)
    <2>1. r # {}
      BY <1>1, <1>4, FS_EmptySet DEF RingFull
    <2>2. PICK least \in r : least = Min(r) /\ \A y \in r : least <= y
      BY <2>1, <1>s, MinIsLeast
    <2>3. Push(r, c + 1) = (r \ {least}) \cup {c + 1}
      BY <1>3, <1>4, <2>2 DEF Push
    <2>4. IsFiniteSet(r \ {least}) /\ Cardinality(r \ {least}) = Cardinality(r) - 1
      BY <1>2, FS_RemoveElement
    <2>5. /\ Cardinality((r \ {least}) \cup {c + 1}) \in Int
          /\ Cardinality((r \ {least}) \cup {c + 1}) <= Cardinality(r)
      <3> DEFINE rest == r \ {least}
      <3>1. Cardinality(rest \cup {c + 1}) = IF c + 1 \in rest THEN Cardinality(rest) ELSE Cardinality(rest) + 1
        BY <2>4, FS_AddElement
      <3> QED
        BY <3>1, <2>4, <1>2
    <2>6. Cardinality(r) <= c - least + 1
      <3>1. least \in Int /\ least <= c /\ r \in SUBSET (least..c)
        BY <2>2, <1>s
      <3>2. IsFiniteSet(least..c) /\ Cardinality(least..c) = c - least + 1
        BY <3>1, FS_Interval
      <3> QED
        BY <3>1, <3>2, FS_Subset
    <2>7. least <= c + 1 - RingSecs
      BY <2>2, <2>6, <1>4, <1>1, <1>2, <1>s DEF RingFull
    <2>8. \A x \in r : x > c + 1 - RingSecs => x # least
      BY <2>7, <2>2, <1>1, <1>s
    <2>9. /\ Push(r, c + 1) \subseteq r \cup {c + 1} /\ c + 1 \in Push(r, c + 1)
          /\ \A x \in r : x # least => x \in Push(r, c + 1)
      BY <2>3
    <2>10. Cardinality(Push(r, c + 1)) <= RingSecs
      BY <2>3, <2>5, <1>1, <1>2
    <2> QED
      BY <2>8, <2>9, <2>10
  <1>5. CASE ~RingFull(r)
    <2>1. Push(r, c + 1) = r \cup {c + 1}
      BY <1>3, <1>5 DEF Push
    <2>2. Cardinality(r \cup {c + 1}) = Cardinality(r) + 1
      <3>1. c + 1 \notin r
        BY <1>s
      <3> QED
        BY <1>2, <3>1, FS_AddElement
    <2>3. Cardinality(r) + 1 <= RingSecs
      BY <1>5, <1>1, <1>2 DEF RingFull
    <2>4. Cardinality(Push(r, c + 1)) <= RingSecs
      BY <2>1, <2>2, <2>3
    <2> QED
      BY <2>1, <2>4
  <1> QED
    BY <1>4, <1>5

\* Where a flush begins.
LEMMA FirstIs ==
    ASSUME NEW cur \in Int, NEW b \in Int
    PROVE  /\ FirstOf(b, cur) \in Int /\ FirstOf(b, cur) > b
           /\ cur - RingMinutes <= b + 1 => FirstOf(b, cur) = b + 1
  <1>1. RingMinutes \in Int
    BY ConstantsAssumption, DivIs DEF RingMinutes
  <1>2. ASSUME NEW i \in Int, NEW j \in Int
        PROVE  Max({i, j}) \in {i, j} /\ Max({i, j}) >= i /\ Max({i, j}) >= j
    BY DEF Max
  <1>3. /\ Max({b + 1, cur - RingMinutes}) \in {b + 1, cur - RingMinutes}
        /\ Max({b + 1, cur - RingMinutes}) >= b + 1
        /\ Max({b + 1, cur - RingMinutes}) >= cur - RingMinutes
    <2>1. b + 1 \in Int /\ cur - RingMinutes \in Int
      BY <1>1
    <2> QED
      BY <2>1, <1>2
  <1> QED
    BY <1>1, <1>3 DEF FirstOf

\* What the first part of a flush does.
LEMMA FlushBegins ==
    ASSUME NEW cur \in Int, NEW b \in Int, NEW to \in Int, FlushBegin(cur, b, to)
    PROVE  /\ last' = b
           /\ \/ to <= b /\ pc' = "idle" /\ late' = 0 /\ UNCHANGED <<minute, target, wrote>>
              \/ /\ to > b /\ pc' = "flush" /\ minute' = FirstOf(b, cur) /\ minute' \in Int
                 /\ minute' > b /\ target' = to /\ wrote' = FALSE /\ late' = late
  BY FirstIs DEF FlushBegin, flushes

-----------------------------------------------------------------------------
(* Flushes, the ring and the clock.                                        *)

\* Flushes follow the clock: what is flushed is over, but for the last flush of a
\* process that stops, and what is rolled up has been flushed.
TimeInv ==
    /\ TypeOK
    /\ ring \subseteq absorbed
    /\ last = None => absorbed = {}
    /\ pc = "down" => last = None /\ ~stopping
    /\ last # None => last <= Minute(clock) /\ (stopping \/ last < Minute(clock))
    /\ pc = "flush" =>
         /\ last # None /\ last < minute /\ last < target
         /\ Minute(clock) - 1 <= target /\ target <= Minute(clock)
         /\ stopping \/ target < Minute(clock)
    /\ pc \in {"roll", "prune"} => last # None /\ Minute(clock) - 1 <= last
    /\ pc = "roll" => tier >= 2

\* The ring has what the last ring_secs brought.
RecentStay == \A x \in absorbed : x > clock - RingSecs => x \in ring

\* The rows that a round begins with.
RowTypes ==
    /\ rows \in [Series -> [Tiers -> [Minutes -> SUBSET Samples]]]
    /\ stored \in [Series -> [Minutes -> SUBSET Samples]]
    /\ rolledAt \in [Tiers -> Minutes]

\* A minute that is written.
LEMMA InsertTypes ==
    ASSUME RowTypes, NEW s \in Series, NEW m \in Minutes, NEW row \in SUBSET Samples, Insert(s, m, row)
    PROVE  /\ rows' \in [Series -> [Tiers -> [Minutes -> SUBSET Samples]]]
           /\ stored' \in [Series -> [Minutes -> SUBSET Samples]]
  <1>1. 1 \in Tiers
    BY ConstantsAssumption DEF Tiers
  <1>2. stored' \in [Series -> [Minutes -> SUBSET Samples]]
    BY DEF Insert, RowTypes
  <1>3. [rows[s][1] EXCEPT ![m] = row] \in [Minutes -> SUBSET Samples]
    BY <1>1 DEF RowTypes
  <1>4. [rows[s] EXCEPT ![1] = [rows[s][1] EXCEPT ![m] = row]] \in [Tiers -> [Minutes -> SUBSET Samples]]
    BY <1>1, <1>3 DEF RowTypes
  <1>5. rows' = [rows EXCEPT ![s] = [rows[s] EXCEPT ![1] = [rows[s][1] EXCEPT ![m] = row]]]
    BY DEF Insert
  <1> HIDE DEF RowTypes
  <1>6. rows \in [Series -> [Tiers -> [Minutes -> SUBSET Samples]]]
    BY DEF RowTypes
  <1> QED
    BY <1>2, <1>4, <1>5, <1>6

\* The tables after a step.
LEMMA RowTypesStep == TimeInv /\ Next => RowTypes'
  <1> SUFFICES ASSUME TimeInv, Next PROVE RowTypes'
    OBVIOUS
  <1>t. RowTypes /\ tier \in 1..(Top + 1) /\ clock \in Samples /\ ring \subseteq Samples /\ minute \in Int
    BY DEF TimeInv, TypeOK, RowTypes
  <1>c. Minute(clock) \in Minutes
    BY <1>t, MinutesAreThere
  <1>1. CASE UNCHANGED tables
    BY <1>1, <1>t DEF tables, RowTypes
  <1>2. CASE FlushMinute
    <2>1. PICK x \in ring : Minute(x) = minute
      BY <1>2 DEF FlushMinute, RowOf, Span
    <2>2. minute \in Minutes
      BY <2>1, <1>t, MinutesAreThere
    <2>3. RowOf(minute) \in SUBSET Samples
      BY <1>t DEF RowOf
    <2>4. Insert("local", minute, RowOf(minute)) /\ rolledAt' = rolledAt
      BY <1>2 DEF FlushMinute
    <2>5. "local" \in Series
      BY DEF Series
    <2> QED
      BY <2>2, <2>3, <2>4, <2>5, <1>t, InsertTypes DEF RowTypes
  <1>3. ASSUME NEW m \in Minutes, AgentRow(m) PROVE RowTypes'
    <2>1. Insert("agent", m, {m * PerMin}) /\ rolledAt' = rolledAt /\ m < Minute(clock)
      BY <1>3 DEF AgentRow
    <2>2. m * PerMin \in Samples
      <3>1. m \in Nat /\ PerMin \in Nat \ {0} /\ clock \in Int /\ clock <= MaxTime /\ Minute(clock) \in Int
        BY <1>t, MinuteIs, ConstantsAssumption DEF Minutes, Samples
      <3>2. m * PerMin <= clock
        BY <3>1, <2>1, MinuteHasBegun
      <3>3. m * PerMin \in Nat
        BY <3>1
      <3> QED
        BY <3>1, <3>2, <3>3, ConstantsAssumption DEF Samples
    <2>3. "agent" \in Series
      BY DEF Series
    <2> QED
      BY <2>1, <2>2, <2>3, <1>t, InsertTypes DEF RowTypes
  <1>4. CASE Roll
    <2>1. tier \in Tiers /\ tier >= 1 /\ rows' = RollUp(tier) /\ stored' = stored
          /\ rolledAt' = [rolledAt EXCEPT ![tier] = Minute(clock)]
      BY <1>4, <1>t, ConstantsAssumption DEF Roll, Tiers
    <2>2. rolledAt' \in [Tiers -> Minutes]
      BY <2>1, <1>c, <1>t DEF RowTypes
    <2>3. ASSUME NEW s \in Series, NEW b \in Minutes, tier # 1
          PROVE  Sum(s, tier, b) \in SUBSET Samples
      <3>1. tier - 1 \in Tiers
        BY <2>1, <2>3, ConstantsAssumption DEF Tiers
      <3> QED
        BY <3>1, <1>t DEF Sum, RowTypes
    <2>4. tier # 1
      BY <1>4, <1>t DEF Roll, TimeInv
    <2> QED
      BY <2>1, <2>2, <2>3, <2>4, <1>t DEF RowTypes, RollUp
  <1>5. CASE Prune
    <2>1. tier \in Tiers /\ stored' = stored /\ rolledAt' = rolledAt
          /\ rows' = [s \in Series |-> [rows[s] EXCEPT ![tier] =
                        [b \in Minutes |-> IF Outdated(tier, b) THEN {} ELSE rows[s][tier][b]]]]
      BY <1>5, <1>t, ConstantsAssumption DEF Prune, Tiers
    <2> QED
      BY <2>1, <1>t DEF RowTypes
  <1> QED
    BY <1>1, <1>2, <1>3, <1>4, <1>5
       DEF Next, Tick, Skip, Flush, FlushNothing, FlushFails, FlushEnd, Maintain, RollEnd, PruneEnd,
           MaintainFails, Stop, Exit, Crash, GoDown, Pass, Start
\* Something that failed has room in the bound.
LEMMA TroublesAreCounted == TypeOK /\ Trouble => trouble' \in 0..MaxTrouble
  BY ConstantsAssumption DEF TypeOK, Trouble

\* What a process has before its first round.
LEMMA InitTimeInv == Init => TimeInv
  <1> SUFFICES ASSUME Init PROVE TimeInv
    OBVIOUS
  <1>1. 0 \in Samples /\ 0 \in Minutes /\ Minute(0) = 0
    <2>1. 0 \in Samples /\ Minute(0) = 0
      BY ConstantsAssumption DEF Samples, Minute
    <2> QED
      BY <2>1, MinutesAreThere
  <1>2. Cardinality(ring) = 0
    BY FS_EmptySet DEF Init
  <1>3. TypeOK
    <2>1. RowTypes
      BY <1>1 DEF Init, RowTypes
    <2>2. /\ clock \in Samples /\ ring \subseteq Samples /\ Cardinality(ring) <= RingSecs
          /\ absorbed \subseteq 0..clock /\ {firstTs, namedAt} \subseteq Samples \cup {None}
          /\ last \in Int \cup {None} /\ minute \in Int /\ target \in Int /\ tier \in 1..(Top + 1)
          /\ late \in 0..MaxLate /\ trouble \in 0..MaxTrouble
      BY <1>1, <1>2, ConstantsAssumption DEF Init
    <2>3. pc \in {"idle", "flush", "roll", "prune", "down"} /\ stopping \in BOOLEAN /\ wrote \in BOOLEAN
      BY DEF Init
    <2> QED
      BY <2>1, <2>2, <2>3 DEF TypeOK, RowTypes
  <1> QED
    BY <1>3 DEF Init, TimeInv

\* The time goes on, no samples come.
LEMMA ClockTypes ==
    ASSUME TypeOK, clock < MaxTime, clock' = clock + 1
    PROVE  /\ clock' \in Samples /\ clock \in Nat /\ clock' \in Int
           /\ 0..clock \subseteq 0..clock' /\ Minute(clock) <= Minute(clock')
           /\ Minute(clock) \in Int /\ Minute(clock') \in Int
  <1>1. clock \in Nat /\ clock' \in Int /\ clock <= clock' /\ clock' \in Samples
    BY ConstantsAssumption DEF TypeOK, Samples
  <1> QED
    BY <1>1, MinutesGrow, MinuteIs

\* A round of sampling.
LEMMA TickKeepsTime ==
    ASSUME TimeInv, Tick, RowTypes'
    PROVE  TimeInv'
  <1> DEFINE cur == Minute(clock')
  <1>t. /\ TypeOK /\ ring \subseteq absorbed /\ absorbed \subseteq 0..clock
        /\ Cardinality(ring) <= RingSecs /\ last \in Int \cup {None} /\ late \in 0..MaxLate
        /\ minute \in Int /\ target \in Int
        /\ last # None => last < Minute(clock)
    BY DEF TimeInv, TypeOK, Tick
  <1>k. /\ clock' = clock + 1 /\ ring' = Push(ring, clock + 1) /\ absorbed' = absorbed \cup {clock'}
        /\ FlushBegin(cur, BaseOf(cur), cur - 1)
        /\ UNCHANGED <<stopping, tier, tables>> /\ ~stopping /\ clock < MaxTime /\ pc = "idle"
    BY DEF Tick
  <1>c. /\ clock' \in Samples /\ clock \in Nat /\ clock' \in Int /\ 0..clock \subseteq 0..clock'
        /\ Minute(clock) <= cur /\ Minute(clock) \in Int /\ cur \in Int
    BY <1>t, <1>k, ClockTypes
  <1>b. BaseOf(cur) \in Int /\ BaseOf(cur) < cur
    BY <1>t, <1>c DEF BaseOf
  <1>f. /\ last' = BaseOf(cur)
        /\ \/ pc' = "idle" /\ late' = 0 /\ UNCHANGED <<minute, target, wrote>>
           \/ /\ cur - 1 > BaseOf(cur) /\ pc' = "flush" /\ minute' \in Int
              /\ minute' > BaseOf(cur) /\ target' = cur - 1 /\ wrote' = FALSE /\ late' = late
    <2>1. cur - 1 \in Int /\ FlushBegin(cur, BaseOf(cur), cur - 1)
      BY <1>c, <1>k
    <2> HIDE DEF cur
    <2> QED
      BY <2>1, <1>c, <1>b, FlushBegins
  <1>r. ring' \subseteq ring \cup {clock'} /\ Cardinality(ring') <= RingSecs
    BY <1>t, <1>k, <1>c, PushKeeps
  <1>1. /\ clock' \in Samples /\ ring' \subseteq Samples /\ absorbed' \subseteq 0..clock'
    <2>1. \A x \in 0..clock' : x \in Samples
      BY <1>c, ConstantsAssumption DEF Samples
    <2>2. clock' \in 0..clock'
      BY <1>c, <1>k
    <2>3. absorbed' \subseteq 0..clock'
      BY <1>t, <1>k, <1>c, <2>2
    <2>4. ring' \subseteq 0..clock'
      BY <1>r, <1>t, <1>c, <2>2
    <2> QED
      BY <1>c, <2>1, <2>3, <2>4
  <1>2. {firstTs', namedAt'} \subseteq Samples \cup {None} /\ trouble' \in 0..MaxTrouble
    BY <1>c, TroublesAreCounted DEF Tick, TimeInv, TypeOK
  <1>w. wrote' \in BOOLEAN
    BY <1>f DEF TimeInv, TypeOK
  <1>3. /\ last' \in Int \cup {None} /\ minute' \in Int /\ target' \in Int
        /\ late' \in 0..MaxLate /\ pc' \in {"idle", "flush"}
    <2> HIDE DEF cur
    <2>1. last' \in Int
      BY <1>f, <1>b
    <2>2. minute' \in Int /\ target' \in Int /\ pc' \in {"idle", "flush"}
      BY <1>f, <1>c, <1>t
    <2>3. late' = 0 \/ late' = late
      BY <1>f
    <2>4. late' \in 0..MaxLate
      BY <2>3, <1>t, ConstantsAssumption
    <2> QED
      BY <2>1, <2>2, <2>4
  <1>4. TypeOK'
    BY <1>1, <1>2, <1>3, <1>w, <1>r, <1>k DEF TimeInv, TypeOK, RowTypes
  <1>5. ring' \subseteq absorbed'
    BY <1>r, <1>t, <1>k
  <1> HIDE DEF cur
  <1>6. /\ last' # None /\ last' < cur /\ pc' \in {"idle", "flush"} /\ ~stopping'
        /\ pc' = "flush" => last' < minute' /\ last' < target' /\ target' = cur - 1
    BY <1>f, <1>b, <1>c, <1>k, ConstantsAssumption
  <1>7. last' \in Int /\ cur \in Int /\ cur = Minute(clock)'
    BY <1>f, <1>b, <1>c DEF cur, Minute
  <1> QED
    BY <1>4, <1>5, <1>6, <1>7 DEF TimeInv

\* A step that the clock and the tables do not see.
LEMMA StepKeepsTime ==
    ASSUME TimeInv, Next, ~Tick, RowTypes'
    PROVE  TimeInv'
  <1>t. /\ TypeOK /\ clock \in Nat /\ clock \in Samples /\ Minute(clock) \in Int
        /\ last \in Int \cup {None} /\ minute \in Int /\ target \in Int /\ late \in 0..MaxLate
        /\ tier \in 1..(Top + 1) /\ Top \in Nat \ {0} /\ MaxLate \in Nat /\ None \notin Int
    <2>1. TypeOK /\ clock \in Nat /\ clock \in Samples
      BY ConstantsAssumption DEF TimeInv, TypeOK, Samples
    <2>2. Minute(clock) \in Int
      BY <2>1, MinuteIs
    <2> QED
      BY <2>1, <2>2, ConstantsAssumption DEF TypeOK
  <1>1. CASE Skip \/ Pass
    <2>1. /\ clock < MaxTime /\ clock' = clock + 1
          /\ UNCHANGED <<memory, pc, stopping, flushes, tier, tables>> /\ pc \in {"idle", "down"}
          /\ late' \in 0..MaxLate /\ trouble' \in 0..MaxTrouble
      BY <1>1, <1>t, TroublesAreCounted DEF Skip, Pass, TypeOK
    <2>2. /\ clock' \in Samples /\ 0..clock \subseteq 0..clock'
          /\ Minute(clock) <= Minute(clock') /\ Minute(clock') \in Int
      BY <2>1, <1>t, ClockTypes
    <2>3. TypeOK'
      BY <2>1, <2>2 DEF TimeInv, TypeOK, memory, flushes, tables
    <2>4. Minute(clock)' = Minute(clock')
      BY DEF Minute
    <2> QED
      BY <2>1, <2>2, <2>3, <2>4, <1>t DEF TimeInv, memory, flushes
  <1>2. CASE FlushNothing \/ FlushMinute
    <2>0. wrote' \in BOOLEAN
      BY <1>2, <1>t DEF FlushNothing, FlushMinute, TypeOK
    <2>1. /\ pc = "flush" /\ minute' = minute + 1
          /\ UNCHANGED <<clock, memory, pc, stopping, target, tier, late, trouble>>
      BY <1>2 DEF FlushNothing, FlushMinute
    <2>2. TypeOK'
      BY <2>0, <2>1, <1>t DEF TypeOK, RowTypes, memory
    <2> QED
      BY <2>1, <2>2, <1>t DEF TimeInv, memory, Minute
  <1>3. CASE FlushFails
    <2>1. /\ pc = "flush" /\ pc' = "idle" /\ late' \in 0..MaxLate /\ trouble' \in 0..MaxTrouble
          /\ UNCHANGED <<clock, memory, stopping, flushes, tier, tables>>
      BY <1>3, <1>t, TroublesAreCounted DEF FlushFails
    <2>2. TypeOK'
      BY <2>1 DEF TimeInv, TypeOK, memory, flushes, tables
    <2> QED
      BY <2>1, <2>2, <1>t DEF TimeInv, memory, Minute
  <1>4. CASE FlushEnd
    <2>1. /\ pc = "flush" /\ last' = target /\ late' = 0
          /\ \/ pc' = "roll" /\ tier' = 2
             \/ pc' = "idle" /\ tier' = tier
          /\ UNCHANGED <<clock, ring, firstTs, namedAt, absorbed, stopping, flushes, tables, trouble>>
      BY <1>4 DEF FlushEnd
    <2>2. TypeOK'
      BY <2>1, <1>t DEF TimeInv, TypeOK, flushes, tables
    <2> QED
      BY <2>1, <2>2, <1>t DEF TimeInv, Minute
  <1>5. CASE Roll \/ RollEnd \/ Prune \/ PruneEnd \/ MaintainFails
    <2>1. /\ UNCHANGED <<clock, memory, stopping, flushes, late>> /\ trouble' \in 0..MaxTrouble
          /\ pc \in {"roll", "prune"} /\ pc' \in {"roll", "prune", "idle"} /\ tier' \in 1..(Top + 1)
          /\ pc' = "roll" => pc = "roll" /\ tier' = tier + 1
      BY <1>5, <1>t, TroublesAreCounted DEF Roll, RollEnd, Prune, PruneEnd, MaintainFails, TypeOK
    <2>2. TypeOK'
      BY <2>1 DEF TimeInv, TypeOK, RowTypes, memory, flushes
    <2> QED
      BY <2>1, <2>2, <1>t DEF TimeInv, memory, flushes, Minute
  <1>6. ASSUME NEW m \in Minutes, AgentRow(m) PROVE TimeInv'
    <2>1. /\ UNCHANGED <<clock, memory, pc, stopping, flushes, tier, late>> /\ trouble' \in 0..MaxTrouble
      BY <1>6, <1>t, TroublesAreCounted DEF AgentRow
    <2>2. TypeOK'
      BY <2>1 DEF TimeInv, TypeOK, RowTypes, memory, flushes
    <2> QED
      BY <2>1, <2>2, <1>t DEF TimeInv, memory, flushes, Minute
  <1>7. CASE Stop
    <2> DEFINE cur == Minute(clock)
    <2>1. /\ FlushBegin(cur, BaseOf(cur), cur) /\ stopping' = TRUE /\ ~stopping /\ pc = "idle"
          /\ trouble' \in 0..MaxTrouble
          /\ UNCHANGED <<clock, ring, firstTs, namedAt, absorbed, tier, tables>>
      BY <1>7, <1>t, TroublesAreCounted DEF Stop
    <2>2. BaseOf(cur) \in Int /\ BaseOf(cur) < cur
      BY <2>1, <1>t DEF BaseOf, TimeInv
    <2>3. /\ last' = BaseOf(cur)
          /\ \/ pc' = "idle" /\ late' = 0 /\ UNCHANGED <<minute, target, wrote>>
             \/ /\ pc' = "flush" /\ minute' \in Int
                /\ minute' > BaseOf(cur) /\ target' = cur /\ wrote' = FALSE /\ late' = late
      BY <2>1, <1>t, <2>2, FlushBegins
    <2>w. wrote' \in BOOLEAN
      BY <2>3, <1>t DEF TypeOK
    <2>v. last' \in Int \cup {None} /\ minute' \in Int /\ target' \in Int /\ late' \in 0..MaxLate
          /\ pc' \in {"idle", "flush"}
      BY <2>2, <2>3, <1>t
    <2>4. TypeOK'
      BY <2>1, <2>w, <2>v, <1>t DEF TypeOK, tables
    <2>5. Minute(clock)' = cur
      BY <2>1 DEF Minute
    <2> QED
      BY <2>1, <2>2, <2>3, <2>4, <2>5, <1>t DEF TimeInv
  <1>8. CASE Exit \/ Crash
    <2>1. GoDown /\ trouble' \in 0..MaxTrouble
      BY <1>8, <1>t, TroublesAreCounted DEF Exit, Crash, TypeOK
    <2>2. Cardinality(ring') <= RingSecs
      BY <2>1, FS_EmptySet, ConstantsAssumption DEF GoDown
    <2>3. TypeOK'
      <3>0. stopping' \in BOOLEAN
        BY <2>1 DEF GoDown
      <3>1. /\ pc' = "down" /\ ring' \subseteq Samples /\ absorbed' \subseteq 0..clock'
            /\ last' \in Int \cup {None} /\ {firstTs', namedAt'} \subseteq Samples \cup {None}
            /\ late' \in 0..MaxLate
            /\ UNCHANGED <<clock, minute, target, wrote, tier, rows, stored, rolledAt>>
        BY <2>1, <1>t DEF GoDown, flushes, tables
      <3> QED
        BY <2>1, <2>2, <3>0, <3>1, <1>t DEF TypeOK
    <2> QED
      BY <2>1, <2>3 DEF TimeInv, GoDown
  <1>9. CASE Start
    <2>1. /\ pc = "down" /\ pc' = "idle"
          /\ UNCHANGED <<clock, memory, stopping, flushes, tier, tables, late, trouble>>
      BY <1>9 DEF Start
    <2>2. TypeOK'
      BY <2>1 DEF TimeInv, TypeOK, memory, flushes, tables
    <2> QED
      BY <2>1, <2>2 DEF TimeInv, memory
  <1> QED
    BY <1>1, <1>2, <1>3, <1>4, <1>5, <1>6, <1>7, <1>8, <1>9 DEF Next, Flush, Maintain

\* A step of the metrics.
LEMMA TimeStep == TimeInv /\ Next => TimeInv'
  BY RowTypesStep, TickKeepsTime, StepKeepsTime

\* Samples that are recent stay in the ring.
LEMMA RecentStep ==
    ASSUME TimeInv, RecentStay, Next
    PROVE  RecentStay'
  <1>t. /\ clock \in Nat /\ ring \in SUBSET (0..clock) /\ absorbed \in SUBSET (0..clock)
        /\ Cardinality(ring) <= RingSecs /\ RingSecs \in Nat
    <2>1. clock \in Nat /\ RingSecs \in Nat
      BY ConstantsAssumption DEF TimeInv, TypeOK, Samples
    <2> QED
      BY <2>1 DEF TimeInv, TypeOK
  <1>1. CASE Tick
    <2>1. clock' = clock + 1 /\ ring' = Push(ring, clock + 1) /\ absorbed' = absorbed \cup {clock + 1}
      BY <1>1 DEF Tick
    <2>2. clock + 1 \in ring' /\ \A x \in ring : x > clock + 1 - RingSecs => x \in ring'
      BY <2>1, <1>t, PushKeeps
    <2>3. ASSUME NEW x \in absorbed, x > clock + 1 - RingSecs PROVE x \in ring'
      <3>1. x \in Int /\ x > clock - RingSecs
        BY <2>3, <1>t
      <3> QED
        BY <3>1, <2>2, <2>3 DEF RecentStay
    <2>4. ASSUME NEW x \in absorbed', x > clock' - RingSecs PROVE x \in ring'
      <3>1. x \in absorbed \/ x = clock + 1
        BY <2>1, <2>4
      <3>2. x > clock + 1 - RingSecs
        BY <2>1, <2>4, <1>t
      <3> QED
        BY <3>1, <3>2, <2>2, <2>3
    <2> QED
      BY <2>4 DEF RecentStay
  <1>2. CASE Skip \/ Pass
    <2>1. clock' = clock + 1 /\ ring' = ring /\ absorbed' = absorbed
      BY <1>2 DEF Skip, Pass, memory
    <2>2. \A x \in absorbed : x \in Int
      BY <1>t
    <2> QED
      BY <2>1, <2>2, <1>t DEF RecentStay
  <1>3. CASE Exit \/ Crash
    BY <1>3 DEF Exit, Crash, GoDown, RecentStay
  <1>4. CASE UNCHANGED <<clock, ring, absorbed>>
    BY <1>4 DEF RecentStay
  <1> QED
    BY <1>1, <1>2, <1>3, <1>4
       DEF Next, Flush, FlushNothing, FlushMinute, FlushFails, FlushEnd, Maintain, Roll, RollEnd, Prune,
           PruneEnd, MaintainFails, AgentRow, Stop, Start, memory

\* That is what a query of the ring needs.
LEMMA RecentIsEnough == TimeInv /\ RecentStay => LiveAnswerIsWhole
  <1> SUFFICES ASSUME TimeInv, RecentStay, NEW from \in Samples, RingCovers(from),
                      NEW x \in absorbed, x >= from, x # clock - RingSecs
               PROVE  x \in ring
    BY DEF LiveAnswerIsWhole
  <1>1. x \in Int /\ clock \in Int /\ RingSecs \in Int /\ from \in Int
    BY ConstantsAssumption DEF TimeInv, TypeOK, Samples
  <1>2. x > clock - RingSecs
    BY <1>1 DEF RingCovers
  <1> QED
    BY <1>2 DEF RecentStay

-----------------------------------------------------------------------------
(* Rows of minutes.                                                        *)

\* The ring has room for a minute and the rounds that may be late.
RingSuffices == PerMin + MaxLate < RingSecs

\* A minute has its row, or needs none.
Complete(m) ==
    absorbed \cap Span(m) # {} /\ namedAt # None /\ Minute(namedAt) <= m
        => stored["local"][m] = absorbed \cap Span(m)

\* The flush is behind the clock by the rounds that were late, no further.
RoomInv ==
    /\ pc \in {"idle", "roll", "prune"} /\ last # None => clock < (last + 2) * PerMin + late
    /\ pc = "flush" => clock <= (last + 2) * PerMin + late
    /\ last # None => \A m \in Minutes : m <= last => Complete(m)
    /\ pc = "flush" => \A m \in Minutes : m < minute => Complete(m)

\* As far behind as that, the ring has every minute that is still to be written.
LEMMA RoomForAll ==
    ASSUME RingSuffices, NEW c \in Int, NEW b \in Int, NEW behind \in 0..MaxLate,
           c <= (b + 2) * PerMin + behind
    PROVE  /\ c - RingSecs < (b + 1) * PerMin
           /\ FirstOf(b, Minute(c)) = b + 1
  <1>1. PerMin \in Nat \ {0} /\ RingSecs \in Nat /\ MaxLate \in Nat /\ behind \in Int /\ behind <= MaxLate
    BY ConstantsAssumption
  <1>2. (b + 2) * PerMin = (b + 1) * PerMin + PerMin
    BY <1>1
  <1>3. (b + 1) * PerMin \in Int
    BY <1>1
  <1>4. c - RingSecs < (b + 1) * PerMin
    BY <1>1, <1>2, <1>3 DEF RingSuffices
  <1>5. Minute(c) - RingMinutes <= b + 1
    <2>1. /\ RingMinutes \in Int /\ Minute(c) \in Int
          /\ RingSecs < PerMin * RingMinutes + PerMin
      BY <1>1, MinuteIs, DivIs DEF RingMinutes
    <2>2. PerMin * Minute(c) <= c
      BY <1>1, <2>1, MinuteIs
    <2>3. PerMin * Minute(c) < (b + 1) * PerMin + PerMin * RingMinutes + PerMin
      BY <1>1, <1>3, <1>4, <2>1, <2>2
    <2>4. (b + 1) * PerMin + PerMin * RingMinutes + PerMin = PerMin * (b + 2 + RingMinutes)
      BY <1>1, <2>1
    <2>5. Minute(c) < b + 2 + RingMinutes
      BY <1>1, <2>1, <2>3, <2>4, TimesReflects
    <2> QED
      BY <2>1, <2>5
  <1>6. Minute(c) \in Int
    BY MinuteIs
  <1> QED
    BY <1>4, <1>5, <1>6, FirstIs

\* Minutes of which nothing changes stay complete.
LEMMA CompleteStays ==
    ASSUME NEW m \in Minutes, Complete(m), absorbed' \cap Span(m) = absorbed \cap Span(m),
           stored'["local"][m] = stored["local"][m],
           namedAt' = namedAt \/ (namedAt = None /\ ~(Minute(namedAt') <= m))
    PROVE  Complete(m)'
  BY DEF Complete, Span, Minute

\* A row of a minute is what the ring has of it, and that is all.
LEMMA RowIsComplete ==
    ASSUME TimeInv, RecentStay, RoomInv, RingSuffices, pc = "flush"
    PROVE  /\ ring \cap Span(minute) = absorbed \cap Span(minute)
           /\ last \in Int /\ minute \in Int
  <1>1. /\ last \in Int /\ clock \in Int /\ late \in 0..MaxLate /\ minute \in Int /\ last < minute
        /\ clock <= (last + 2) * PerMin + late
    BY ConstantsAssumption DEF TimeInv, TypeOK, RoomInv, Samples
  <1>2. clock - RingSecs < (last + 1) * PerMin
    BY <1>1, RoomForAll
  <1>3. ASSUME NEW x \in absorbed \cap Span(minute) PROVE x \in ring
    <2>1. x \in Int /\ Minute(x) = minute
      BY <1>3, ConstantsAssumption DEF Span, Samples
    <2>2. (last + 1) * PerMin <= x
      BY <2>1, <1>1, MinuteHasBegun
    <2>3. (last + 1) * PerMin \in Int /\ RingSecs \in Int
      BY <1>1, ConstantsAssumption
    <2>4. x > clock - RingSecs
      BY <1>1, <1>2, <2>1, <2>2, <2>3
    <2> QED
      BY <2>4, <1>3 DEF RecentStay
  <1> QED
    BY <1>1, <1>3 DEF TimeInv

\* A round of sampling.
LEMMA TickKeepsRoom ==
    ASSUME TimeInv, RoomInv, RingSuffices, Tick
    PROVE  RoomInv'
  <1> DEFINE cur == Minute(clock + 1)
  <1>t. /\ last \in Int \cup {None} /\ late \in 0..MaxLate /\ clock \in Nat /\ PerMin \in Nat \ {0}
        /\ last # None => last < Minute(clock)
        /\ last = None => absorbed = {}
        /\ absorbed \subseteq 0..clock
    BY ConstantsAssumption DEF TimeInv, TypeOK, Tick, Samples
  <1>k. /\ clock' = clock + 1 /\ absorbed' = absorbed \cup {clock + 1}
        /\ FlushBegin(cur, BaseOf(cur), cur - 1) /\ stored' = stored /\ pc = "idle"
        /\ namedAt' = namedAt \/ (namedAt = None /\ namedAt' = clock + 1)
    BY DEF Tick, tables
  <1>c. /\ clock + 1 \in Int /\ cur \in Int /\ Minute(clock) \in Int /\ Minute(clock) <= cur
        /\ clock + 1 < (cur + 1) * PerMin
    BY <1>t, MinuteIs, MinutesGrow
  <1>b. BaseOf(cur) \in Int /\ BaseOf(cur) < cur
    BY <1>t, <1>c DEF BaseOf
  <1> HIDE DEF cur
  <1>f. /\ last' = BaseOf(cur)
        /\ \/ cur - 1 <= BaseOf(cur) /\ pc' = "idle" /\ late' = 0
           \/ cur - 1 > BaseOf(cur) /\ pc' = "flush" /\ minute' = FirstOf(BaseOf(cur), cur) /\ late' = late
    <2>1. cur - 1 \in Int
      BY <1>c
    <2> QED
      BY <2>1, <1>k, <1>c, <1>b, FlushBegins
  <1>1. ASSUME NEW m \in Minutes, m <= last'
        PROVE  Complete(m)'
    <2>1. m \in Int /\ m < cur
      BY <1>1, <1>f, <1>b, <1>c DEF Minutes
    <2>2. clock + 1 \notin Span(m) /\ ~(Minute(clock + 1) <= m)
      BY <2>1, <1>c DEF Span, cur
    <2>3. absorbed' \cap Span(m) = absorbed \cap Span(m)
      BY <2>2, <1>k
    <2>4. CASE last = None
      BY <2>3, <2>4, <1>t DEF Complete, Span, Minute
    <2>5. CASE last # None
      <3>1. Complete(m)
        BY <1>1, <2>5, <1>f DEF RoomInv, BaseOf
      <3> QED
        BY <3>1, <2>2, <2>3, <1>k, CompleteStays
    <2> QED
      BY <2>4, <2>5
  <1>2. CASE pc' = "idle"
    <2>1. last' = cur - 1 /\ late' = 0
      BY <1>2, <1>f, <1>b, <1>c
    <2>2. clock' < (last' + 2) * PerMin + late'
      BY <2>1, <1>k, <1>c, <1>t
    <2> QED
      BY <2>2, <1>1, <1>2 DEF RoomInv
  <1>3. CASE pc' = "flush"
    <2>1. last' = last /\ last \in Int /\ last # None /\ late' = late
      BY <1>3, <1>f, <1>t, <1>c DEF BaseOf
    <2>2. clock + 1 <= (last + 2) * PerMin + late
      <3>1. clock < (last + 2) * PerMin + late
        BY <2>1, <1>k DEF RoomInv
      <3> QED
        BY <3>1, <2>1, <1>t
    <2>3. minute' = last + 1
      <3>1. FirstOf(last, cur) = last + 1
        BY <2>1, <2>2, <1>t, <1>c, RoomForAll DEF cur
      <3> QED
        BY <3>1, <2>1, <1>f, <1>3
    <2>4. \A m \in Minutes : m < minute' => m <= last'
      BY <2>1, <2>3 DEF Minutes
    <2> QED
      BY <1>1, <1>3, <1>k, <2>1, <2>2, <2>4 DEF RoomInv
  <1> QED
    BY <1>2, <1>3, <1>f

\* The other steps.
LEMMA StepKeepsRoom ==
    ASSUME TimeInv, RecentStay, RoomInv, RingSuffices, Next, ~Tick
    PROVE  RoomInv'
  <1>t. /\ last \in Int \cup {None} /\ late \in 0..MaxLate /\ clock \in Nat /\ PerMin \in Nat \ {0}
        /\ minute \in Int /\ target \in Int
        /\ Minute(clock) \in Int /\ clock < (Minute(clock) + 1) * PerMin
        /\ \A m \in Minutes : m \in Int
    <2>1. clock \in Nat
      BY ConstantsAssumption DEF TimeInv, TypeOK, Samples
    <2>2. Minute(clock) \in Int /\ clock < (Minute(clock) + 1) * PerMin
      BY <2>1, MinuteIs
    <2> QED
      BY <2>1, <2>2, ConstantsAssumption DEF TimeInv, TypeOK, Minutes
  <1>k. ASSUME NEW m \in Minutes, Complete(m), UNCHANGED <<absorbed, namedAt>>,
               stored'["local"][m] = stored["local"][m]
        PROVE  Complete(m)'
    BY <1>k, CompleteStays
  <1>1. CASE Skip
    <2>1. clock' = clock + 1 /\ late' = late + 1 /\ pc = "idle"
          /\ UNCHANGED <<ring, namedAt, last, absorbed, pc, minute, stored>>
      BY <1>1 DEF Skip, memory, flushes, tables
    <2>2. last # None => clock' < (last' + 2) * PerMin + late'
      <3>1. ASSUME last # None PROVE clock + 1 < (last + 2) * PerMin + (late + 1)
        <4>1. clock < (last + 2) * PerMin + late /\ (last + 2) * PerMin \in Int /\ late \in Int
          BY <3>1, <2>1, <1>t DEF RoomInv
        <4> QED
          BY <4>1, <1>t
      <3> QED
        BY <3>1, <2>1
    <2> QED
      BY <2>1, <2>2, <1>k DEF RoomInv
  <1>2. CASE FlushNothing \/ FlushMinute
    <2>1. /\ UNCHANGED <<clock, ring, namedAt, last, absorbed, pc, late>> /\ pc = "flush" /\ minute' = minute + 1
          /\ \A m \in Minutes : m # minute => stored'["local"][m] = stored["local"][m]
      <3>1. CASE FlushNothing
        BY <3>1 DEF FlushNothing, memory, tables
      <3>2. CASE FlushMinute
        <4>1. stored' = [stored EXCEPT !["local"][minute] = RowOf(minute)]
          BY <3>2 DEF FlushMinute, Insert
        <4>2. \A m \in Minutes : m # minute => stored'["local"][m] = stored["local"][m]
          BY <4>1 DEF TimeInv, TypeOK, Series
        <4> QED
          BY <3>2, <4>2 DEF FlushMinute, memory
      <3> QED
        BY <1>2, <3>1, <3>2
    <2>2. ASSUME NEW m \in Minutes, m = minute PROVE Complete(m)'
      <3>1. ring \cap Span(m) = absorbed \cap Span(m)
        BY <2>1, <2>2, RowIsComplete
      <3>2. CASE FlushNothing
        <4>1. namedAt = None \/ absorbed \cap Span(m) = {}
          BY <3>1, <3>2, <2>2 DEF FlushNothing, RowOf
        <4> QED
          BY <4>1, <2>1 DEF Complete, Span, Minute
      <3>3. CASE FlushMinute
        <4>1. RowOf(minute) = absorbed \cap Span(m)
          BY <3>1, <3>3, <2>2 DEF FlushMinute, RowOf
        <4>2. stored' = [stored EXCEPT !["local"][minute] = RowOf(minute)]
          BY <3>3 DEF FlushMinute, Insert
        <4>3. stored'["local"][m] = RowOf(minute)
          BY <4>2, <2>2 DEF TimeInv, TypeOK, Series
        <4> QED
          BY <4>1, <4>3, <2>1 DEF Complete, Span, Minute
      <3> QED
        BY <1>2, <3>2, <3>3
    <2>3. \A m \in Minutes : m <= last => m # minute
      BY <2>1, <1>t DEF TimeInv
    <2>4. \A m \in Minutes : m < minute + 1 => Complete(m)'
      <3> SUFFICES ASSUME NEW m \in Minutes, m < minute + 1 PROVE Complete(m)'
        OBVIOUS
      <3>1. CASE m = minute
        BY <3>1, <2>2
      <3>2. CASE m # minute
        <4>0. m < minute
          BY <3>2, <1>t
        <4>1. Complete(m)
          BY <4>0, <2>1 DEF RoomInv
        <4> QED
          BY <4>1, <3>2, <2>1, <1>k
      <3> QED
        BY <3>1, <3>2
    <2>5. \A m \in Minutes : last # None /\ m <= last => Complete(m)'
      BY <2>1, <2>3, <1>k DEF RoomInv
    <2>6. clock <= (last + 2) * PerMin + late
      BY <2>1 DEF RoomInv
    <2> QED
      BY <2>1, <2>4, <2>5, <2>6 DEF RoomInv
  <1>3. CASE FlushFails
    <2>1. late' = late + 1 /\ pc = "flush" /\ pc' = "idle"
          /\ UNCHANGED <<clock, namedAt, last, absorbed, stored>>
      BY <1>3 DEF FlushFails, memory, tables
    <2>2. last # None => clock < (last + 2) * PerMin + late + 1
      <3>1. ASSUME last # None PROVE clock < (last + 2) * PerMin + late + 1
        <4>1. clock <= (last + 2) * PerMin + late /\ (last + 2) * PerMin \in Int /\ late \in Int
          BY <3>1, <2>1, <1>t DEF RoomInv
        <4> QED
          BY <4>1, <1>t
      <3> QED
        BY <3>1
    <2> QED
      BY <2>1, <2>2, <1>k, <1>t DEF RoomInv
  <1>4. CASE FlushEnd
    <2>1. last' = target /\ late' = 0 /\ pc = "flush" /\ pc' \in {"idle", "roll"} /\ minute > target
          /\ UNCHANGED <<clock, namedAt, absorbed, stored>>
      BY <1>4 DEF FlushEnd, tables
    <2>2. clock < (target + 2) * PerMin
      <3>1. Minute(clock) + 1 <= target + 2
        BY <2>1, <1>t DEF TimeInv
      <3>2. PerMin * (Minute(clock) + 1) <= PerMin * (target + 2)
        BY <3>1, <1>t, TimesKeeps
      <3> QED
        BY <3>2, <1>t
    <2>3. \A m \in Minutes : m <= target => m < minute
      BY <2>1, <1>t
    <2>4. \A m \in Minutes : m <= target => Complete(m)'
      BY <2>1, <2>3, <1>k DEF RoomInv
    <2> QED
      BY <2>1, <2>2, <2>4, <1>t DEF RoomInv
  <1>5. CASE Roll \/ RollEnd \/ Prune \/ PruneEnd \/ MaintainFails
    <2>1. /\ UNCHANGED <<clock, namedAt, last, absorbed, stored, late>>
          /\ pc \in {"roll", "prune"} /\ pc' \in {"roll", "prune", "idle"}
      BY <1>5 DEF Roll, RollEnd, Prune, PruneEnd, MaintainFails, memory, tables
    <2> QED
      BY <2>1, <1>k DEF RoomInv
  <1>6. ASSUME NEW n \in Minutes, AgentRow(n) PROVE RoomInv'
    <2>1. /\ UNCHANGED <<clock, namedAt, last, absorbed, pc, minute, late>>
          /\ stored' = [stored EXCEPT !["agent"][n] = {n * PerMin}]
      BY <1>6 DEF AgentRow, Insert, memory, flushes
    <2>2. \A m \in Minutes : stored'["local"][m] = stored["local"][m]
      BY <2>1 DEF TimeInv, TypeOK, Series
    <2> QED
      BY <2>1, <2>2, <1>k DEF RoomInv
  <1>7. CASE Stop
    <2> DEFINE cur == Minute(clock)
    <2>1. /\ FlushBegin(cur, BaseOf(cur), cur) /\ ~stopping /\ pc = "idle"
          /\ UNCHANGED <<clock, namedAt, absorbed, stored>>
      BY <1>7 DEF Stop, tables
    <2>2. BaseOf(cur) \in Int /\ BaseOf(cur) < cur
      BY <2>1, <1>t DEF BaseOf, TimeInv
    <2> HIDE DEF cur
    <2>3. cur \in Int /\ clock < (cur + 1) * PerMin
      BY <1>t DEF cur
    <2>4. last' = BaseOf(cur) /\ pc' = "flush" /\ minute' = FirstOf(BaseOf(cur), cur) /\ late' = late
      <3>1. ~(cur <= BaseOf(cur))
        BY <2>2, <2>3
      <3> QED
        BY <2>1, <3>1 DEF FlushBegin
    <2>5. clock <= (last' + 2) * PerMin + late
      <3>1. CASE last = None
        <4>1. last' + 2 = cur + 1
          BY <3>1, <2>3, <2>4 DEF BaseOf
        <4> QED
          BY <4>1, <2>3, <1>t
      <3>2. CASE last # None
        <4>1. clock < (last + 2) * PerMin + late /\ last' = last /\ last \in Int
          BY <3>2, <2>1, <2>4, <1>t DEF RoomInv, BaseOf
        <4> QED
          BY <4>1, <1>t
      <3> QED
        BY <3>1, <3>2
    <2>6. minute' = last' + 1
      BY <2>2, <2>3, <2>4, <2>5, <1>t, RoomForAll DEF cur
    <2>7. ASSUME NEW m \in Minutes, m <= last' PROVE Complete(m)'
      <3>1. CASE last = None
        BY <3>1, <2>1 DEF Complete, TimeInv
      <3>2. CASE last # None
        <4>1. Complete(m)
          BY <3>2, <2>4, <2>7 DEF RoomInv, BaseOf
        <4> QED
          BY <4>1, <2>1, <1>k
      <3> QED
        BY <3>1, <3>2
    <2>8. \A m \in Minutes : m < minute' => m <= last'
      BY <2>6, <2>2, <2>4, <1>t
    <2> QED
      BY <2>1, <2>4, <2>5, <2>7, <2>8 DEF RoomInv
  <1>8. CASE Exit \/ Crash
    BY <1>8 DEF Exit, Crash, GoDown, RoomInv
  <1>9. CASE Pass \/ Start
    <2>1. pc = "down" /\ last' = last /\ pc' # "flush"
      BY <1>9 DEF Pass, Start, memory
    <2> QED
      BY <2>1 DEF RoomInv, TimeInv
  <1> QED
    BY <1>1, <1>2, <1>3, <1>4, <1>5, <1>6, <1>7, <1>8, <1>9 DEF Next, Flush, Maintain

\* A step of the metrics.
LEMMA RoomStep == TimeInv /\ RecentStay /\ RoomInv /\ RingSuffices /\ Next => RoomInv'
  BY TickKeepsRoom, StepKeepsRoom

\* Complete minutes are what the run checks.
LEMMA RoomIsEnough == TimeInv /\ RoomInv => MinutesAreKept
  BY DEF TimeInv, RoomInv, Complete, MinutesAreKept, MinuteIsComplete

-----------------------------------------------------------------------------
(* Buckets.                                                                *)

\* Widths and times of retention.
LEMMA WidthsAre ==
    ASSUME NEW t \in Tiers
    PROVE  Widths[t] \in Nat \ {0} /\ Retain[t] \in Nat /\ t \in Int /\ 1 <= t /\ t <= Top
  BY ConstantsAssumption DEF Tiers

\* Minutes are naturals.
LEMMA MinutesAre == \A m \in Minutes : m \in Nat /\ m \in Int
  BY ConstantsAssumption, DivIs DEF Minutes

\* The bucket of a minute.
LEMMA AlignIs ==
    ASSUME NEW t \in Tiers, NEW m \in Int
    PROVE  /\ Align(t, m) \in Int /\ Align(t, m) <= m /\ m < Align(t, m) + Widths[t]
           /\ Align(t, Align(t, m)) = Align(t, m)
           /\ m >= 0 => Align(t, m) >= 0
  <1> DEFINE w == Widths[t]
             i == m \div w
  <1>1. w \in Nat \ {0}
    BY WidthsAre
  <1> HIDE DEF w
  <1>2. i \in Int /\ w * i <= m /\ m < w * i + w
    BY <1>1, DivIs
  <1>3. (i * w) \div w = i
    BY <1>1, <1>2
  <1>4. m >= 0 => i >= 0
    BY <1>1
  <1> QED
    BY <1>1, <1>2, <1>3, <1>4 DEF Align, w

\* Buckets do not overlap.
LEMMA AlignOrder ==
    ASSUME NEW t \in Tiers, NEW b \in Int, b = Align(t, b), NEW m \in Int
    PROVE  /\ b <= m => b <= Align(t, m)
           /\ m < b => Align(t, m) + Widths[t] <= b
           /\ b <= m /\ m < b + Widths[t] => Align(t, m) = b
  <1> DEFINE w == Widths[t]
             i == b \div w
             j == m \div w
  <1>1. w \in Nat \ {0}
    BY WidthsAre
  <1>a. Align(t, m) = w * j /\ b = w * i
    <2>1. i \in Int /\ j \in Int
      BY <1>1, DivIs
    <2> QED
      BY <2>1, <1>1 DEF Align
  <1> HIDE DEF w
  <1>2. i \in Int /\ j \in Int /\ w * j <= m /\ m < w * j + w /\ w * (j + 1) = w * j + w /\ w * (i + 1) = w * i + w
    BY <1>1, DivIs
  <1> HIDE DEF i, j
  <1>3. ASSUME b <= m PROVE w * i <= w * j
    <2>1. w * i < w * (j + 1)
      BY <1>1, <1>2, <1>3, <1>a
    <2>2. i <= j
      BY <2>1, <1>1, <1>2, TimesReflects
    <2> QED
      BY <2>2, <1>1, <1>2, TimesKeeps
  <1>4. ASSUME m < b PROVE w * (j + 1) <= w * i
    <2>1. w * j < w * i
      BY <1>1, <1>2, <1>4, <1>a
    <2>2. j + 1 <= i
      BY <2>1, <1>1, <1>2, TimesReflects
    <2> QED
      BY <2>2, <1>1, <1>2, TimesKeeps
  <1>5. ASSUME b <= m, m < b + w PROVE w * j <= w * i
    <2>1. w * j < w * (i + 1)
      BY <1>1, <1>2, <1>5, <1>a
    <2>2. j <= i
      BY <2>1, <1>1, <1>2, TimesReflects
    <2> QED
      BY <2>2, <1>1, <1>2, TimesKeeps
  <1>6. Widths[t] = w /\ w * i \in Int /\ w * j \in Int
    BY <1>1, <1>2 DEF w
  <1> QED
    BY <1>a, <1>2, <1>3, <1>4, <1>5, <1>6

\* A bucket of a table begins and ends with one of the table it is made from.
LEMMA BucketsNest ==
    ASSUME NEW t \in 2..Top, NEW b \in Int, b = Align(t, b)
    PROVE  b = Align(t - 1, b) /\ b + Widths[t] = Align(t - 1, b + Widths[t])
  <1> DEFINE w == Widths[t]
             v == Widths[t - 1]
  <1>t. t \in Tiers /\ t - 1 \in Tiers
    BY ConstantsAssumption DEF Tiers
  <1>1. w \in Nat \ {0} /\ v \in Nat \ {0} /\ w % v = 0
    BY <1>t, WidthsAre, ConstantsAssumption
  <1>2. b = (b \div w) * w
    BY DEF Align
  <1>a. \A x \in Int : Align(t - 1, x) = (x \div v) * v
    BY DEF Align
  <1>w. Widths[t] = w
    OBVIOUS
  <1> HIDE DEF w, v
  <1>3. PICK k \in Nat : w = k * v
    BY <1>1
  <1>4. PICK i \in Int : b = i * w
    BY <1>1, <1>2, DivIs
  <1>5. b = (i * k) * v /\ b + w = (i * k + k) * v /\ i * k \in Int /\ i * k + k \in Int
    BY <1>1, <1>3, <1>4
  <1>6. \A x \in Int : (x * v) \div v = x
    BY <1>1
  <1>7. b \div v = i * k /\ (b + w) \div v = i * k + k
    BY <1>5, <1>6
  <1>8. Align(t - 1, b) = (i * k) * v
    BY <1>7, <1>a
  <1>9. Align(t - 1, b + w) = (i * k + k) * v
    <2>1. b + w \in Int
      BY <1>1
    <2>2. Align(t - 1, b + w) = ((b + w) \div v) * v
      BY <2>1, <1>a
    <2> QED
      BY <2>2, <1>7
  <1> QED
    BY <1>5, <1>8, <1>9, <1>w

\* So the buckets of its minutes are inside.
LEMMA BucketsInside ==
    ASSUME NEW t \in 2..Top, NEW b \in Int, b = Align(t, b), NEW m \in Int, b <= m, m < b + Widths[t]
    PROVE  b <= Align(t - 1, m) /\ Align(t - 1, m) + Widths[t - 1] <= b + Widths[t]
  <1>1. t \in Tiers /\ t - 1 \in Tiers
    BY ConstantsAssumption DEF Tiers
  <1>2. Widths[t] \in Nat
    BY <1>1, WidthsAre
  <1>3. b + Widths[t] \in Int
    BY <1>2
  <1> QED
    BY <1>1, <1>3, BucketsNest, AlignOrder

\* The bucket of a minute there is, is there too.
LEMMA AlignIsThere ==
    ASSUME NEW t \in Tiers, NEW m \in Minutes
    PROVE  Align(t, m) \in Minutes /\ m \in Bucket(t, Align(t, m))
  <1>1. MaxTime \div PerMin \in Int /\ m \in Int /\ 0 <= m /\ m <= MaxTime \div PerMin
    BY ConstantsAssumption, DivIs DEF Minutes
  <1>2. Align(t, m) \in Int /\ Align(t, m) <= m /\ m < Align(t, m) + Widths[t] /\ 0 <= Align(t, m)
    BY <1>1, AlignIs
  <1>3. Widths[t] \in Nat
    BY WidthsAre
  <1> QED
    BY <1>1, <1>2, <1>3 DEF Minutes, Bucket

\* The minutes of a bucket.
LEMMA BucketIs ==
    ASSUME NEW t \in Tiers, NEW b \in Int, NEW m \in Int
    PROVE  m \in Bucket(t, b) <=> b <= m /\ m < b + Widths[t]
  BY WidthsAre DEF Bucket

\* Every minute is a bucket of the finest table.
LEMMA FinestBucket ==
    ASSUME NEW b \in Int
    PROVE  1 \in Tiers /\ b = Align(1, b) /\ Bucket(1, b) = {b}
  <1>1. 1 \in Tiers /\ Widths[1] = 1
    BY ConstantsAssumption DEF Tiers
  <1>2. b \div 1 = b
    OBVIOUS
  <1> QED
    BY <1>1, <1>2 DEF Align, Bucket

-----------------------------------------------------------------------------
(* The tables.                                                             *)

\* Each table keeps what the next one is made from: TIERS in either preset.
RetainSuffices ==
    \A t \in 2..Top : Widths[t] <= Retain[t - 1] /\ Retain[t - 1] + Widths[t] - 1 <= Retain[t]

\* The buckets a table has been asked for.
Over(t, b) == t = 1 \/ b + Widths[t] <= rolledAt[t]

\* A row was pruned: all tables were rolled up when it was too old, and what was as
\* old as it in finer tables had gone before.
Pruned(t, b) ==
    /\ (b + Retain[t]) * PerMin < clock
    /\ \A u \in 2..Top : b + Retain[t] <= rolledAt[u]
    /\ \A u \in 1..(t - 1) : \A c \in Minutes :
         c + Retain[u] <= b + Retain[t] => rows["local"][u][c] = {}

\* No minute came in time to keep a bucket from being made again of what was left.
Unfollowed(t, b) ==
    /\ (b + Retain[t - 1]) * PerMin < clock
    /\ \A u \in 2..Top : b + Retain[t - 1] <= rolledAt[u]
    /\ \A m \in Minutes :
         stored["local"][m] # {} /\ m >= b + Widths[t] => Align(t, m) + Widths[t] > b + Retain[t - 1]

\* The bucket, or one below it, was made again of what was left.
Damaged(t, b) == \E u \in 2..t : \E c \in Bucket(t, b) \cap Minutes : Unfollowed(u, Align(u, c))

\* A bucket is where it belongs and was over when it was made.
RowInPlace(s, t, b) == rows[s][t][b] # {} => b = Align(t, b) /\ Over(t, b)

\* A bucket that is over and has samples has its row, until that is pruned.
RowIsThere(t, b) ==
    b = Align(t, b) /\ Over(t, b) /\ Stored(t, b) # {} => rows["local"][t][b] # {} \/ Pruned(t, b)

\* A row is all that was stored in its bucket, or a pause has damaged it.
RowIsExact(t, b) == rows["local"][t][b] # {} => rows["local"][t][b] = Stored(t, b) \/ Damaged(t, b)

\* Tables are rolled up from the finest to the coarsest, then pruned in that order.
RoundInv ==
    /\ \A t \in Tiers : rolledAt[t] <= Minute(clock)
    /\ last # None => \A t \in Tiers : rolledAt[t] <= last + 1
    /\ pc = "roll" => \A t \in 2..(tier - 1) : rolledAt[t] = Minute(clock)
    /\ pc = "prune" =>
         /\ \A t \in 2..Top : rolledAt[t] = Minute(clock)
         /\ \A t \in 1..(tier - 1) : \A b \in Minutes : Outdated(t, b) => rows["local"][t][b] = {}

\* The tables.
TableInv ==
    /\ RoundInv
    /\ \A s \in Series : \A t \in Tiers : \A b \in Minutes : RowInPlace(s, t, b)
    /\ \A t \in Tiers : \A b \in Minutes : RowIsThere(t, b) /\ RowIsExact(t, b)
\* What is in a bucket is in the buckets of the finer table.
LEMMA StoredParts ==
    ASSUME NEW t \in 2..Top, NEW b \in Minutes, b = Align(t, b)
    PROVE  Stored(t, b) = UNION {Stored(t - 1, c) : c \in {c \in Bucket(t, b) \cap Minutes : c = Align(t - 1, c)}}
  <1>t. t \in Tiers /\ t - 1 \in Tiers /\ b \in Int
    BY ConstantsAssumption, MinutesAre DEF Tiers
  <1>1. ASSUME NEW m \in Bucket(t, b) \cap Minutes
        PROVE  \E c \in Bucket(t, b) \cap Minutes : c = Align(t - 1, c) /\ m \in Bucket(t - 1, c)
    <2>1. m \in Int /\ b <= m /\ m < b + Widths[t]
      BY <1>t, BucketIs, MinutesAre
    <2>2. /\ Align(t - 1, m) \in Minutes /\ m \in Bucket(t - 1, Align(t - 1, m))
          /\ Align(t - 1, m) = Align(t - 1, Align(t - 1, m)) /\ Align(t - 1, m) <= m /\ Align(t - 1, m) \in Int
      BY <1>t, <2>1, AlignIsThere, AlignIs
    <2>3. b <= Align(t - 1, m)
      BY <1>t, <2>1, BucketsInside
    <2>4. Align(t - 1, m) < b + Widths[t] /\ Widths[t] \in Nat
      BY <1>t, <2>1, <2>2, WidthsAre
    <2> QED
      BY <1>t, <2>2, <2>3, <2>4, BucketIs
  <1>2. ASSUME NEW c \in Bucket(t, b) \cap Minutes, c = Align(t - 1, c), NEW m \in Bucket(t - 1, c) \cap Minutes
        PROVE  m \in Bucket(t, b)
    <2>1. c \in Int /\ m \in Int /\ b <= c /\ c < b + Widths[t] /\ c <= m /\ m < c + Widths[t - 1]
      BY <1>t, BucketIs, MinutesAre
    <2>2. c + Widths[t - 1] <= b + Widths[t] /\ Widths[t] \in Nat /\ Widths[t - 1] \in Nat
      BY <1>t, <1>2, <2>1, BucketsInside, WidthsAre
    <2>3. m < b + Widths[t]
      BY <2>1, <2>2, <1>t
    <2>4. b <= m
      BY <2>1, <1>t
    <2> QED
      BY <1>t, <2>1, <2>3, <2>4, BucketIs
  <1> QED
    BY <1>1, <1>2 DEF Stored

\* A minute that is written in a table and in the history.
LEMMA InsertEffect ==
    ASSUME TypeOK, NEW s \in Series, NEW m \in Minutes, NEW row, Insert(s, m, row)
    PROVE  /\ \A z \in Series : \A t \in Tiers : \A b \in Minutes :
                rows'[z][t][b] = IF z = s /\ t = 1 /\ b = m THEN row ELSE rows[z][t][b]
           /\ \A z \in Series : \A b \in Minutes :
                stored'[z][b] = IF z = s /\ b = m THEN row ELSE stored[z][b]
  <1>1. stored' = [stored EXCEPT ![s][m] = row] /\ rows' = [rows EXCEPT ![s][1][m] = row]
    BY DEF Insert
  <1>2. 1 \in Tiers
    BY ConstantsAssumption DEF Tiers
  <1>3. /\ rows \in [Series -> [Tiers -> [Minutes -> SUBSET Samples]]]
        /\ stored \in [Series -> [Minutes -> SUBSET Samples]]
    BY DEF TypeOK
  <1>4. ASSUME NEW z \in Series, NEW b \in Minutes
        PROVE  stored'[z][b] = IF z = s /\ b = m THEN row ELSE stored[z][b]
    BY <1>1, <1>3
  <1>5. ASSUME NEW z \in Series, NEW t \in Tiers, NEW b \in Minutes
        PROVE  rows'[z][t][b] = IF z = s /\ t = 1 /\ b = m THEN row ELSE rows[z][t][b]
    BY <1>1, <1>2, <1>3
  <1> QED
    BY <1>4, <1>5

\* The rows of a roll-up.
LEMMA RollEffect ==
    ASSUME TypeOK, Roll, NEW z \in Series, NEW t \in Tiers, NEW b \in Minutes
    PROVE  rows'[z][t][b] = IF /\ t = tier /\ b = Align(t, b) /\ b >= RollFrom(t) /\ b < RollTo(t)
                               /\ Sum(z, t, b) # {}
                            THEN Sum(z, t, b) ELSE rows[z][t][b]
  <1>1. rows' = RollUp(tier) /\ rows \in [Series -> [Tiers -> [Minutes -> SUBSET Samples]]]
    BY DEF Roll, TypeOK
  <1>2. rows'[z] = [rows[z] EXCEPT ![tier] = [m \in Minutes |->
            IF /\ m = Align(tier, m) /\ m >= RollFrom(tier) /\ m < RollTo(tier)
               /\ Sum(z, tier, m) # {}
            THEN Sum(z, tier, m) ELSE rows[z][tier][m]]]
    BY <1>1 DEF RollUp
  <1> QED
    BY <1>1, <1>2

\* And of a prune.
LEMMA PruneEffect ==
    ASSUME TypeOK, Prune, NEW z \in Series, NEW t \in Tiers, NEW b \in Minutes
    PROVE  rows'[z][t][b] = IF t = tier /\ Outdated(t, b) THEN {} ELSE rows[z][t][b]
  <1>1. /\ rows' = [s \in Series |-> [rows[s] EXCEPT ![tier] =
                   [m \in Minutes |-> IF Outdated(tier, m) THEN {} ELSE rows[s][tier][m]]]]
        /\ rows \in [Series -> [Tiers -> [Minutes -> SUBSET Samples]]]
    BY DEF Prune, TypeOK
  <1>2. rows'[z] = [rows[z] EXCEPT ![tier] =
                   [m \in Minutes |-> IF Outdated(tier, m) THEN {} ELSE rows[z][tier][m]]]
    BY <1>1
  <1> QED
    BY <1>1, <1>2

\* Numbers of the tables.
LEMMA TableTypes ==
    TypeOK => /\ clock \in Nat /\ \A u \in Tiers : rolledAt[u] \in Nat
              /\ Minute(clock) \in Minutes
  <1> SUFFICES ASSUME TypeOK
               PROVE  clock \in Nat /\ (\A u \in Tiers : rolledAt[u] \in Nat) /\ Minute(clock) \in Minutes
    OBVIOUS
  <1>1. clock \in Nat /\ clock \in Samples
    BY ConstantsAssumption DEF TypeOK, Samples
  <1>2. rolledAt \in [Tiers -> Minutes]
    BY DEF TypeOK
  <1> QED
    BY <1>1, <1>2, MinutesAre, MinutesAreThere

\* And after a step.
LEMMA TableTypesNext == TypeOK' => clock' \in Nat /\ \A u \in Tiers : rolledAt'[u] \in Nat
  <1> SUFFICES ASSUME TypeOK' PROVE clock' \in Nat /\ \A u \in Tiers : rolledAt'[u] \in Nat
    OBVIOUS
  <1>1. clock' \in Nat
    BY ConstantsAssumption DEF TypeOK, Samples
  <1>2. rolledAt' \in [Tiers -> Minutes]
    BY DEF TypeOK
  <1> QED
    BY <1>1, <1>2, MinutesAre

\* The time a table keeps a row.
LEMMA ReachIs ==
    ASSUME NEW t \in Tiers, NEW b \in Minutes
    PROVE  b + Retain[t] \in Nat /\ (b + Retain[t]) * PerMin \in Nat
           /\ (b + Retain[t]) * PerMin = b * PerMin + Retain[t] * PerMin
  <1>1. b \in Nat /\ Retain[t] \in Nat /\ PerMin \in Nat
    BY WidthsAre, MinutesAre, ConstantsAssumption
  <1> QED
    BY <1>1

\* Time does not bring a pruned row back, or a minute that was missed.
LEMMA PrunedStays ==
    ASSUME TypeOK, TypeOK', NEW t \in Tiers, NEW b \in Minutes, Pruned(t, b), clock <= clock',
           \A u \in Tiers : rolledAt[u] <= rolledAt'[u],
           \A u \in 1..(t - 1) : \A c \in Minutes :
              c + Retain[u] <= b + Retain[t] /\ rows["local"][u][c] = {} => rows'["local"][u][c] = {}
    PROVE  Pruned(t, b)'
  <1>1. /\ clock \in Int /\ clock' \in Int /\ (b + Retain[t]) * PerMin \in Int /\ b + Retain[t] \in Int
        /\ \A u \in Tiers : rolledAt[u] \in Int /\ rolledAt'[u] \in Int
    <2>1. clock \in Nat /\ clock' \in Nat /\ \A u \in Tiers : rolledAt[u] \in Nat /\ rolledAt'[u] \in Nat
      BY TableTypes, TableTypesNext
    <2> QED
      BY <2>1, ReachIs
  <1>2. \A u \in 2..Top : u \in Tiers
    BY DEF Tiers
  <1>3. (b + Retain[t]) * PerMin < clock'
    BY <1>1 DEF Pruned
  <1>4. \A u \in 2..Top : b + Retain[t] <= rolledAt'[u]
    BY <1>1, <1>2 DEF Pruned
  <1> QED
    BY <1>3, <1>4 DEF Pruned

\* Nor a minute that would have followed.
LEMMA UnfollowedStays ==
    ASSUME TypeOK, TypeOK', NEW t \in 2..Top, NEW b \in Minutes, Unfollowed(t, b), clock <= clock',
           \A u \in Tiers : rolledAt[u] <= rolledAt'[u],
           \A m \in Minutes : stored'["local"][m] # {} =>
              stored["local"][m] # {} \/ Align(t, m) + Widths[t] > b + Retain[t - 1]
    PROVE  Unfollowed(t, b)'
  <1>t. t - 1 \in Tiers /\ Retain[t - 1] \in Nat
    BY WidthsAre, ConstantsAssumption DEF Tiers
  <1>1. /\ clock \in Int /\ clock' \in Int /\ (b + Retain[t - 1]) * PerMin \in Int /\ b + Retain[t - 1] \in Int
        /\ \A u \in Tiers : rolledAt[u] \in Int /\ rolledAt'[u] \in Int
    <2>1. clock \in Nat /\ clock' \in Nat /\ \A u \in Tiers : rolledAt[u] \in Nat /\ rolledAt'[u] \in Nat
      BY TableTypes, TableTypesNext
    <2> QED
      BY <1>t, <2>1, ReachIs
  <1>2. \A u \in 2..Top : u \in Tiers
    BY DEF Tiers
  <1>3. (b + Retain[t - 1]) * PerMin < clock'
    BY <1>1 DEF Unfollowed
  <1>4. \A u \in 2..Top : b + Retain[t - 1] <= rolledAt'[u]
    BY <1>1, <1>2 DEF Unfollowed
  <1>5. \A m \in Minutes : stored'["local"][m] # {} /\ m >= b + Widths[t] =>
           Align(t, m) + Widths[t] > b + Retain[t - 1]
    BY DEF Unfollowed
  <1> QED
    BY <1>3, <1>4, <1>5 DEF Unfollowed, Align

\* Damage is for good.
LEMMA DamagedStays ==
    ASSUME TypeOK, TypeOK', NEW t \in Tiers, NEW b \in Minutes, Damaged(t, b), clock <= clock',
           \A u \in Tiers : rolledAt[u] <= rolledAt'[u],
           \A u \in 2..Top : \A d \in Minutes : Unfollowed(u, d) =>
             \A m \in Minutes : stored'["local"][m] # {} =>
               stored["local"][m] # {} \/ Align(u, m) + Widths[u] > d + Retain[u - 1]
    PROVE  Damaged(t, b)'
  <1>1. PICK u \in 2..t, c \in Bucket(t, b) \cap Minutes : Unfollowed(u, Align(u, c))
    BY DEF Damaged
  <1>2. u \in 2..Top /\ u \in Tiers
    BY WidthsAre, ConstantsAssumption DEF Tiers
  <1>3. Align(u, c) \in Minutes
    BY <1>2, AlignIsThere
  <1>4. Unfollowed(u, Align(u, c))'
    <2> DEFINE d == Align(u, c)
    <2>1. Unfollowed(u, d) /\ d \in Minutes /\ d' = d
      BY <1>1, <1>3 DEF Align
    <2> HIDE DEF d
    <2>2. ASSUME NEW e \in Minutes, Unfollowed(u, e) PROVE Unfollowed(u, e)'
      BY <1>2, <2>2, UnfollowedStays
    <2>3. \A e \in Minutes : Unfollowed(u, e) => Unfollowed(u, e)'
      BY <2>2
    <2>4. PICK e \in Minutes : e = d
      BY <2>1
    <2>5. Unfollowed(u, e)' /\ e = d /\ e = d'
      BY <2>1, <2>3, <2>4
    <2> QED
      BY <2>5 DEF d, Unfollowed, Align
  <1> QED
    BY <1>1, <1>4 DEF Damaged, Bucket

\* A step that leaves the tables alone.
LEMMA TablesRest ==
    ASSUME TypeOK, TypeOK', TableInv, UNCHANGED tables, clock <= clock'
    PROVE  /\ \A s \in Series : \A t \in Tiers : \A b \in Minutes : RowInPlace(s, t, b)'
           /\ \A t \in Tiers : \A b \in Minutes : RowIsThere(t, b)' /\ RowIsExact(t, b)'
  <1>1. rows' = rows /\ stored' = stored /\ rolledAt' = rolledAt
    BY DEF tables
  <1>2. \A u \in Tiers : rolledAt[u] <= rolledAt'[u]
    BY <1>1, TableTypes
  <1>3. ASSUME NEW t \in Tiers, NEW b \in Minutes
        PROVE  RowIsThere(t, b)' /\ RowIsExact(t, b)'
    <2>1. RowIsThere(t, b) /\ RowIsExact(t, b)
      BY DEF TableInv
    <2>2. Pruned(t, b) => Pruned(t, b)'
      BY <1>1, <1>2, PrunedStays
    <2>3. Damaged(t, b) => Damaged(t, b)'
      BY <1>1, <1>2, DamagedStays
    <2>4. Stored(t, b)' = Stored(t, b) /\ (Over(t, b)' <=> Over(t, b)) /\ Align(t, b)' = Align(t, b)
      BY <1>1 DEF Stored, Over, Bucket, Align
    <2> QED
      BY <1>1, <2>1, <2>2, <2>3, <2>4 DEF RowIsThere, RowIsExact
  <1>4. ASSUME NEW s \in Series, NEW t \in Tiers, NEW b \in Minutes
        PROVE  RowInPlace(s, t, b)'
    BY <1>1 DEF TableInv, RowInPlace, Over, Align
  <1> QED
    BY <1>3, <1>4

\* A row of an agent.
LEMMA AgentKeepsRows ==
    ASSUME TypeOK, TypeOK', TableInv, NEW n \in Minutes, AgentRow(n)
    PROVE  /\ \A s \in Series : \A t \in Tiers : \A b \in Minutes : RowInPlace(s, t, b)'
           /\ \A t \in Tiers : \A b \in Minutes : RowIsThere(t, b)' /\ RowIsExact(t, b)'
           /\ \A t \in Tiers : \A b \in Minutes : rows'["local"][t][b] = rows["local"][t][b]
  <1>0. "agent" \in Series /\ "local" \in Series
    BY DEF Series
  <1>1. Insert("agent", n, {n * PerMin}) /\ clock' = clock /\ rolledAt' = rolledAt
    BY DEF AgentRow
  <1>2. /\ \A t \in Tiers : \A b \in Minutes : rows'["local"][t][b] = rows["local"][t][b]
        /\ \A t \in Tiers : \A b \in Minutes : t # 1 => rows'["agent"][t][b] = rows["agent"][t][b]
        /\ \A b \in Minutes : stored'["local"][b] = stored["local"][b]
    BY <1>0, <1>1, InsertEffect
  <1>3. clock <= clock' /\ \A u \in Tiers : rolledAt[u] <= rolledAt'[u]
    BY <1>1, TableTypes
  <1>4. ASSUME NEW t \in Tiers, NEW b \in Minutes
        PROVE  RowIsThere(t, b)' /\ RowIsExact(t, b)'
    <2>1. RowIsThere(t, b) /\ RowIsExact(t, b)
      BY DEF TableInv
    <2>t. \A u \in 1..(t - 1) : u \in Tiers
      BY WidthsAre, ConstantsAssumption DEF Tiers
    <2>2. Pruned(t, b) => Pruned(t, b)'
      BY <1>2, <1>3, <2>t, PrunedStays
    <2>3. Damaged(t, b) => Damaged(t, b)'
      BY <1>2, <1>3, DamagedStays
    <2>4. Stored(t, b)' = Stored(t, b) /\ (Over(t, b)' <=> Over(t, b)) /\ Align(t, b)' = Align(t, b)
      BY <1>1, <1>2 DEF Stored, Over, Bucket, Align
    <2> QED
      BY <1>2, <2>1, <2>2, <2>3, <2>4 DEF RowIsThere, RowIsExact
  <1>5. ASSUME NEW s \in Series, NEW t \in Tiers, NEW b \in Minutes
        PROVE  RowInPlace(s, t, b)'
    <2>1. CASE s = "agent" /\ t = 1
      BY <2>1, FinestBucket, MinutesAre DEF RowInPlace, Over, Align
    <2>2. CASE ~(s = "agent" /\ t = 1)
      <3>1. rows'[s][t][b] = rows[s][t][b]
        BY <2>2, <1>2 DEF Series
      <3> QED
        BY <3>1, <1>1 DEF TableInv, RowInPlace, Over, Align
    <2> QED
      BY <2>1, <2>2
  <1> QED
    BY <1>2, <1>4, <1>5

\* A minute that is flushed: no bucket it belongs to has been made yet.
LEMMA FlushKeepsRows ==
    ASSUME TimeInv, TypeOK', TableInv, RetainSuffices, FlushMinute
    PROVE  /\ \A s \in Series : \A t \in Tiers : \A b \in Minutes : RowInPlace(s, t, b)'
           /\ \A t \in Tiers : \A b \in Minutes : RowIsThere(t, b)' /\ RowIsExact(t, b)'
  <1>0. "local" \in Series /\ TypeOK
    BY DEF Series, TimeInv
  <1>1. PICK n \in Minutes : n = minute
    <2>1. PICK x \in ring : Minute(x) = minute
      BY DEF FlushMinute, RowOf, Span
    <2>2. x \in Samples
      BY <1>0 DEF TypeOK
    <2> QED
      BY <2>1, <2>2, MinutesAreThere
  <1>2. /\ Insert("local", n, RowOf(n)) /\ clock' = clock /\ rolledAt' = rolledAt /\ RowOf(n) # {}
    BY <1>1 DEF FlushMinute
  <1>3. /\ \A s \in Series : \A t \in Tiers : \A b \in Minutes :
             rows'[s][t][b] = IF s = "local" /\ t = 1 /\ b = n THEN RowOf(n) ELSE rows[s][t][b]
        /\ \A b \in Minutes : stored'["local"][b] = IF b = n THEN RowOf(n) ELSE stored["local"][b]
    BY <1>0, <1>2, InsertEffect
  <1>4. clock <= clock' /\ \A u \in Tiers : rolledAt[u] <= rolledAt'[u]
    BY <1>0, <1>2, TableTypes
  <1>5. n \in Nat /\ \A u \in Tiers : rolledAt[u] <= n /\ rolledAt[u] \in Nat
    <2>1. last \in Int /\ minute \in Int /\ last < minute
      BY <1>0 DEF TimeInv, TypeOK, FlushMinute
    <2>2. \A u \in Tiers : rolledAt[u] <= last + 1
      BY DEF TableInv, RoundInv, TimeInv, FlushMinute
    <2> QED
      BY <1>0, <1>1, <2>1, <2>2, TableTypes, MinutesAre
  <1>6. ASSUME NEW t \in Tiers, t # 1, NEW b \in Minutes, Over(t, b)
        PROVE  n \notin Bucket(t, b)
    <2>1. b + Widths[t] <= rolledAt[t] /\ b \in Int /\ Widths[t] \in Int
      BY <1>6, MinutesAre, WidthsAre DEF Over
    <2> QED
      BY <2>1, <1>5, BucketIs
  <1>7. ASSUME NEW t \in Tiers, NEW b \in Minutes, n \notin Bucket(t, b)
        PROVE  Stored(t, b)' = Stored(t, b)
    BY <1>3, <1>7 DEF Stored, Bucket
  <1>8. ASSUME NEW t \in Tiers, NEW b \in Minutes, Pruned(t, b)
        PROVE  Pruned(t, b)'
    <2>1. ASSUME NEW u \in 1..(t - 1), NEW c \in Minutes,
                 c + Retain[u] <= b + Retain[t], rows["local"][u][c] = {}
          PROVE  rows'["local"][u][c] = {}
      <3>1. u \in Tiers /\ u + 1 \in 2..Top /\ u + 1 \in Tiers
        BY WidthsAre, ConstantsAssumption DEF Tiers
      <3>2. Retain[u] >= 1
        BY <3>1, WidthsAre DEF RetainSuffices
      <3>3. b + Retain[t] <= rolledAt[u + 1]
        BY <1>8, <3>1 DEF Pruned
      <3>4. c < n
        BY <2>1, <3>1, <3>2, <3>3, <1>5, ReachIs, WidthsAre, MinutesAre
      <3> QED
        BY <3>1, <3>4, <2>1, <1>0, <1>3, <1>5
    <2> QED
      BY <1>0, <1>4, <1>8, <2>1, PrunedStays
  <1>9. ASSUME NEW t \in Tiers, NEW b \in Minutes, Damaged(t, b)
        PROVE  Damaged(t, b)'
    <2>1. ASSUME NEW u \in 2..Top, NEW d \in Minutes, Unfollowed(u, d), NEW m \in Minutes,
                 stored'["local"][m] # {}, stored["local"][m] = {}
          PROVE  Align(u, m) + Widths[u] > d + Retain[u - 1]
      <3>1. m = n
        BY <2>1, <1>3
      <3>2. u \in Tiers /\ u - 1 \in Tiers
        BY ConstantsAssumption DEF Tiers
      <3>3. d + Retain[u - 1] <= rolledAt[u] /\ d + Retain[u - 1] \in Nat
        BY <2>1, <3>2, ReachIs DEF Unfollowed
      <3>4. m < Align(u, m) + Widths[u] /\ Align(u, m) \in Int /\ Widths[u] \in Int
        BY <3>2, AlignIs, WidthsAre, MinutesAre
      <3> QED
        BY <3>1, <3>2, <3>3, <3>4, <1>5
    <2> QED
      BY <1>0, <1>4, <1>9, <2>1, DamagedStays
  <1>10. ASSUME NEW t \in Tiers, NEW b \in Minutes
         PROVE  RowIsThere(t, b)' /\ RowIsExact(t, b)'
    <2>1. RowIsThere(t, b) /\ RowIsExact(t, b) /\ RowInPlace("local", t, b)
      BY <1>0 DEF TableInv
    <2>2. (Over(t, b)' <=> Over(t, b)) /\ Align(t, b)' = Align(t, b)
      BY <1>2 DEF Over, Align
    <2>3. CASE t = 1 /\ b = n
      <3>1. rows'["local"][t][b] = RowOf(n) /\ stored'["local"][b] = RowOf(n)
        BY <2>3, <1>0, <1>3
      <3>2. Bucket(t, b) = {b}
        BY <2>3, <1>5, FinestBucket
      <3>3. Stored(t, b)' = RowOf(n)
        BY <3>1, <3>2 DEF Stored, Bucket
      <3> QED
        BY <3>1, <3>3, <1>2 DEF RowIsThere, RowIsExact
    <2>4. CASE ~(t = 1 /\ b = n)
      <3>1. rows'["local"][t][b] = rows["local"][t][b]
        BY <2>4, <1>0, <1>3
      <3>2. Over(t, b) => Stored(t, b)' = Stored(t, b)
        <4>1. CASE t = 1
          BY <4>1, <2>4, <1>7, FinestBucket, MinutesAre
        <4>2. CASE t # 1
          BY <4>2, <1>6, <1>7
        <4> QED
          BY <4>1, <4>2
      <3>3. RowIsThere(t, b)'
        BY <2>1, <2>2, <3>1, <3>2, <1>8 DEF RowIsThere
      <3>4. RowIsExact(t, b)'
        BY <2>1, <3>1, <3>2, <1>9 DEF RowIsExact, RowInPlace
      <3> QED
        BY <3>3, <3>4
    <2> QED
      BY <2>3, <2>4
  <1>11. ASSUME NEW s \in Series, NEW t \in Tiers, NEW b \in Minutes
         PROVE  RowInPlace(s, t, b)'
    <2>1. CASE t = 1
      BY <2>1, FinestBucket, MinutesAre DEF RowInPlace, Over, Align
    <2>2. CASE t # 1
      <3>1. rows'[s][t][b] = rows[s][t][b]
        BY <2>2, <1>3
      <3> QED
        BY <3>1, <1>2 DEF TableInv, RowInPlace, Over, Align
    <2> QED
      BY <2>1, <2>2
  <1> QED
    BY <1>10, <1>11

\* Where a roll-up begins.
LEMMA RollFromIs ==
    ASSUME TypeOK, NEW t \in 2..Top
    PROVE  /\ \A b \in Starts(t) : b <= RollFrom(t)
           /\ Starts(t) # {} => RollFrom(t) \in Starts(t)
           /\ Starts(t) = {} => \A c \in Starts(t - 1) : RollFrom(t) <= Align(t, c)
           /\ Starts(t) = {} /\ Starts(t - 1) = {} => RollFrom(t) = MaxTime
  <1>t. t \in Tiers /\ t - 1 \in Tiers
    BY ConstantsAssumption DEF Tiers
  <1>1. /\ Starts(t) \in SUBSET (0..(MaxTime \div PerMin)) /\ Starts(t) \in SUBSET Nat
        /\ Starts(t - 1) \in SUBSET Nat /\ Starts(t - 1) \subseteq Minutes
    BY MinutesAre DEF Starts, Minutes
  <1>2. MaxTime \div PerMin \in Nat
    <2>1. MaxTime \in Samples
      BY ConstantsAssumption DEF Samples
    <2>2. Minute(MaxTime) \in Nat
      BY <2>1, MinutesAreThere, MinutesAre
    <2> QED
      BY <2>2 DEF Minute
  <1>3. CASE Starts(t) # {}
    <2>1. RollFrom(t) = Max(Starts(t))
      BY <1>3 DEF RollFrom
    <2> QED
      BY <2>1, <1>1, <1>2, <1>3, MaxIsGreatest
  <1>4. CASE Starts(t) = {} /\ Starts(t - 1) # {}
    <2>1. RollFrom(t) = Align(t, Min(Starts(t - 1)))
      BY <1>4 DEF RollFrom
    <2>2. PICK least \in Starts(t - 1) : least = Min(Starts(t - 1)) /\ \A c \in Starts(t - 1) : least <= c
      BY <1>1, <1>4, MinIsLeast
    <2>3. ASSUME NEW c \in Starts(t - 1) PROVE Align(t, least) <= Align(t, c)
      <3>1. least \in Int /\ c \in Int /\ least <= c
        BY <1>1, <2>2
      <3>2. Align(t, least) \in Int /\ Align(t, least) <= least /\ Align(t, least) = Align(t, Align(t, least))
        BY <3>1, <1>t, AlignIs
      <3>3. Align(t, least) <= c
        BY <3>1, <3>2
      <3> QED
        BY <3>1, <3>2, <3>3, <1>t, AlignOrder
    <2> QED
      BY <1>4, <2>1, <2>2, <2>3
  <1>5. CASE Starts(t) = {} /\ Starts(t - 1) = {}
    BY <1>5 DEF RollFrom
  <1> QED
    BY <1>3, <1>4, <1>5

\* Buckets that are over by now.
LEMMA RollToIs ==
    ASSUME TypeOK, NEW t \in Tiers, NEW b \in Minutes, b = Align(t, b)
    PROVE  b < RollTo(t) <=> b + Widths[t] <= Minute(clock)
  <1>1. /\ Minute(clock) \in Int /\ b \in Int /\ Widths[t] \in Nat \ {0} /\ b + Widths[t] \in Int
    BY TableTypes, MinutesAre, WidthsAre
  <1>2. /\ RollTo(t) \in Int /\ RollTo(t) <= Minute(clock) /\ Minute(clock) < RollTo(t) + Widths[t]
        /\ RollTo(t) = Align(t, RollTo(t))
    BY <1>1, AlignIs DEF RollTo
  <1>3. ASSUME b < RollTo(t) PROVE b + Widths[t] <= Minute(clock)
    <2>1. Align(t, b) + Widths[t] <= RollTo(t)
      BY <1>1, <1>2, <1>3, AlignOrder
    <2> QED
      BY <2>1, <1>1, <1>2
  <1>4. ASSUME b + Widths[t] <= Minute(clock) PROVE b < RollTo(t)
    BY <1>1, <1>2, <1>4
  <1> QED
    BY <1>3, <1>4

\* What was pruned from a table is not made again: what it was made from has gone too.
LEMMA RollKeepsPruned ==
    ASSUME TimeInv, TypeOK', TableInv, RetainSuffices, Roll, NEW t \in Tiers, NEW b \in Minutes, Pruned(t, b)
    PROVE  Pruned(t, b)'
  <1>0. TypeOK /\ "local" \in Series
    BY DEF TimeInv, Series
  <1>1. clock' = clock /\ clock <= clock' /\ rolledAt' = [rolledAt EXCEPT ![tier] = Minute(clock)]
    BY <1>0, TableTypes DEF Roll
  <1>2. \A u \in Tiers : rolledAt[u] <= rolledAt'[u]
    <2>1. \A u \in Tiers : rolledAt[u] <= Minute(clock) /\ rolledAt[u] \in Nat
      BY <1>0, TableTypes DEF TableInv, RoundInv
    <2>2. rolledAt \in [Tiers -> Minutes]
      BY <1>0 DEF TypeOK
    <2>3. ASSUME NEW u \in Tiers PROVE rolledAt'[u] = rolledAt[u] \/ rolledAt'[u] = Minute(clock)
      BY <1>1, <2>2
    <2> QED
      BY <2>1, <2>3
  <1>3. ASSUME NEW u \in 1..(t - 1), NEW c \in Minutes,
               c + Retain[u] <= b + Retain[t], rows["local"][u][c] = {}
        PROVE  rows'["local"][u][c] = {}
    <2>1. u \in Tiers
      BY WidthsAre, ConstantsAssumption DEF Tiers
    <2>2. CASE u # tier
      BY <2>1, <2>2, <1>0, <1>3, RollEffect
    <2>3. CASE u = tier
      <3>1. u \in 2..Top /\ u - 1 \in 1..(t - 1) /\ u - 1 \in Tiers
        BY <2>1, <2>3, WidthsAre, ConstantsAssumption DEF Roll, TimeInv, Tiers
      <3>2. ASSUME NEW d \in Bucket(u, c) \cap Minutes PROVE rows["local"][u - 1][d] = {}
        <4>0. d \in Int /\ c \in Int /\ Widths[u] \in Nat
          BY <2>1, <3>2, MinutesAre, WidthsAre
        <4>a. d < c + Widths[u]
          BY <4>0, <2>1, <3>2, BucketIs
        <4>1. d <= c + Widths[u] - 1
          BY <4>0, <4>a
        <4>2. Retain[u - 1] + Widths[u] - 1 <= Retain[u]
          BY <3>1 DEF RetainSuffices
        <4>3. d + Retain[u - 1] <= b + Retain[t]
          BY <4>0, <4>1, <4>2, <1>3, <2>1, <3>1, WidthsAre, ReachIs
        <4> QED
          BY <3>1, <4>3 DEF Pruned
      <3>3. Sum("local", u, c) = {}
        BY <3>2 DEF Sum
      <3> QED
        BY <2>1, <3>3, <1>0, <1>3, RollEffect
    <2> QED
      BY <2>2, <2>3
  <1> QED
    BY <1>0, <1>1, <1>2, <1>3, PrunedStays

\* What a row is made from, when it is made.
LEMMA SourcesAre ==
    ASSUME TimeInv, TableInv, RetainSuffices, Roll, NEW b \in Minutes, b = Align(tier, b),
           b + Widths[tier] <= Minute(clock),
           NEW c \in Bucket(tier, b) \cap Minutes, c = Align(tier - 1, c)
    PROVE  /\ Over(tier - 1, c)
           /\ Pruned(tier - 1, c) =>
                /\ Over(tier, b) /\ (b + Retain[tier - 1]) * PerMin < clock
                /\ \A u \in 2..Top : b + Retain[tier - 1] <= rolledAt[u]
  <1>a. TypeOK /\ pc = "roll" /\ tier >= 2 /\ tier <= Top
    BY DEF TimeInv, Roll
  <1>b. tier \in Int /\ Top \in Int
    BY <1>a, ConstantsAssumption DEF TypeOK
  <1>0. TypeOK /\ tier \in 2..Top /\ tier \in Tiers /\ tier - 1 \in Tiers /\ pc = "roll"
    BY <1>a, <1>b DEF Tiers
  <1>1. /\ b \in Int /\ c \in Int /\ b <= c /\ c < b + Widths[tier]
        /\ Widths[tier] \in Nat /\ Widths[tier - 1] \in Nat /\ Minute(clock) \in Int
    BY <1>0, BucketIs, MinutesAre, WidthsAre, TableTypes
  <1>2. Over(tier - 1, c)
    <2>1. c + Widths[tier - 1] <= b + Widths[tier]
      BY <1>0, <1>1, BucketsInside
    <2>2. CASE tier - 1 = 1
      BY <2>2 DEF Over
    <2>3. CASE tier - 1 # 1
      <3>1. rolledAt[tier - 1] = Minute(clock)
        BY <2>3, <1>0 DEF TableInv, RoundInv
      <3> QED
        BY <2>1, <3>1, <1>1 DEF Over
    <2> QED
      BY <2>2, <2>3
  <1>3. ASSUME Pruned(tier - 1, c)
        PROVE  /\ Over(tier, b) /\ (b + Retain[tier - 1]) * PerMin < clock
               /\ \A u \in 2..Top : b + Retain[tier - 1] <= rolledAt[u]
    <2>1. /\ b + Retain[tier - 1] \in Nat /\ c + Retain[tier - 1] \in Nat /\ PerMin \in Nat
          /\ b + Retain[tier - 1] <= c + Retain[tier - 1]
          /\ (b + Retain[tier - 1]) * PerMin \in Nat /\ (c + Retain[tier - 1]) * PerMin \in Nat
          /\ Retain[tier - 1] \in Nat
      BY <1>0, <1>1, ReachIs, WidthsAre, ConstantsAssumption
    <2>2. (c + Retain[tier - 1]) * PerMin < clock /\ \A u \in 2..Top : c + Retain[tier - 1] <= rolledAt[u]
      BY <1>3 DEF Pruned
    <2>3. \A u \in 2..Top : rolledAt[u] \in Nat
      BY <1>0, TableTypes DEF Tiers
    <2>4. \A u \in 2..Top : b + Retain[tier - 1] <= rolledAt[u]
      BY <2>1, <2>2, <2>3
    <2>5. (b + Retain[tier - 1]) * PerMin < clock
      <3>1. PerMin * (b + Retain[tier - 1]) <= PerMin * (c + Retain[tier - 1])
        BY <2>1, TimesKeeps
      <3>2. clock \in Nat
        BY <1>0, TableTypes
      <3> QED
        BY <2>1, <2>2, <3>1, <3>2
    <2>6. Over(tier, b)
      <3>1. Widths[tier] <= Retain[tier - 1]
        BY <1>0 DEF RetainSuffices
      <3> QED
        BY <3>1, <2>1, <2>3, <2>4, <1>0, <1>1 DEF Over
    <2> QED
      BY <2>4, <2>5, <2>6
  <1> QED
    BY <1>2, <1>3

\* What a roll-up does to the times of the tables.
LEMMA RollTimes ==
    ASSUME TimeInv, TypeOK', TableInv, Roll
    PROVE  /\ TypeOK /\ pc = "roll" /\ tier \in 2..Top /\ tier \in Tiers /\ tier - 1 \in Tiers
           /\ clock' = clock /\ clock <= clock' /\ stored' = stored
           /\ \A u \in Tiers : rolledAt'[u] = IF u = tier THEN Minute(clock) ELSE rolledAt[u]
           /\ \A u \in Tiers : rolledAt[u] <= rolledAt'[u] /\ rolledAt[u] <= Minute(clock)
  <1>1. TypeOK /\ pc = "roll" /\ tier >= 2 /\ tier <= Top
    BY DEF TimeInv, Roll
  <1>2. tier \in Int /\ Top \in Int
    BY <1>1, ConstantsAssumption DEF TypeOK
  <1>3. tier \in 2..Top /\ tier \in Tiers /\ tier - 1 \in Tiers
    BY <1>1, <1>2 DEF Tiers
  <1>4. clock' = clock /\ stored' = stored /\ rolledAt' = [rolledAt EXCEPT ![tier] = Minute(clock)]
    BY DEF Roll
  <1>5. clock <= clock' /\ \A u \in Tiers : rolledAt[u] \in Nat
    BY <1>1, <1>4, TableTypes
  <1>6. \A u \in Tiers : rolledAt'[u] = IF u = tier THEN Minute(clock) ELSE rolledAt[u]
    <2>1. rolledAt \in [Tiers -> Minutes]
      BY <1>1 DEF TypeOK
    <2> QED
      BY <2>1, <1>4
  <1>7. \A u \in Tiers : rolledAt[u] <= Minute(clock)
    BY DEF TableInv, RoundInv
  <1> QED
    BY <1>1, <1>3, <1>4, <1>5, <1>6, <1>7

\* A bucket that becomes due has what it is made from.
LEMMA DueIsMade ==
    ASSUME TimeInv, TypeOK', TableInv, RetainSuffices, Roll,
           NEW b \in Minutes, b = Align(tier, b), b + Widths[tier] <= Minute(clock),
           ~Over(tier, b), Stored(tier, b) # {}
    PROVE  b >= RollFrom(tier) /\ Sum("local", tier, b) # {}
  <1>0. TypeOK /\ tier \in 2..Top /\ tier \in Tiers /\ tier - 1 \in Tiers /\ b \in Int /\ "local" \in Series
    BY RollTimes, MinutesAre DEF Series
  <1>1. PICK c \in {c \in Bucket(tier, b) \cap Minutes : c = Align(tier - 1, c)} : Stored(tier - 1, c) # {}
    <2>1. UNION {Stored(tier - 1, c) : c \in {c \in Bucket(tier, b) \cap Minutes : c = Align(tier - 1, c)}} # {}
      BY <1>0, StoredParts
    <2> QED
      BY <2>1
  <1>2. Over(tier - 1, c) /\ ~Pruned(tier - 1, c)
    BY <1>1, SourcesAre
  <1>3. rows["local"][tier - 1][c] # {}
    BY <1>0, <1>1, <1>2 DEF TableInv, RowIsThere
  <1>4. Sum("local", tier, b) # {}
    BY <1>1, <1>3 DEF Sum
  <1>5. c \in Starts(tier - 1) /\ c \in Int
    BY <1>0, <1>1, <1>3, MinutesAre DEF Starts
  <1>6. CASE Starts(tier) = {}
    <2>1. RollFrom(tier) <= Align(tier, c)
      BY <1>0, <1>5, <1>6, RollFromIs
    <2>2. Align(tier, c) = b
      <3>1. b <= c /\ c < b + Widths[tier]
        BY <1>0, <1>1, <1>5, BucketIs
      <3> QED
        BY <3>1, <1>0, <1>5, AlignOrder
    <2> QED
      BY <2>1, <2>2, <1>4, <1>0, <1>5, <1>6
  <1>7. CASE Starts(tier) # {}
    <2>1. RollFrom(tier) \in Starts(tier)
      BY <1>0, <1>7, RollFromIs
    <2>2. PICK n \in Minutes, s \in Series : n = RollFrom(tier) /\ rows[s][tier][n] # {}
      BY <2>1 DEF Starts
    <2>3. Over(tier, n)
      BY <2>2, <1>0 DEF TableInv, RowInPlace
    <2>4. n + Widths[tier] <= rolledAt[tier] /\ n \in Int /\ Widths[tier] \in Int /\ rolledAt[tier] \in Int
      <3>1. n + Widths[tier] <= rolledAt[tier]
        BY <2>3, <1>0 DEF Over
      <3> QED
        BY <3>1, <1>0, MinutesAre, WidthsAre, TableTypes
    <2>5. b >= n
      <3>1. ~(b + Widths[tier] <= rolledAt[tier])
        BY DEF Over
      <3> QED
        BY <3>1, <2>4, <1>0
    <2> QED
      BY <2>2, <2>5, <1>4
  <1> QED
    BY <1>6, <1>7

\* A bucket that is made again although some of what it was made from has been pruned:
\* no row followed it in time.
LEMMA PrunedSourceDamages ==
    ASSUME TimeInv, TypeOK', TableInv, RetainSuffices, Roll,
           NEW b \in Minutes, b = Align(tier, b), b + Widths[tier] <= Minute(clock),
           b >= RollFrom(tier), Sum("local", tier, b) # {},
           NEW c \in Bucket(tier, b) \cap Minutes, c = Align(tier - 1, c), Pruned(tier - 1, c)
    PROVE  Unfollowed(tier, b)
  <1> DEFINE r == Retain[tier - 1]
             w == Widths[tier]
  <1>0. TypeOK /\ tier \in 2..Top /\ tier \in Tiers /\ tier - 1 \in Tiers /\ b \in Int /\ "local" \in Series
    BY RollTimes, MinutesAre DEF Series
  <1>1. (b + r) * PerMin < clock /\ \A u \in 2..Top : b + r <= rolledAt[u]
    BY SourcesAre
  <1>n. w \in Nat /\ r \in Nat /\ Retain[tier] \in Nat /\ r + w - 1 <= Retain[tier] /\ rolledAt[tier] \in Nat
    BY <1>0, WidthsAre, TableTypes DEF RetainSuffices
  <1>2. ASSUME NEW m \in Minutes, stored["local"][m] # {}, m >= b + w, Align(tier, m) + w <= b + r
        PROVE  FALSE
    <2> DEFINE d == Align(tier, m)
    <2>1. d \in Minutes /\ m \in Bucket(tier, d) /\ m \in Int
      BY <1>0, AlignIsThere, MinutesAre
    <2>2. d \in Int /\ d = Align(tier, d) /\ m < d + w
      BY <1>0, <2>1, AlignIs
    <2> HIDE DEF d
    <2>3. b < d
      BY <1>2, <1>0, <1>n, <2>1, <2>2
    <2>4. Stored(tier, d) # {}
      BY <2>1, <1>2 DEF Stored
    <2>5. Over(tier, d)
      <3>1. d + w <= b + r
        BY <1>2 DEF d
      <3>2. d + w <= rolledAt[tier]
        BY <3>1, <1>0, <1>1, <1>n, <2>2
      <3> QED
        BY <3>2 DEF Over
    <2>6. rows["local"][tier][d] # {} \/ Pruned(tier, d)
      BY <2>1, <2>2, <2>4, <2>5, <1>0 DEF TableInv, RowIsThere
    <2>7. CASE rows["local"][tier][d] # {}
      <3>1. d \in Starts(tier)
        BY <2>1, <2>7, <1>0 DEF Starts
      <3>2. d <= RollFrom(tier) /\ RollFrom(tier) \in Starts(tier)
        BY <3>1, <1>0, RollFromIs
      <3>3. RollFrom(tier) \in Int
        BY <3>2, MinutesAre DEF Starts
      <3> QED
        BY <3>2, <3>3, <2>2, <2>3, <1>0
    <2>8. CASE Pruned(tier, d)
      <3>1. ASSUME NEW e \in Bucket(tier, b) \cap Minutes PROVE rows["local"][tier - 1][e] = {}
        <4>1. e \in Int
          BY MinutesAre
        <4>2. e < b + w
          BY <4>1, <1>0, BucketIs
        <4>3. e + r <= d + Retain[tier]
          BY <4>1, <4>2, <1>0, <1>n, <2>2, <2>3
        <4>4. tier - 1 \in 1..(tier - 1)
          BY <1>0
        <4> QED
          BY <4>3, <4>4, <2>8 DEF Pruned
      <3> QED
        BY <3>1 DEF Sum
    <2> QED
      BY <2>6, <2>7, <2>8
  <1> QED
    <2>1. \A m \in Minutes : stored["local"][m] # {} /\ m >= b + w => ~(Align(tier, m) + w <= b + r)
      BY <1>2
    <2>2. \A m \in Minutes : Align(tier, m) + w \in Int /\ b + r \in Int
      BY <1>0, <1>n, AlignIs, MinutesAre
    <2>3. \A m \in Minutes : stored["local"][m] # {} /\ m >= b + w => Align(tier, m) + w > b + r
      BY <2>1, <2>2
    <2> QED
      BY <1>1, <2>3 DEF Unfollowed

\* Damage to what a bucket is made from is damage to it.
LEMMA DamageSpreads ==
    ASSUME NEW t \in 2..Top, NEW b \in Minutes, b = Align(t, b),
           NEW c \in Bucket(t, b) \cap Minutes, c = Align(t - 1, c), Damaged(t - 1, c)
    PROVE  Damaged(t, b)
  <1>0. t \in Tiers /\ t - 1 \in Tiers /\ b \in Int /\ c \in Int
    BY ConstantsAssumption, MinutesAre DEF Tiers
  <1>1. PICK u \in 2..(t - 1), d \in Bucket(t - 1, c) \cap Minutes : Unfollowed(u, Align(u, d))
    BY DEF Damaged
  <1>2. d \in Int /\ b <= c /\ c < b + Widths[t] /\ c <= d /\ d < c + Widths[t - 1]
    BY <1>0, <1>1, BucketIs, MinutesAre
  <1>3. c + Widths[t - 1] <= b + Widths[t] /\ Widths[t] \in Nat /\ Widths[t - 1] \in Nat
    BY <1>0, <1>2, BucketsInside, WidthsAre
  <1>4. b <= d /\ d < b + Widths[t]
    BY <1>0, <1>2, <1>3
  <1>5. d \in Bucket(t, b)
    BY <1>0, <1>2, <1>4, BucketIs
  <1>6. u \in 2..t
    OBVIOUS
  <1> QED
    BY <1>1, <1>5, <1>6 DEF Damaged

\* A bucket that is made has all that was stored, if nothing damaged it.
LEMMA MadeIsExact ==
    ASSUME TimeInv, TypeOK', TableInv, RetainSuffices, Roll,
           NEW b \in Minutes, b = Align(tier, b), b + Widths[tier] <= Minute(clock),
           b >= RollFrom(tier), Sum("local", tier, b) # {}, ~Damaged(tier, b)
    PROVE  Sum("local", tier, b) = Stored(tier, b)
  <1> DEFINE C == {c \in Bucket(tier, b) \cap Minutes : c = Align(tier - 1, c)}
  <1>0. TypeOK /\ tier \in 2..Top /\ tier \in Tiers /\ tier - 1 \in Tiers /\ b \in Int /\ "local" \in Series
    BY RollTimes, MinutesAre DEF Series
  <1>1. ASSUME NEW c \in C PROVE rows["local"][tier - 1][c] = Stored(tier - 1, c)
    <2>1. ~Damaged(tier - 1, c)
      BY <1>0, DamageSpreads
    <2>2. ~Pruned(tier - 1, c)
      <3>1. ASSUME Pruned(tier - 1, c) PROVE FALSE
        <4>1. Unfollowed(tier, b)
          BY <3>1, PrunedSourceDamages
        <4>2. b \in Bucket(tier, b) /\ tier \in 2..tier
          <5>1. b < b + Widths[tier]
            BY <1>0, WidthsAre
          <5> QED
            BY <5>1, <1>0, BucketIs
        <4> QED
          BY <4>1, <4>2 DEF Damaged
      <3> QED
        BY <3>1
    <2>3. Over(tier - 1, c)
      BY SourcesAre
    <2>4. RowIsThere(tier - 1, c) /\ RowIsExact(tier - 1, c)
      BY <1>0 DEF TableInv
    <2> QED
      BY <2>1, <2>2, <2>3, <2>4 DEF RowIsThere, RowIsExact
  <1>2. ASSUME NEW m \in Bucket(tier, b) \cap Minutes, m \notin C PROVE rows["local"][tier - 1][m] = {}
    BY <1>0, <1>2 DEF TableInv, RowInPlace
  <1>3. Stored(tier, b) = UNION {Stored(tier - 1, c) : c \in C}
    BY <1>0, StoredParts
  <1>4. C \subseteq Bucket(tier, b) \cap Minutes
    OBVIOUS
  <1> HIDE DEF C
  <1>5. Sum("local", tier, b) = UNION {rows["local"][tier - 1][c] : c \in C}
    BY <1>2, <1>4 DEF Sum
  <1> QED
    BY <1>1, <1>3, <1>5

\* A roll-up.
LEMMA RollKeepsRows ==
    ASSUME TimeInv, TypeOK', TableInv, RetainSuffices, Roll
    PROVE  /\ \A s \in Series : \A t \in Tiers : \A b \in Minutes : RowInPlace(s, t, b)'
           /\ \A t \in Tiers : \A b \in Minutes : RowIsThere(t, b)' /\ RowIsExact(t, b)'
  <1>0. /\ TypeOK /\ tier \in 2..Top /\ tier \in Tiers /\ tier - 1 \in Tiers /\ "local" \in Series
        /\ clock' = clock /\ clock <= clock' /\ stored' = stored
        /\ \A u \in Tiers : rolledAt'[u] = IF u = tier THEN Minute(clock) ELSE rolledAt[u]
        /\ \A u \in Tiers : rolledAt[u] <= rolledAt'[u]
    BY RollTimes DEF Series
  <1>1. ASSUME NEW t \in Tiers, NEW b \in Minutes, Over(t, b) PROVE Over(t, b)'
    <2>1. b + Widths[t] \in Int /\ rolledAt[t] \in Int /\ rolledAt'[t] \in Int
      BY <1>0, MinutesAre, WidthsAre, TableTypes, TableTypesNext
    <2> QED
      BY <2>1, <1>0, <1>1 DEF Over
  <1>2. ASSUME NEW s \in Series, NEW t \in Tiers, NEW b \in Minutes
        PROVE  \/ rows'[s][t][b] = rows[s][t][b]
               \/ /\ t = tier /\ b = Align(tier, b) /\ b >= RollFrom(tier)
                  /\ b + Widths[tier] <= Minute(clock)
                  /\ Sum(s, tier, b) # {} /\ rows'[s][t][b] = Sum(s, tier, b)
    BY <1>0, RollEffect, RollToIs
  <1>3. ASSUME NEW s \in Series, NEW t \in Tiers, NEW b \in Minutes
        PROVE  RowInPlace(s, t, b)'
    <2>1. CASE rows'[s][t][b] = rows[s][t][b]
      <3>1. rows[s][t][b] # {} => b = Align(t, b) /\ Over(t, b)'
        BY <1>1 DEF TableInv, RowInPlace
      <3> QED
        BY <3>1, <2>1 DEF RowInPlace, Align
    <2>2. CASE t = tier /\ b = Align(tier, b) /\ b + Widths[tier] <= Minute(clock)
      <3>1. Over(t, b)'
        BY <2>2, <1>0 DEF Over
      <3>2. b = Align(t, b)
        BY <2>2
      <3> QED
        BY <3>1, <3>2 DEF RowInPlace, Align
    <2> QED
      BY <1>2, <2>1, <2>2
  <1>4. ASSUME NEW t \in Tiers, NEW b \in Minutes
        PROVE  RowIsThere(t, b)'
    <2>1. SUFFICES ASSUME b = Align(t, b), Over(t, b)', Stored(t, b) # {}
                   PROVE  rows'["local"][t][b] # {} \/ Pruned(t, b)'
      <3>1. Stored(t, b)' = Stored(t, b) /\ Align(t, b)' = Align(t, b)
        BY <1>0 DEF Stored, Bucket, Align
      <3> QED
        BY <3>1 DEF RowIsThere
    <2>2. CASE Over(t, b)
      <3>1. rows["local"][t][b] # {} \/ Pruned(t, b)
        BY <2>1, <2>2 DEF TableInv, RowIsThere
      <3>2. rows["local"][t][b] # {} => rows'["local"][t][b] # {}
        BY <1>0, <1>2
      <3> QED
        BY <3>1, <3>2, RollKeepsPruned
    <2>3. CASE ~Over(t, b)
      <3>1. t = tier /\ b + Widths[tier] <= Minute(clock)
        BY <2>1, <2>3, <1>0 DEF Over
      <3>2. b >= RollFrom(tier) /\ Sum("local", tier, b) # {}
        BY <3>1, <2>1, <2>3, DueIsMade
      <3>3. b < RollTo(tier)
        BY <3>1, <2>1, <1>0, RollToIs
      <3>4. rows'["local"][t][b] = Sum("local", tier, b)
        BY <3>1, <3>2, <3>3, <2>1, <1>0, RollEffect
      <3> QED
        BY <3>2, <3>4
    <2> QED
      BY <2>2, <2>3
  <1>5. ASSUME NEW t \in Tiers, NEW b \in Minutes
        PROVE  RowIsExact(t, b)'
    <2>1. Damaged(t, b) => Damaged(t, b)'
      BY <1>0, DamagedStays
    <2>2. Stored(t, b)' = Stored(t, b)
      BY <1>0 DEF Stored, Bucket
    <2>3. CASE rows'["local"][t][b] = rows["local"][t][b]
      <3>1. RowIsExact(t, b)
        BY DEF TableInv
      <3> QED
        BY <3>1, <2>1, <2>2, <2>3 DEF RowIsExact
    <2>4. CASE /\ t = tier /\ b = Align(tier, b) /\ b >= RollFrom(tier)
               /\ b + Widths[tier] <= Minute(clock)
               /\ Sum("local", tier, b) # {} /\ rows'["local"][t][b] = Sum("local", tier, b)
      <3>1. Damaged(tier, b) \/ Sum("local", tier, b) = Stored(tier, b)
        BY <2>4, MadeIsExact
      <3> QED
        BY <3>1, <2>1, <2>2, <2>4 DEF RowIsExact
    <2> QED
      BY <1>0, <1>2, <2>3, <2>4
  <1> QED
    BY <1>3, <1>4, <1>5

\* Its parts.
LEMMA ReachParts ==
    ASSUME NEW t \in Tiers, NEW b \in Minutes
    PROVE  b * PerMin \in Int /\ Retain[t] * PerMin \in Int
  <1>1. b \in Nat /\ Retain[t] \in Nat /\ PerMin \in Nat
    BY WidthsAre, MinutesAre, ConstantsAssumption
  <1> QED
    BY <1>1

\* A row that is cleared was too old for its table, and so was what is finer.
LEMMA ClearedIsPruned ==
    ASSUME TypeOK, TableInv, Prune, NEW b \in Minutes, Outdated(tier, b)
    PROVE  Pruned(tier, b)
  <1>0. tier \in Tiers /\ pc = "prune" /\ clock \in Nat /\ Minute(clock) \in Int
    BY ConstantsAssumption, TableTypes, MinutesAre DEF TypeOK, Prune, Tiers
  <1>1. (b + Retain[tier]) * PerMin < clock /\ b + Retain[tier] \in Nat
    <2>1. /\ b * PerMin < clock - Retain[tier] * PerMin
          /\ b * PerMin \in Int /\ Retain[tier] * PerMin \in Int /\ clock \in Int
      BY <1>0, MinutesAre, WidthsAre, ConstantsAssumption DEF Outdated
    <2>2. /\ (b + Retain[tier]) * PerMin = b * PerMin + Retain[tier] * PerMin
          /\ b + Retain[tier] \in Nat
      BY <1>0, ReachIs
    <2> QED
      BY <2>1, <2>2
  <1>2. \A u \in 2..Top : b + Retain[tier] <= rolledAt[u]
    <2>1. b + Retain[tier] \in Int /\ (b + Retain[tier]) * PerMin <= clock
      BY <1>0, <1>1, ReachIs
    <2>2. b + Retain[tier] <= Minute(clock)
      BY <2>1, <1>0, MinuteHasBegun
    <2> QED
      BY <2>2, <1>0 DEF TableInv, RoundInv
  <1>3. ASSUME NEW u \in 1..(tier - 1), NEW c \in Minutes, c + Retain[u] <= b + Retain[tier]
        PROVE  rows["local"][u][c] = {}
    <2>0. u \in Tiers
      BY <1>0, WidthsAre, ConstantsAssumption DEF Tiers
    <2>1. (c + Retain[u]) * PerMin <= (b + Retain[tier]) * PerMin
      <3>1. c + Retain[u] \in Int /\ b + Retain[tier] \in Int /\ PerMin \in Nat
        BY <2>0, <1>1, ReachIs, ConstantsAssumption
      <3>2. PerMin * (c + Retain[u]) <= PerMin * (b + Retain[tier])
        BY <3>1, <1>3, TimesKeeps
      <3> QED
        BY <3>1, <3>2
    <2>2. Outdated(u, c)
      <3>1. /\ c * PerMin \in Int /\ Retain[u] * PerMin \in Int /\ clock \in Int
            /\ (b + Retain[tier]) * PerMin \in Int /\ (c + Retain[u]) * PerMin \in Int
            /\ (c + Retain[u]) * PerMin = c * PerMin + Retain[u] * PerMin
        BY <2>0, <1>0, ReachIs, ReachParts
      <3> QED
        BY <3>1, <2>1, <1>1 DEF Outdated
    <2> QED
      BY <2>2, <1>0 DEF TableInv, RoundInv
  <1> QED
    BY <1>1, <1>2, <1>3 DEF Pruned

\* A prune.
LEMMA PruneKeepsRows ==
    ASSUME TypeOK, TypeOK', TableInv, Prune
    PROVE  /\ \A s \in Series : \A t \in Tiers : \A b \in Minutes : RowInPlace(s, t, b)'
           /\ \A t \in Tiers : \A b \in Minutes : RowIsThere(t, b)' /\ RowIsExact(t, b)'
           /\ \A b \in Minutes : Outdated(tier, b) => rows'["local"][tier][b] = {}
           /\ \A t \in Tiers : \A b \in Minutes : rows["local"][t][b] = {} => rows'["local"][t][b] = {}
  <1>0. "local" \in Series /\ clock' = clock /\ rolledAt' = rolledAt /\ stored' = stored
        /\ tier \in Tiers
    BY ConstantsAssumption DEF Series, Prune, TypeOK, Tiers
  <1>1. clock <= clock' /\ \A u \in Tiers : rolledAt[u] <= rolledAt'[u]
    BY <1>0, TableTypes
  <1>2. \A s \in Series : \A t \in Tiers : \A b \in Minutes :
           rows'[s][t][b] = IF t = tier /\ Outdated(t, b) THEN {} ELSE rows[s][t][b]
    BY PruneEffect
  <1>3. \A t \in Tiers : \A b \in Minutes : rows["local"][t][b] = {} => rows'["local"][t][b] = {}
    BY <1>0, <1>2
  <1>4. ASSUME NEW t \in Tiers, NEW b \in Minutes
        PROVE  RowIsThere(t, b)' /\ RowIsExact(t, b)'
    <2>1. RowIsThere(t, b) /\ RowIsExact(t, b)
      BY DEF TableInv
    <2>t. \A u \in 1..(t - 1) : u \in Tiers
      BY WidthsAre, ConstantsAssumption DEF Tiers
    <2>2. Pruned(t, b) => Pruned(t, b)'
      BY <1>1, <1>3, <2>t, PrunedStays
    <2>3. Damaged(t, b) => Damaged(t, b)'
      BY <1>0, <1>1, DamagedStays
    <2>4. Stored(t, b)' = Stored(t, b) /\ (Over(t, b)' <=> Over(t, b)) /\ Align(t, b)' = Align(t, b)
      BY <1>0 DEF Stored, Over, Bucket, Align
    <2>5. rows'["local"][t][b] = rows["local"][t][b] \/ (rows'["local"][t][b] = {} /\ Pruned(t, b))
      BY <1>0, <1>2, ClearedIsPruned
    <2> QED
      BY <2>1, <2>2, <2>3, <2>4, <2>5 DEF RowIsThere, RowIsExact
  <1>5. ASSUME NEW s \in Series, NEW t \in Tiers, NEW b \in Minutes
        PROVE  RowInPlace(s, t, b)'
    <2>1. rows'[s][t][b] # {} => rows[s][t][b] # {}
      BY <1>2
    <2> QED
      BY <2>1, <1>0 DEF TableInv, RowInPlace, Over, Align
  <1>6. \A b \in Minutes : Outdated(tier, b) => rows'["local"][tier][b] = {}
    BY <1>0, <1>2
  <1> QED
    BY <1>3, <1>4, <1>5, <1>6

\* The times of the tables after a step.
LEMMA TimesStep ==
    ASSUME TimeInv, TypeOK', TableInv, Next
    PROVE  /\ \A t \in Tiers : rolledAt'[t] <= Minute(clock')
           /\ last' # None => \A t \in Tiers : rolledAt'[t] <= last' + 1
           /\ clock <= clock'
  <1>0. TypeOK /\ (\A t \in Tiers : rolledAt[t] <= Minute(clock) /\ rolledAt[t] \in Nat)
    BY TableTypes DEF TimeInv, TableInv, RoundInv
  <1>a. clock \in Int /\ clock' \in Int /\ Minute(clock) \in Int /\ Minute(clock') \in Int
    <2>1. clock \in Int /\ clock' \in Int
      BY <1>0, TableTypes, TableTypesNext
    <2> QED
      BY <2>1, MinuteIs
  <1>b. last # None => \A t \in Tiers : rolledAt[t] <= last + 1
    BY DEF TableInv, RoundInv
  <1>c. last \in Int \cup {None} /\ target \in Int
    BY <1>0 DEF TypeOK
  <1>d. clock <= clock'
    <2>1. clock' = clock \/ clock' = clock + 1
      BY DEF Next, Tick, Skip, Flush, FlushNothing, FlushMinute, FlushFails, FlushEnd, Maintain, Roll, RollEnd,
             Prune, PruneEnd, MaintainFails, AgentRow, Stop, Exit, Crash, GoDown, Pass, Start
    <2> QED
      BY <2>1, <1>a
  <1>e. Minute(clock) <= Minute(clock')
    BY <1>a, <1>d, MinutesGrow
  <1>1. CASE Roll
    <2>1. \A u \in Tiers : rolledAt'[u] = IF u = tier THEN Minute(clock) ELSE rolledAt[u]
      BY <1>1, RollTimes
    <2>2. last' = last /\ clock' = clock /\ pc = "roll"
      BY <1>1 DEF Roll, memory
    <2>3. last # None /\ Minute(clock) - 1 <= last
      BY <2>2 DEF TimeInv
    <2>4. Minute(clock) <= last + 1
      BY <2>3, <1>a, <1>c
    <2> QED
      BY <2>1, <2>2, <2>4, <1>0, <1>a, <1>b, <1>d, <2>3
  <1>2. CASE Tick \/ Stop
    <2>1. PICK cur \in Int, to \in Int : FlushBegin(cur, BaseOf(cur), to) /\ Minute(clock) <= cur
      <3>1. CASE Tick
        <4>1. FlushBegin(Minute(clock'), BaseOf(Minute(clock')), Minute(clock') - 1)
          BY <3>1 DEF Tick
        <4>2. Minute(clock') - 1 \in Int
          BY <1>a
        <4> QED
          BY <4>1, <4>2, <1>a, <1>e
      <3>2. CASE Stop
        BY <3>2, <1>a DEF Stop
      <3> QED
        BY <1>2, <3>1, <3>2
    <2>2. last' = BaseOf(cur)
      BY <2>1 DEF FlushBegin
    <2>3. rolledAt' = rolledAt
      BY <1>2 DEF Tick, Stop, tables
    <2>4. \A t \in Tiers : rolledAt[t] <= last' + 1
      <3>1. CASE last = None
        <4>1. last' + 1 = cur
          BY <3>1, <2>1, <2>2 DEF BaseOf
        <4> QED
          BY <4>1, <2>1, <1>0, <1>a
      <3>2. CASE last # None
        BY <3>2, <2>2, <1>b DEF BaseOf
      <3> QED
        BY <3>1, <3>2
    <2> QED
      BY <2>3, <2>4, <1>0, <1>a, <1>d, <1>e
  <1>3. CASE FlushEnd
    <2>1. last' = target /\ rolledAt' = rolledAt /\ last # None /\ last < target
      BY <1>3 DEF FlushEnd, tables, TimeInv
    <2>2. \A t \in Tiers : rolledAt[t] <= target + 1
      BY <2>1, <1>0, <1>b, <1>c
    <2> QED
      BY <2>1, <2>2, <1>0, <1>a, <1>d, <1>e
  <1>4. CASE Exit \/ Crash
    <2>1. last' = None /\ rolledAt' = rolledAt
      BY <1>4 DEF Exit, Crash, GoDown, tables
    <2> QED
      BY <2>1, <1>0, <1>a, <1>d, <1>e
  <1>5. CASE UNCHANGED <<last, rolledAt>>
    BY <1>5, <1>0, <1>a, <1>b, <1>d, <1>e
  <1> QED
    BY <1>1, <1>2, <1>3, <1>4, <1>5
       DEF Next, Skip, Flush, FlushNothing, FlushMinute, FlushFails, Maintain, RollEnd, Prune, PruneEnd,
           MaintainFails, AgentRow, Insert, Pass, Start, memory, tables

\* The order of a round.
LEMMA RoundStep ==
    ASSUME TimeInv, TypeOK', TableInv, Next
    PROVE  RoundInv'
  <1>0. /\ \A t \in Tiers : rolledAt'[t] <= Minute(clock')
        /\ last' # None => \A t \in Tiers : rolledAt'[t] <= last' + 1
        /\ TypeOK /\ tier \in 1..(Top + 1) /\ Top \in Nat
    BY TimesStep, ConstantsAssumption DEF TimeInv, TypeOK
  <1>1. ASSUME pc' = "roll" PROVE \A t \in 2..(tier' - 1) : rolledAt'[t] = Minute(clock')
    <2>1. CASE FlushEnd
      <3>1. tier' = 2
        BY <1>1, <2>1 DEF FlushEnd
      <3> QED
        BY <3>1
    <2>2. CASE Roll
      <3>1. /\ \A u \in Tiers : rolledAt'[u] = IF u = tier THEN Minute(clock) ELSE rolledAt[u]
            /\ pc = "roll" /\ clock' = clock
        BY <2>2, RollTimes
      <3>2. tier' - 1 = tier /\ tier <= Top
        BY <2>2, <1>0 DEF Roll
      <3>3. ASSUME NEW t \in 2..tier PROVE rolledAt'[t] = Minute(clock)
        <4>1. t \in Tiers /\ (t = tier \/ t \in 2..(tier - 1))
          BY <3>2, <3>3, <1>0 DEF Tiers
        <4>2. t \in 2..(tier - 1) => rolledAt[t] = Minute(clock)
          BY <3>1 DEF TableInv, RoundInv
        <4> QED
          BY <4>1, <4>2, <3>1
      <3> QED
        BY <3>1, <3>2, <3>3
    <2>3. CASE \E m \in Minutes : AgentRow(m)
      <3>1. UNCHANGED <<pc, tier, rolledAt, clock>>
        BY <2>3 DEF AgentRow
      <3> QED
        BY <3>1, <1>1 DEF TableInv, RoundInv
    <2>4. CASE Tick \/ Stop
      BY <2>4, <1>1 DEF Tick, Stop, FlushBegin
    <2>5. CASE Skip \/ FlushNothing \/ FlushMinute \/ FlushFails \/ RollEnd \/ Prune \/ PruneEnd
               \/ MaintainFails \/ Exit \/ Crash \/ Pass \/ Start
      BY <2>5, <1>1 DEF Skip, FlushNothing, FlushMinute, FlushFails, RollEnd, Prune, PruneEnd, MaintainFails,
                        Exit, Crash, GoDown, Pass, Start
    <2> QED
      BY <2>1, <2>2, <2>3, <2>4, <2>5 DEF Next, Flush, Maintain
  <1>2. ASSUME pc' = "prune"
        PROVE  /\ \A t \in 2..Top : rolledAt'[t] = Minute(clock')
               /\ \A t \in 1..(tier' - 1) : \A b \in Minutes :
                     Outdated(t, b)' => rows'["local"][t][b] = {}
    <2>1. CASE RollEnd
      <3>1. pc = "roll" /\ tier - 1 = Top /\ tier' = 1 /\ rolledAt' = rolledAt /\ clock' = clock
        BY <2>1, <1>0 DEF RollEnd, tables
      <3>2. \A t \in 2..Top : rolledAt[t] = Minute(clock)
        BY <3>1 DEF TableInv, RoundInv
      <3> QED
        BY <3>1, <3>2
    <2>2. CASE Prune
      <3>1. pc = "prune" /\ tier' - 1 = tier /\ tier \in Tiers /\ rolledAt' = rolledAt /\ clock' = clock
        BY <2>2, <1>0 DEF Prune, Tiers
      <3>2. /\ \A t \in 2..Top : rolledAt[t] = Minute(clock)
            /\ \A t \in 1..(tier - 1) : \A b \in Minutes : Outdated(t, b) => rows["local"][t][b] = {}
        BY <3>1 DEF TableInv, RoundInv
      <3>3. /\ \A b \in Minutes : Outdated(tier, b) => rows'["local"][tier][b] = {}
            /\ \A t \in Tiers : \A b \in Minutes : rows["local"][t][b] = {} => rows'["local"][t][b] = {}
        BY <2>2, <1>0, PruneKeepsRows
      <3>4. ASSUME NEW t \in 1..tier, NEW b \in Minutes, Outdated(t, b) PROVE rows'["local"][t][b] = {}
        <4>1. t \in Tiers /\ (t = tier \/ t \in 1..(tier - 1))
          BY <3>1, <1>0, <3>4 DEF Tiers
        <4> QED
          BY <4>1, <3>2, <3>3, <3>4
      <3>5. \A t \in 1..tier : \A b \in Minutes : Outdated(t, b)' => Outdated(t, b)
        BY <3>1 DEF Outdated
      <3> QED
        BY <3>1, <3>2, <3>4, <3>5
    <2>3. ASSUME NEW m \in Minutes, AgentRow(m)
          PROVE  /\ \A t \in 2..Top : rolledAt'[t] = Minute(clock')
                 /\ \A t \in 1..(tier' - 1) : \A b \in Minutes :
                       Outdated(t, b)' => rows'["local"][t][b] = {}
      <3>1. UNCHANGED <<pc, tier, rolledAt, clock>>
        BY <2>3 DEF AgentRow
      <3>2. \A t \in Tiers : \A b \in Minutes : rows'["local"][t][b] = rows["local"][t][b]
        BY <2>3, <1>0, AgentKeepsRows
      <3>3. \A t \in 1..(tier - 1) : t \in Tiers
        BY <1>0 DEF Tiers
      <3>4. /\ \A t \in 2..Top : rolledAt[t] = Minute(clock)
            /\ \A t \in 1..(tier - 1) : \A b \in Minutes : Outdated(t, b) => rows["local"][t][b] = {}
        BY <3>1, <1>2 DEF TableInv, RoundInv
      <3>5. \A t \in 1..(tier - 1) : \A b \in Minutes : Outdated(t, b)' => Outdated(t, b)
        BY <3>1 DEF Outdated
      <3> QED
        BY <3>1, <3>2, <3>3, <3>4, <3>5
    <2>4. CASE Tick \/ Stop
      BY <2>4, <1>2 DEF Tick, Stop, FlushBegin
    <2>5. CASE Skip \/ FlushNothing \/ FlushMinute \/ FlushFails \/ FlushEnd \/ Roll \/ PruneEnd
               \/ MaintainFails \/ Exit \/ Crash \/ Pass \/ Start
      BY <2>5, <1>2 DEF Skip, FlushNothing, FlushMinute, FlushFails, FlushEnd, Roll, PruneEnd, MaintainFails,
                        Exit, Crash, GoDown, Pass, Start
    <2> QED
      BY <2>1, <2>2, <2>3, <2>4, <2>5 DEF Next, Flush, Maintain
  <1> QED
    BY <1>0, <1>1, <1>2 DEF RoundInv

\* A step of the tables.
LEMMA TableStep == TimeInv /\ TimeInv' /\ TableInv /\ RetainSuffices /\ Next => TableInv'
  <1> SUFFICES ASSUME TimeInv, TypeOK', TableInv, RetainSuffices, Next
               PROVE  TableInv'
    BY DEF TimeInv
  <1>0. TypeOK /\ clock <= clock'
    BY TimesStep DEF TimeInv
  <1>1. RoundInv'
    BY RoundStep
  <1>2. /\ \A s \in Series : \A t \in Tiers : \A b \in Minutes : RowInPlace(s, t, b)'
        /\ \A t \in Tiers : \A b \in Minutes : RowIsThere(t, b)' /\ RowIsExact(t, b)'
    <2>1. CASE FlushMinute
      BY <2>1, FlushKeepsRows
    <2>2. CASE Roll
      BY <2>2, RollKeepsRows
    <2>3. CASE Prune
      BY <2>3, <1>0, PruneKeepsRows
    <2>4. CASE \E m \in Minutes : AgentRow(m)
      BY <2>4, <1>0, AgentKeepsRows
    <2>5. CASE UNCHANGED tables
      BY <2>5, <1>0, TablesRest
    <2> QED
      BY <2>1, <2>2, <2>3, <2>4, <2>5
         DEF Next, Tick, Skip, Flush, FlushNothing, FlushFails, FlushEnd, Maintain, RollEnd, PruneEnd,
             MaintainFails, Stop, Exit, Crash, GoDown, Pass, Start
  <1>3. (\A s \in Series : \A t \in Tiers : \A b \in Minutes : RowInPlace(s, t, b))'
    BY <1>2 DEF Series, Tiers, Minutes
  <1>4. (\A t \in Tiers : \A b \in Minutes : RowIsThere(t, b) /\ RowIsExact(t, b))'
    BY <1>2 DEF Tiers, Minutes
  <1> QED
    BY <1>1, <1>3, <1>4 DEF TableInv

\* Empty tables.
LEMMA InitTableInv == Init => TableInv
  <1> SUFFICES ASSUME Init PROVE TableInv
    OBVIOUS
  <1>1. clock = 0 /\ last = None /\ pc = "idle" /\ \A t \in Tiers : rolledAt[t] = 0
    BY DEF Init
  <1>2. 0 <= Minute(clock)
    BY <1>1, ConstantsAssumption DEF Minute
  <1>3. RoundInv
    BY <1>1, <1>2 DEF RoundInv
  <1>4. /\ \A s \in Series : \A t \in Tiers : \A b \in Minutes : rows[s][t][b] = {}
        /\ \A b \in Minutes : stored["local"][b] = {}
    BY DEF Init, Series
  <1>5. \A t \in Tiers : \A b \in Minutes : Stored(t, b) = {}
    BY <1>4 DEF Stored
  <1>6. \A t \in Tiers : \A b \in Minutes : rows["local"][t][b] = {}
    BY <1>4 DEF Series
  <1> QED
    BY <1>3, <1>4, <1>5, <1>6 DEF TableInv, RowInPlace, RowIsThere, RowIsExact

\* A bucket that was left in peace is not damaged.
LEMMA UndisturbedIsWhole ==
    ASSUME NEW t \in Tiers, NEW b \in Minutes, NEW T \in Tiers, NEW a \in Minutes,
           Bucket(t, b) \subseteq Bucket(T, a), t <= T, Undisturbed(T, a), clock \in Int
    PROVE  ~Damaged(t, b)
  <1> SUFFICES ASSUME NEW u \in 2..t, NEW c \in Bucket(t, b) \cap Minutes, Unfollowed(u, Align(u, c))
               PROVE  FALSE
    BY DEF Damaged
  <1>1. u \in 2..T /\ c \in Bucket(T, a) \cap Minutes /\ u \in Tiers /\ u - 1 \in Tiers
    BY WidthsAre, ConstantsAssumption DEF Tiers
  <1> DEFINE d == Align(u, c)
  <1>2. Followed(u, d) /\ Unfollowed(u, d) /\ d \in Minutes
    BY <1>1, AlignIsThere DEF Undisturbed
  <1> HIDE DEF d
  <1>3. (d + Retain[u - 1]) * PerMin < clock /\ (d + Retain[u - 1]) * PerMin \in Int /\ d + Retain[u - 1] \in Int
    BY <1>1, <1>2, ReachIs DEF Unfollowed
  <1>4. PICK m \in Minutes : /\ stored["local"][m] # {} /\ m >= d + Widths[u]
                             /\ Align(u, m) + Widths[u] <= d + Retain[u - 1]
    BY <1>2, <1>3 DEF Followed
  <1>5. Align(u, m) + Widths[u] > d + Retain[u - 1]
    BY <1>2, <1>4 DEF Unfollowed
  <1>6. Align(u, m) + Widths[u] \in Int
    BY <1>1, AlignIs, WidthsAre, MinutesAre
  <1> QED
    BY <1>3, <1>4, <1>5, <1>6

\* A row that is there has every minute of its bucket.
LEMMA RowHasMinute ==
    ASSUME TableInv, NEW t \in Tiers, NEW m \in Minutes, stored["local"][m] # {},
           Over(t, Align(t, m)), ~Pruned(t, Align(t, m)), ~Damaged(t, Align(t, m))
    PROVE  stored["local"][m] \subseteq rows["local"][t][Align(t, m)]
  <1> DEFINE b == Align(t, m)
  <1>1. b \in Minutes /\ m \in Bucket(t, b) /\ b = Align(t, b)
    BY AlignIsThere, AlignIs, MinutesAre
  <1> HIDE DEF b
  <1>2. stored["local"][m] \subseteq Stored(t, b) /\ Stored(t, b) # {}
    BY <1>1 DEF Stored
  <1>3. Over(t, b) /\ ~Pruned(t, b) /\ ~Damaged(t, b)
    BY DEF b
  <1>4. rows["local"][t][b] = Stored(t, b)
    BY <1>1, <1>2, <1>3 DEF TableInv, RowIsThere, RowIsExact
  <1> QED
    BY <1>2, <1>4 DEF b

\* Exact rows are what the run checks.
LEMMA TableIsExact == TimeInv /\ TableInv => RollupIsExact
  <1> SUFFICES ASSUME TimeInv, TableInv, NEW t \in 2..Top, NEW b \in Minutes,
                      rows["local"][t][b] # {}, Undisturbed(t, b)
               PROVE  rows["local"][t][b] = Stored(t, b)
    BY DEF RollupIsExact
  <1>1. t \in Tiers /\ clock \in Int /\ t <= t
    BY ConstantsAssumption, TableTypes DEF Tiers, TimeInv
  <1>2. ~Damaged(t, b)
    BY <1>1, UndisturbedIsWhole
  <1> QED
    BY <1>1, <1>2 DEF TableInv, RowIsExact

\* The buckets of a minute, up to the coarsest table.
LEMMA BucketsNestAll ==
    ASSUME NEW m \in Minutes, NEW t \in Tiers
    PROVE  Bucket(t, Align(t, m)) \subseteq Bucket(Top, Align(Top, m))
  <1> DEFINE S == {u \in Tiers : ~(Bucket(u, Align(u, m)) \subseteq Bucket(Top, Align(Top, m)))}
  <1>0. Top \in Nat /\ Top \in Tiers /\ m \in Int
    BY ConstantsAssumption, MinutesAre DEF Tiers
  <1>1. ASSUME S # {} PROVE FALSE
    <2>1. S \in SUBSET (0..Top)
      BY <1>0 DEF Tiers
    <2>2. PICK u \in S : \A v \in S : v <= u
      BY <1>0, <1>1, <2>1, MaxIsGreatest
    <2>3. u \in Tiers /\ u \in Int /\ u # Top /\ u + 1 \in 2..Top /\ u + 1 \in Tiers /\ (u + 1) - 1 = u
      BY <2>2, <1>0 DEF Tiers
    <2>4. u + 1 \notin S
      BY <2>2, <2>3
    <2>5. Bucket(u + 1, Align(u + 1, m)) \subseteq Bucket(Top, Align(Top, m))
      BY <2>3, <2>4
    <2> DEFINE a == Align(u, m)
               b == Align(u + 1, m)
    <2>6. b \in Int /\ b <= m /\ m < b + Widths[u + 1] /\ b = Align(u + 1, b) /\ a \in Int
      BY <2>3, <1>0, AlignIs
    <2>7. b <= a /\ a + Widths[u] <= b + Widths[u + 1]
      BY <2>3, <2>6, <1>0, BucketsInside
    <2>8. Bucket(u, a) \subseteq Bucket(u + 1, b)
      <3> HIDE DEF a, b
      <3> SUFFICES ASSUME NEW c \in Bucket(u, a) PROVE c \in Bucket(u + 1, b)
        OBVIOUS
      <3>1. c \in Int /\ Widths[u] \in Int /\ Widths[u + 1] \in Int
        BY <2>3, <2>6, WidthsAre DEF Bucket
      <3>2. a <= c /\ c < a + Widths[u]
        BY <3>1, <2>3, <2>6, BucketIs
      <3>3. b <= c /\ c < b + Widths[u + 1]
        BY <3>1, <3>2, <2>6, <2>7
      <3> QED
        BY <3>1, <3>3, <2>3, <2>6, BucketIs
    <2> QED
      BY <2>2, <2>5, <2>8
  <1> QED
    BY <1>1

\* What is stored is in the coarsest table that has been asked for it.
LEMMA TableKeepsSamples == TimeInv /\ TableInv /\ RetainSuffices => SampleIsKept
  <1> SUFFICES ASSUME TimeInv, TableInv, RetainSuffices, NEW m \in Minutes, stored["local"][m] # {},
                      ~Outdated(Top, Align(Top, m)), Undisturbed(Top, Align(Top, m))
               PROVE  \E t \in Tiers : stored["local"][m] \subseteq rows["local"][t][Align(t, m)]
    BY DEF SampleIsKept
  <1>0. TypeOK /\ Top \in Nat /\ Top \in Tiers /\ 1 \in Tiers /\ m \in Int /\ clock \in Int
    BY ConstantsAssumption, MinutesAre, TableTypes DEF Tiers, TimeInv
  <1> DEFINE S == {u \in Tiers : Over(u, Align(u, m))}
  <1>1. PICK t \in S : \A u \in S : u <= t
    <2>1. S \in SUBSET (0..Top)
      BY <1>0 DEF Tiers
    <2>2. 1 \in S
      BY <1>0 DEF Over
    <2> QED
      BY <1>0, <2>1, <2>2, MaxIsGreatest
  <1> DEFINE b == Align(t, m)
  <1>2. b \in Minutes /\ b \in Int /\ t \in Tiers /\ t \in Int
    BY <1>1, AlignIsThere, MinutesAre, WidthsAre
  <1>3. ~Pruned(t, b)
    <2>1. CASE t = Top
      <3>1. Pruned(t, b) => Outdated(Top, b)
        <4> HIDE DEF b
        <4>1. /\ (b + Retain[t]) * PerMin = b * PerMin + Retain[t] * PerMin
              /\ b * PerMin \in Int /\ Retain[t] * PerMin \in Int
          BY <1>2, ReachIs, WidthsAre, ConstantsAssumption
        <4> QED
          BY <4>1, <2>1, <1>0 DEF Pruned, Outdated
      <3> QED
        BY <3>1, <2>1
    <2>2. CASE t # Top
      <3> DEFINE a == Align(t + 1, m)
      <3>1. t + 1 \in 2..Top /\ t + 1 \in Tiers /\ (t + 1) - 1 = t
        BY <2>2, <1>0, <1>2 DEF Tiers
      <3>2. t + 1 \notin S
        BY <1>1, <1>2, <3>1
      <3>3. ~(a + Widths[t + 1] <= rolledAt[t + 1])
        BY <3>1, <3>2 DEF Over
      <3>4. a \in Int /\ a <= m /\ m < a + Widths[t + 1] /\ a = Align(t + 1, a)
        BY <3>1, <1>0, AlignIs
      <3>5. a <= b
        BY <3>1, <3>4, <1>0, BucketsInside
      <3>6. /\ Widths[t + 1] <= Retain[t] /\ Widths[t + 1] \in Int /\ Retain[t] \in Int
            /\ rolledAt[t + 1] \in Int
        BY <3>1, <1>0, <1>2, WidthsAre, TableTypes DEF RetainSuffices
      <3> HIDE DEF a, b
      <3>7. Pruned(t, b) => b + Retain[t] <= rolledAt[t + 1]
        BY <3>1 DEF Pruned
      <3> QED
        BY <3>3, <3>4, <3>5, <3>6, <3>7, <1>2
    <2> QED
      BY <2>1, <2>2
  <1>4. ~Damaged(t, b)
    <2>1. Align(Top, m) \in Minutes /\ Bucket(t, b) \subseteq Bucket(Top, Align(Top, m)) /\ t <= Top
      BY <1>0, <1>2, AlignIsThere, BucketsNestAll, WidthsAre
    <2> QED
      BY <2>1, <1>0, <1>2, UndisturbedIsWhole
  <1>5. Over(t, b)
    BY <1>1
  <1>6. stored["local"][m] \subseteq rows["local"][t][Align(t, m)]
    BY <1>2, <1>3, <1>4, <1>5, RowHasMinute
  <1> QED
    BY <1>2, <1>6

\* The table of a query keeps what the query asks for, unless it is the last one.
LEMMA SelectTierFits ==
    ASSUME NEW span \in Int, NEW step \in Int, SelectTier(span, step) # Top
    PROVE  SelectTier(span, step) \in Tiers /\ ~Unfit(SelectTier(span, step), span)
  <1> DEFINE fine == {t \in Tiers : t = 1 \/ Widths[t] * PerMin <= step}
             fit  == {t \in Tiers : t >= Max(fine) /\ ~Unfit(t, span)}
  <1>1. SelectTier(span, step) = IF fit = {} THEN Top ELSE Min(fit)
    BY DEF SelectTier
  <1>2. fit # {} /\ SelectTier(span, step) = Min(fit)
    BY <1>1
  <1>3. fit \in SUBSET Nat
    BY ConstantsAssumption DEF Tiers
  <1>4. Min(fit) \in fit
    BY <1>2, <1>3, MinIsLeast
  <1> QED
    BY <1>2, <1>4

\* So its answer has no hole.
LEMMA TableAnswers == TimeInv /\ TableInv => QueryHasNoHole
  <1> SUFFICES ASSUME TimeInv, TableInv, NEW from \in 0..clock,
                      NEW step \in {Widths[t] * PerMin : t \in Tiers},
                      SelectTier(clock - from, step) # Top, NEW m \in Minutes,
                      Align(SelectTier(clock - from, step), m) * PerMin >= from,
                      stored["local"][m] # {},
                      SelectTier(clock - from, step) = 1
                        \/ (/\ Align(SelectTier(clock - from, step), m) + Widths[SelectTier(clock - from, step)]
                                 <= rolledAt[SelectTier(clock - from, step)]
                            /\ Undisturbed(SelectTier(clock - from, step),
                                           Align(SelectTier(clock - from, step), m)))
               PROVE  stored["local"][m] \subseteq
                        rows["local"][SelectTier(clock - from, step)][Align(SelectTier(clock - from, step), m)]
    BY DEF QueryHasNoHole
  <1> DEFINE t == SelectTier(clock - from, step)
             b == Align(t, m)
  <1>0. clock \in Int /\ from \in Int /\ step \in Int
    <2>1. clock \in Int
      BY TableTypes DEF TimeInv
    <2>2. \A u \in Tiers : Widths[u] * PerMin \in Int
      BY WidthsAre, ConstantsAssumption
    <2> QED
      BY <2>1, <2>2
  <1>1. t \in Tiers /\ ~Unfit(t, clock - from)
    <2>1. clock - from \in Int
      BY <1>0
    <2> QED
      BY <2>1, <1>0, SelectTierFits
  <1>a. b * PerMin >= from /\ (t = 1 \/ (b + Widths[t] <= rolledAt[t] /\ Undisturbed(t, b)))
    OBVIOUS
  <1>b. b = Align(t, m)
    OBVIOUS
  <1> HIDE DEF t
  <1>2. b \in Minutes /\ b \in Int
    BY <1>1, AlignIsThere, MinutesAre
  <1> HIDE DEF b
  <1>3. Over(t, b)
    BY <1>a DEF Over
  <1>4. ~Pruned(t, b)
    <2>1. /\ (b + Retain[t]) * PerMin = b * PerMin + Retain[t] * PerMin
          /\ b * PerMin \in Int /\ Retain[t] * PerMin \in Int
      BY <1>1, <1>2, ReachIs, ReachParts
    <2>2. clock - from <= Retain[t] * PerMin
      BY <1>0, <1>1, <2>1 DEF Unfit
    <2>3. ~((b + Retain[t]) * PerMin < clock)
      BY <2>1, <2>2, <1>0, <1>a
    <2> QED
      BY <2>3 DEF Pruned
  <1>5. ~Damaged(t, b)
    <2>1. CASE t = 1
      BY <2>1 DEF Damaged
    <2>2. CASE t # 1
      <3>1. t <= t
        BY <1>1, WidthsAre
      <3> QED
        BY <2>2, <3>1, <1>0, <1>1, <1>2, <1>a, UndisturbedIsWhole
    <2> QED
      BY <2>1, <2>2
  <1>6. stored["local"][m] \subseteq rows["local"][t][Align(t, m)]
    BY <1>1, <1>3, <1>4, <1>5, <1>b, RowHasMinute
  <1> QED
    BY <1>6 DEF t

\* Both are what the run checks.
LEMMA TableIsEnough ==
    TimeInv /\ TableInv /\ RetainSuffices => RollupIsExact /\ HistoryIsKept
  BY TableIsExact, TableKeepsSamples, TableAnswers DEF HistoryIsKept

-----------------------------------------------------------------------------
(* The cache of icons.                                                     *)

\* A call that is under way has a key, and only keys are refreshed.
IconInv ==
    /\ Icons!TypeOK /\ Icons!PlaceholderHasItsLoader
    /\ \A t \in Icons!Tasks : at[t] # "idle" => want[t] \in Names
    /\ \A k \in Names : slots[k].kind = "loading" => slots[k].by \in Icons!Tasks

\* What the cache has for a key.
Slot == [kind : {"none", "loading", "ready"}, by : Icons!Tasks \cup {None}, png : BOOLEAN, age : 0..Ttl]

\* What a slot may hold.
LEMMA SlotsAreTyped ==
    /\ \A t \in Icons!Tasks : Icons!Loading(t) \in Slot /\ Icons!Loading(t).kind = "loading" /\ Icons!Loading(t).by = t
    /\ \A png \in BOOLEAN : Icons!Ready(png) \in Slot /\ Icons!Ready(png).kind = "ready"
    /\ Icons!NoSlot \in Slot /\ Icons!NoSlot.kind = "none"
  BY DataAssumption DEF Slot, Icons!Loading, Icons!Ready, Icons!NoSlot

\* An entry grows older.
LEMMA EntriesGrowOld ==
    ASSUME NEW e \in Slot, e.age < Ttl
    PROVE  [e EXCEPT !.age = @ + 1] \in Slot /\ [e EXCEPT !.age = @ + 1].kind = e.kind
                                              /\ [e EXCEPT !.age = @ + 1].by = e.by
  BY DataAssumption DEF Slot

\* A cache that is empty.
LEMMA InitIconInv == Icons!Init => IconInv
  BY DataAssumption, SlotsAreTyped
     DEF Icons!Init, IconInv, Icons!TypeOK, Icons!PlaceholderHasItsLoader, Slot

\* What evict removes is ready, never a placeholder.
LEMMA EvictionsAreReady ==
    ASSUME NEW s, NEW gone \in Icons!Evictions(s)
    PROVE  \A k \in gone : k \in Names /\ s[k].kind = "ready"
  BY DEF Icons!Evictions

\* A step of the cache, its callers and its warmer.
LEMMA IconStep ==
    ASSUME IconInv, Icons!Next
    PROVE  IconInv'
  <1> USE DEF IconInv, Icons!PlaceholderHasItsLoader
  <1>t. /\ slots \in [Names -> Slot]
        /\ at \in [Icons!Tasks -> {"idle", "look", "wait", "load", "once"}]
        /\ want \in [Icons!Tasks -> Names \cup {None}]
        /\ tries \in [Icons!Tasks -> 0..MaxAttempts]
        /\ due \subseteq Names
    BY DEF Icons!TypeOK, Slot
  <1>u. ASSUME /\ slots' \in [Names -> Slot]
               /\ at' \in [Icons!Tasks -> {"idle", "look", "wait", "load", "once"}]
               /\ want' \in [Icons!Tasks -> Names \cup {None}]
               /\ tries' \in [Icons!Tasks -> 0..MaxAttempts]
               /\ due' \subseteq Names
        PROVE  Icons!TypeOK'
    BY <1>u DEF Icons!TypeOK, Slot
  <1>n. None \notin Names /\ MaxAttempts \in Nat
    BY DataAssumption
  <1>0. ASSUME NEW t \in Icons!Tasks, Icons!Hit(t) \/ Icons!GoAlone(t)
        PROVE  IconInv'
    BY <1>0, <1>t, <1>u, <1>n DEF Icons!Hit, Icons!GoAlone, Icons!Return
  <1>1. ASSUME NEW t \in Icons!Tasks, Icons!Wait(t)
        PROVE  IconInv'
    BY <1>1, <1>t, <1>u, <1>n DEF Icons!Wait
  <1>2. ASSUME NEW t \in Icons!Tasks, Icons!Load(t)
        PROVE  IconInv'
    BY <1>2, <1>t, <1>u, <1>n, SlotsAreTyped DEF Icons!Load
  <1>3. ASSUME NEW t \in Icons!Tasks, NEW png \in BOOLEAN, Icons!Publish(t, png)
        PROVE  IconInv'
    <2>1. PICK gone \in Icons!Evictions([slots EXCEPT ![want[t]] = Icons!Ready(png)]) :
            slots' = [i \in Names |-> IF i \in gone THEN Icons!NoSlot
                                      ELSE [slots EXCEPT ![want[t]] = Icons!Ready(png)][i]]
      BY <1>3 DEF Icons!Publish
    <2>2. want[t] \in Names /\ at[t] = "load"
      BY <1>3, <1>t DEF Icons!Publish
    <2>3. /\ slots' \in [Names -> Slot]
          /\ slots'[want[t]].kind # "loading"
          /\ \A k \in Names \ {want[t]} : slots[k].kind = "loading" => slots'[k] = slots[k]
          /\ \A k \in Names : slots'[k].kind = "loading" => slots'[k] = slots[k] /\ k # want[t]
      <3> DEFINE s == [slots EXCEPT ![want[t]] = Icons!Ready(png)]
      <3>1. s \in [Names -> Slot] /\ \A k \in Names \ {want[t]} : s[k] = slots[k]
        BY <1>t, <2>2, SlotsAreTyped
      <3>2. s[want[t]].kind = "ready" /\ \A k \in gone : k \in Names /\ s[k].kind = "ready"
        BY <1>t, <2>1, <2>2, SlotsAreTyped, EvictionsAreReady
      <3>3. \A i \in Names : slots'[i] = IF i \in gone THEN Icons!NoSlot ELSE s[i]
        BY <2>1
      <3>4. slots' \in [Names -> Slot]
        BY <2>1, <3>1, SlotsAreTyped
      <3> HIDE DEF s
      <3> QED
        BY <2>2, <3>1, <3>2, <3>3, <3>4, SlotsAreTyped
    <2>4. /\ at' = [Icons!Woken(want[t]) EXCEPT ![t] = "idle"]
          /\ want' = [want EXCEPT ![t] = None] /\ tries' = [tries EXCEPT ![t] = 0] /\ due' = due
      BY <1>3 DEF Icons!Publish, Icons!Return
    <2>5. /\ at' \in [Icons!Tasks -> {"idle", "look", "wait", "load", "once"}]
          /\ \A u \in Icons!Tasks \ {t} : at'[u] # at[u] => want[u] = want[t] /\ at'[u] = "look" /\ at[u] = "wait"
          /\ \A u \in Icons!Tasks \ {t} : want[u] = want[t] => at'[u] # "wait"
          /\ at'[t] = "idle"
      BY <1>t, <2>4 DEF Icons!Woken
    <2>6. \A u \in Icons!Tasks \ {t} : at[u] = "load" => want[u] # want[t]
      BY <1>t, <2>2, SlotsAreTyped
    <2> QED
      BY <1>t, <1>u, <1>n, <2>2, <2>3, <2>4, <2>5, <2>6, SlotsAreTyped
  <1>4. ASSUME NEW t \in Icons!Tasks, Icons!ReturnAlone(t)
        PROVE  IconInv'
    BY <1>4, <1>t, <1>u, <1>n DEF Icons!ReturnAlone, Icons!Return
  <1>5. ASSUME NEW t \in Icons!Tasks, Icons!Cancel(t), at[t] # "load"
        PROVE  IconInv'
    BY <1>5, <1>t, <1>u, <1>n DEF Icons!Cancel, Icons!Return
  <1>6. ASSUME NEW t \in Icons!Tasks, Icons!Cancel(t), at[t] = "load"
        PROVE  IconInv'
    <2>1. want[t] \in Names /\ slots[want[t]] = Icons!Loading(t)
      BY <1>6, <1>t
    <2>2. slots' = [slots EXCEPT ![want[t]] = Icons!NoSlot] /\ slots'[want[t]] # slots[want[t]]
      BY <1>6, <1>t, <2>1, SlotsAreTyped DEF Icons!Cancel, Icons!Unload
    <2>3. /\ at' = [Icons!Woken(want[t]) EXCEPT ![t] = "idle"]
          /\ want' = [want EXCEPT ![t] = None] /\ tries' = [tries EXCEPT ![t] = 0] /\ due' = due
      BY <1>6, <2>2 DEF Icons!Cancel, Icons!Return
    <2>4. /\ at' \in [Icons!Tasks -> {"idle", "look", "wait", "load", "once"}]
          /\ \A u \in Icons!Tasks \ {t} : at'[u] # at[u] => want[u] = want[t] /\ at'[u] = "look" /\ at[u] = "wait"
          /\ \A u \in Icons!Tasks \ {t} : want[u] = want[t] => at'[u] # "wait"
          /\ at'[t] = "idle"
      BY <1>t, <2>3 DEF Icons!Woken
    <2>5. \A u \in Icons!Tasks \ {t} : at[u] = "load" => want[u] # want[t]
      BY <1>t, <2>1, SlotsAreTyped
    <2> QED
      BY <1>t, <1>u, <1>n, <2>1, <2>2, <2>3, <2>4, <2>5, SlotsAreTyped
  <1>7. ASSUME NEW t \in Icons!Tasks, NEW k \in Names, Icons!Get(t, k) \/ Icons!WarmNext(t, k)
        PROVE  IconInv'
    BY <1>7, <1>t, <1>u, <1>n DEF Icons!Get, Icons!WarmNext, Icons!Begin
  <1>8. ASSUME NEW names \in SUBSET Names, Icons!Refresh(names)
        PROVE  IconInv'
    <2>1. /\ due' = {k \in names : Icons!Stale(k)}
          /\ slots' = [k \in Names |-> IF k \in due' THEN Icons!NoSlot ELSE slots[k]]
          /\ at' = [u \in Icons!Tasks |-> IF want[u] \in due' THEN Icons!Woken(want[u])[u] ELSE at[u]]
          /\ want' = want /\ tries' = tries
      BY <1>8 DEF Icons!Refresh
    <2>2. \A k \in due' : k \in Names /\ slots[k].kind # "loading"
      BY <2>1 DEF Icons!Stale
    <2>3. \A u \in Icons!Tasks : /\ at'[u] \in {"idle", "look", "wait", "load", "once"}
                                 /\ at'[u] # at[u] => at[u] = "wait" /\ at'[u] = "look"
                                 /\ at'[u] = "wait" => want[u] \notin due'
      BY <1>t, <2>1 DEF Icons!Woken
    <2>4. \A k \in Names : k \notin due' => slots'[k] = slots[k]
      BY <2>1
    <2>5. \A k \in Names : slots'[k].kind = "loading" => k \notin due'
      BY <2>1, SlotsAreTyped
    <2>6. Icons!TypeOK'
      BY <1>t, <1>u, <2>1, <2>2, <2>3, SlotsAreTyped
    <2>7. \A u \in Icons!Tasks : at[u] \in {"load", "wait"} => want[u] \in Names /\ slots[want[u]].kind = "loading"
      BY <1>t, SlotsAreTyped
    <2> QED
      BY <1>t, <2>1, <2>2, <2>3, <2>4, <2>5, <2>6, <2>7
  <1>9. CASE Icons!Age
    <2>1. /\ slots' = [k \in Names |-> IF slots[k].kind = "ready" /\ slots[k].age < Ttl
                                       THEN [slots[k] EXCEPT !.age = @ + 1] ELSE slots[k]]
          /\ at' = at /\ want' = want /\ tries' = tries /\ due' = due
      BY <1>9 DEF Icons!Age
    <2>2. \A k \in Names : /\ slots'[k] \in Slot /\ slots'[k].kind = slots[k].kind
                           /\ slots[k].kind = "loading" => slots'[k] = slots[k]
      BY <1>t, <2>1, EntriesGrowOld
    <2> QED
      BY <1>t, <1>u, <2>1, <2>2, SlotsAreTyped
  <1> QED
    BY <1>0, <1>1, <1>2, <1>3, <1>4, <1>5, <1>6, <1>7, <1>8, <1>9 DEF Icons!Next, Icons!Extracted, Icons!Look

\* A step of another component leaves the cache as it was.
LEMMA IconRests == IconInv /\ UNCHANGED icons => IconInv'
  BY DEF icons, IconInv, Icons!TypeOK, Icons!PlaceholderHasItsLoader

-----------------------------------------------------------------------------
(* Actions on services of Windows.                                         *)

\* The actions that write the start type.
Configures == {"enable", "disable", "mask", "unmask"}

\* A restart goes on when the service has stopped, after the stop it asked for: if it is
\* found not to be stopped later, somebody has started it again.
RestartWaits ==
    /\ \A c \in Callers : apc[c] \in {"read", "write"} => op[c].do \in Configures
    /\ \A c \in Callers : outcome[c] \in {"ok", "error"} => apc[c] = "idle"
    /\ \A c \in Callers : base[c] <= starts[op[c].to]
    /\ \A c \in Callers : apc[c] = "start" /\ op[c].do = "restart" =>
         state[op[c].to] = "stopped" \/ starts[op[c].to] > base[c]

\* The invariant of the services.
ScmInv == Scm!TypeOK /\ Scm!RestartsAreReal /\ RestartWaits

\* Services nobody has acted on.
LEMMA InitScmInv == Scm!Init => ScmInv
  BY DataAssumption
     DEF Scm!Init, ScmInv, RestartWaits, Scm!TypeOK, Scm!RestartsAreReal, Scm!States, Scm!StartTypes, Scm!Ops

\* What a service becomes.
LEMMA ServiceBecomes ==
    ASSUME Scm!TypeOK, NEW s \in Services, NEW x \in Scm!States, Scm!Becomes(s, x)
    PROVE  /\ state' \in [Services -> Scm!States] /\ starts' \in [Services -> Nat]
           /\ state'[s] = x /\ \A u \in Services : u # s => state'[u] = state[u]
           /\ \A u \in Services : starts'[u] >= starts[u]
           /\ x = "starting" => starts'[s] = starts[s] + 1
  BY DEF Scm!TypeOK, Scm!Becomes

\* What the service control manager does, and what others do.
LEMMA ServiceStep ==
    ASSUME ScmInv, NEW s \in Services, Scm!Settle(s) \/ Scm!Move(s)
    PROVE  ScmInv'
  <1>1. \A c \in Callers : op[c].to \in Services /\ base[c] \in Nat
    BY DEF ScmInv, Scm!TypeOK
  <1>2. \A x \in {"running", "stopped", "starting", "gone"} : x \in Scm!States
    BY DEF Scm!States
  <1>3. PICK x \in {"running", "stopped", "starting", "gone"} :
          /\ Scm!Becomes(s, x)
          /\ state[s] = "stopped" =>
                x = "starting" \/ \A c \in Callers : apc[c] \in {"idle", "open"} \/ op[c].to # s
    BY DEF Scm!Settle, Scm!Move, Scm!Open
  <1>4. /\ state' \in [Services -> Scm!States] /\ starts' \in [Services -> Nat]
        /\ state'[s] = x /\ \A u \in Services : u # s => state'[u] = state[u]
        /\ \A u \in Services : starts'[u] >= starts[u]
        /\ x = "starting" => starts'[s] = starts[s] + 1
    BY <1>2, <1>3, ServiceBecomes DEF ScmInv
  <1>5. /\ apc' = apc /\ op' = op /\ outcome' = outcome /\ base' = base /\ givenUp' = givenUp
        /\ startType' = startType /\ moves' \in 0..MaxMoves
    BY DataAssumption DEF Scm!Settle, Scm!Move, ScmInv, Scm!TypeOK
  <1>6. Scm!TypeOK'
    BY <1>4, <1>5 DEF ScmInv, Scm!TypeOK
  <1>7. Scm!RestartsAreReal' /\ RestartWaits'
    <2>1. starts \in [Services -> Nat]
      BY DEF ScmInv, Scm!TypeOK
    <2> QED
      BY <1>1, <1>3, <1>4, <1>5, <2>1 DEF ScmInv, Scm!RestartsAreReal, RestartWaits
  <1> QED
    BY <1>6, <1>7 DEF ScmInv

\* A thread that ends tells its caller, if he is still there.
LEMMA ThreadEnds ==
    ASSUME Scm!TypeOK, NEW c \in Callers, NEW res \in {"ok", "error"}, Scm!Ends(c, res)
    PROVE  /\ apc' \in [Callers -> {"idle", "open", "stop", "wait", "start", "read", "write"}]
           /\ outcome' \in [Callers -> {"none", "ok", "error", "timeout"}]
           /\ \A d \in Callers : d # c => apc'[d] = apc[d] /\ outcome'[d] = outcome[d]
           /\ apc'[c] = "idle" /\ outcome'[c] \in {outcome[c], res}
  BY DEF Scm!TypeOK, Scm!Ends, Scm!Goes

\* A thread that goes on.
LEMMA ThreadGoes ==
    ASSUME Scm!TypeOK, NEW c \in Callers, NEW x \in {"open", "stop", "wait", "start", "read", "write"}, Scm!Goes(c, x)
    PROVE  /\ apc' \in [Callers -> {"idle", "open", "stop", "wait", "start", "read", "write"}]
           /\ \A d \in Callers : d # c => apc'[d] = apc[d]
           /\ apc'[c] = x
  BY DEF Scm!TypeOK, Scm!Goes

\* What every step of a caller has in common.
OnlyOf(c) ==
    /\ apc' \in [Callers -> {"idle", "open", "stop", "wait", "start", "read", "write"}]
    /\ outcome' \in [Callers -> {"none", "ok", "error", "timeout"}]
    /\ \A d \in Callers : d # c => apc'[d] = apc[d] /\ outcome'[d] = outcome[d] /\ base'[d] = base[d]
    /\ state' \in [Services -> Scm!States] /\ starts' \in [Services -> Nat]
    /\ startType' \in [Services -> Scm!StartTypes] /\ base' \in [Callers -> Nat]
    /\ op' = op /\ moves' = moves /\ givenUp' \in 0..MaxGiveUps
    /\ \A s \in Services : starts'[s] >= starts[s]
    /\ \A s \in Services : state[s] = "stopped" => state'[s] = "stopped" \/ starts'[s] > starts[s]

\* Such a step keeps the invariant if it does so for its own caller.
LEMMA OnlyOfKeeps ==
    ASSUME ScmInv, NEW c \in Callers, OnlyOf(c),
           outcome'[c] \in {"ok", "error"} => apc'[c] = "idle",
           apc'[c] \in {"read", "write"} => op[c].do \in Configures,
           outcome'[c] = "ok" /\ op[c].do = "restart" => starts'[op[c].to] > base'[c],
           base'[c] <= starts'[op[c].to],
           apc'[c] = "start" /\ op[c].do = "restart" =>
              state'[op[c].to] = "stopped" \/ starts'[op[c].to] > base'[c]
    PROVE  ScmInv'
  <1>1. Scm!TypeOK'
    BY DEF ScmInv, Scm!TypeOK, OnlyOf
  <1>2. \A d \in Callers : op[d].to \in Services /\ base[d] \in Nat /\ starts[op[d].to] \in Nat /\ starts'[op[d].to] \in Nat
    BY DEF ScmInv, Scm!TypeOK, OnlyOf
  <1>3. Scm!RestartsAreReal' /\ RestartWaits'
    BY <1>2 DEF ScmInv, Scm!RestartsAreReal, RestartWaits, OnlyOf
  <1> QED
    BY <1>1, <1>3 DEF ScmInv

\* An action of a caller.
LEMMA CallerStep ==
    ASSUME ScmInv, NEW c \in Callers, Scm!Act(c) \/ Scm!Thread(c) \/ Scm!CallerGivesUp(c)
    PROVE  ScmInv'
  <1> DEFINE s == op[c].to
  <1>t. /\ s \in Services /\ base[c] \in Nat /\ starts[s] \in Nat /\ state[s] \in Scm!States
        /\ Scm!TypeOK /\ startType \in [Services -> Scm!StartTypes]
        /\ apc \in [Callers -> {"idle", "open", "stop", "wait", "start", "read", "write"}]
        /\ outcome \in [Callers -> {"none", "ok", "error", "timeout"}]
        /\ state \in [Services -> Scm!States] /\ starts \in [Services -> Nat]
        /\ base \in [Callers -> Nat] /\ givenUp \in 0..MaxGiveUps
    BY DEF ScmInv, Scm!TypeOK
  <1>i. /\ outcome[c] \in {"ok", "error"} => apc[c] = "idle"
        /\ apc[c] \in {"read", "write"} => op[c].do \in Configures
        /\ base[c] <= starts[s]
        /\ apc[c] = "start" /\ op[c].do = "restart" => state[s] = "stopped" \/ starts[s] > base[c]
    BY DEF ScmInv, RestartWaits
  <1>s. \A x \in {"starting", "stopping", "running", "stopped"} : x \in Scm!States
    BY DEF Scm!States
  <1>r. outcome[c] = "ok" /\ op[c].do = "restart" => starts[s] > base[c]
    BY DEF ScmInv, Scm!RestartsAreReal
  <1> HIDE DEF s
  <1>1. CASE Scm!Act(c)
    <2>1. OnlyOf(c) /\ apc'[c] = "open" /\ outcome' = outcome /\ outcome[c] = "none" /\ starts' = starts /\ base' = base
      BY <1>1, <1>t, ThreadGoes DEF Scm!Act, OnlyOf, Scm!services
    <2> QED
      BY <2>1, <1>i, OnlyOfKeeps DEF s
  <1>2. CASE Scm!CallerGivesUp(c)
    <2>1. OnlyOf(c) /\ apc' = apc /\ outcome'[c] = "timeout" /\ starts' = starts /\ base' = base /\ state' = state
      BY <1>2, <1>t, DataAssumption DEF Scm!CallerGivesUp, OnlyOf, Scm!services
    <2> QED
      BY <2>1, <1>i, OnlyOfKeeps DEF s
  <1>3. CASE Scm!OpenService(c)
    <2>1. /\ apc[c] = "open" /\ UNCHANGED <<state, startType, starts, moves, op, base, givenUp>>
          /\ \/ Scm!Ends(c, "error")
             \/ Scm!Goes(c, "start") /\ outcome' = outcome /\ op[c].do = "start"
             \/ Scm!Goes(c, "stop") /\ outcome' = outcome
             \/ Scm!Goes(c, "read") /\ outcome' = outcome /\ op[c].do \in Configures
      <3>1. op[c].do \in Scm!Ops
        BY DEF ScmInv, Scm!TypeOK
      <3> QED
        BY <3>1, <1>3 DEF Scm!OpenService, Scm!FirstStep, Scm!services, Scm!Ops, Configures
    <2>2. OnlyOf(c)
      BY <2>1, <1>t, ThreadEnds, ThreadGoes DEF OnlyOf
    <2> QED
      BY <2>1, <2>2, <1>t, <1>i, <1>r, ThreadEnds, ThreadGoes, OnlyOfKeeps DEF s
  <1>4. CASE Scm!Stop(c)
    <2>1. /\ apc[c] = "stop" /\ base' = [base EXCEPT ![c] = starts[s]]
          /\ UNCHANGED <<startType, moves, op, givenUp>>
          /\ UNCHANGED <<state, starts>> \/ (state[s] = "running" /\ Scm!Becomes(s, "stopping"))
          /\ \/ Scm!Ends(c, "error")
             \/ Scm!Goes(c, "wait") /\ outcome' = outcome
             \/ Scm!Ends(c, "ok") /\ op[c].do # "restart"
      BY <1>4 DEF Scm!Stop, s
    <2>2. OnlyOf(c) /\ starts'[s] >= starts[s]
      BY <2>1, <1>t, <1>s, ThreadEnds, ThreadGoes, ServiceBecomes DEF OnlyOf
    <2>3. base'[c] = starts[s]
      BY <2>1, <1>t
    <2> QED
      BY <2>1, <2>2, <2>3, <1>t, <1>i, <1>r, ThreadEnds, ThreadGoes, OnlyOfKeeps DEF s
  <1>5. CASE Scm!Wait(c) \/ Scm!WaitFails(c)
    <2>1. /\ apc[c] = "wait" /\ UNCHANGED <<state, startType, starts, moves, op, base, givenUp>>
          /\ \/ Scm!Ends(c, "error")
             \/ Scm!Goes(c, "start") /\ outcome' = outcome /\ state[s] = "stopped"
      BY <1>5 DEF Scm!Wait, Scm!WaitFails, Scm!HasStopped, Scm!services, s
    <2>2. OnlyOf(c)
      BY <2>1, <1>t, ThreadEnds, ThreadGoes DEF OnlyOf
    <2> QED
      BY <2>1, <2>2, <1>t, <1>i, <1>r, ThreadEnds, ThreadGoes, OnlyOfKeeps DEF s
  <1>6. CASE Scm!Start(c)
    <2>1. /\ apc[c] = "start" /\ UNCHANGED <<startType, moves, op, base, givenUp>>
          /\ \/ state[s] = "stopped" /\ Scm!Becomes(s, "starting") /\ Scm!Ends(c, "ok")
             \/ Scm!Ends(c, "error") /\ UNCHANGED <<state, starts>>
             \/ state[s] # "stopped" /\ Scm!Ends(c, "ok") /\ UNCHANGED <<state, starts>>
      BY <1>6 DEF Scm!Start, s
    <2>2. OnlyOf(c)
      BY <2>1, <1>t, <1>s, ThreadEnds, ServiceBecomes DEF OnlyOf
    <2>3. /\ apc'[c] = "idle" /\ base' = base /\ outcome'[c] \in {outcome[c], "ok", "error"}
          /\ starts'[s] >= starts[s] /\ starts'[s] \in Nat
          /\ outcome'[c] = "ok" /\ op[c].do = "restart" => starts'[s] > base[c]
      BY <2>1, <1>t, <1>i, <1>r, <1>s, ThreadEnds, ServiceBecomes
    <2> QED
      BY <2>2, <2>3, <1>t, <1>i, OnlyOfKeeps DEF s
  <1>7. CASE Scm!Read(c)
    <2>1. /\ apc[c] = "read" /\ UNCHANGED <<state, startType, starts, moves, op, base, givenUp>>
          /\ \/ Scm!Ends(c, "error")
             \/ Scm!Ends(c, "ok") /\ op[c].do # "restart"
             \/ Scm!Goes(c, "write") /\ outcome' = outcome
      BY <1>7 DEF Scm!Read, Scm!services
    <2>2. OnlyOf(c)
      BY <2>1, <1>t, ThreadEnds, ThreadGoes DEF OnlyOf
    <2> QED
      BY <2>1, <2>2, <1>t, <1>i, <1>r, ThreadEnds, ThreadGoes, OnlyOfKeeps DEF s
  <1>8. CASE Scm!Write(c)
    <2>1. /\ UNCHANGED <<state, starts, moves, op, base, givenUp>>
          /\ op[c].do \in Configures /\ Scm!Ends(c, "ok")
          /\ startType' = [startType EXCEPT ![s] = Scm!Target(op[c].do)]
      BY <1>8, <1>i DEF Scm!Write, s
    <2>2. Scm!Target(op[c].do) \in Scm!StartTypes
      BY <2>1 DEF Scm!Target, Scm!StartTypes, Configures
    <2>3. OnlyOf(c)
      BY <2>1, <2>2, <1>t, ThreadEnds DEF OnlyOf
    <2>4. op[c].do # "restart"
      BY <2>1 DEF Configures
    <2> QED
      BY <2>1, <2>3, <2>4, <1>t, <1>i, <1>r, ThreadEnds, OnlyOfKeeps DEF s
  <1> QED
    BY <1>1, <1>2, <1>3, <1>4, <1>5, <1>6, <1>7, <1>8 DEF Scm!Thread

\* A step of another component leaves the services as they were.
LEMMA ScmRests == ScmInv /\ UNCHANGED services => ScmInv'
  BY DEF services, ScmInv, Scm!TypeOK, Scm!RestartsAreReal, RestartWaits

-----------------------------------------------------------------------------
(* Calls and their audit.                                                  *)

\* What a caller is told, and what the log of audit has.
Results == {"none", "unavailable", "unauthenticated", "elevation", "done", "refused", "failed", "timeout"}
Rows    == [result : {"ok", "denied", "error"}, elevated : BOOLEAN]

\* Types, with those of the history.
CallTypes ==
    /\ Ex!TypeOK
    /\ job \in [Requests -> [Ex!Workers -> {"none", "sent", "done", "refused", "failed"}]]
    /\ result \in [Requests -> Results]
    /\ audited \in [Requests -> Seq(Rows)]

\* Nothing was done by this worker, and nothing is under way.
Untouched(r, w) == job[r][w] \in {"none", "refused"}

\* A second worker is called only when the first one has refused.
CallsInTurn(r) ==
    /\ rpc[r] \in {"idle", "user"} => \A w \in Ex!Workers : job[r][w] = "none"
    /\ rpc[r] \in {"check", "admin"} => \A w \in Ex!Workers : Untouched(r, w)
    /\ rpc[r] = "called" =>
         /\ handle[r] \in Ex!Workers /\ job[r][handle[r]] # "none"
         /\ \A w \in Ex!Workers \ {handle[r]} : Untouched(r, w)
    /\ \A v, w \in Ex!Workers : v = w \/ Untouched(r, v) \/ Untouched(r, w)

\* Root is called only where a row is due.
RootIsAudited(r) ==
    /\ rpc[r] = "admin" \/ (\E w \in Roots : job[r][w] # "none") => kind[r].via = "admin" \/ usedAdmin[r]
    /\ rpc[r] = "audit" => Ex!MustAudit(r)

\* One row where one is due, by the end of the request.
RowComesLast(r) ==
    /\ rpc[r] # "done" => audited[r] = <<>>
    /\ Len(audited[r]) <= 1
    /\ rpc[r] = "done" /\ r \notin unwritten /\ Ex!MustAudit(r) => Len(audited[r]) = 1

\* A result that is definite is what the workers did, and so is its row.
ResultIsTrue(r) ==
    /\ rpc[r] = "audit" =>
        /\ result[r] = "done" => \E w \in Ex!Workers : job[r][w] = "done"
        /\ result[r] \in {"refused", "elevation"} => \A w \in Ex!Workers : Untouched(r, w)
    /\ \A i \in DOMAIN audited[r] :
        /\ audited[r][i].result = "ok" => \E w \in Ex!Workers : job[r][w] = "done"
        /\ audited[r][i].result = "denied" => \A w \in Ex!Workers : Untouched(r, w)

\* The invariant of the requests.
CallIsSound(r) == CallsInTurn(r) /\ RootIsAudited(r) /\ RowComesLast(r) /\ ResultIsTrue(r)

CallInv == CallTypes /\ \A r \in Requests : CallIsSound(r)

\* Requests that have not arrived.
LEMMA InitCallInv == Ex!Init => CallInv
  <1> SUFFICES ASSUME Ex!Init PROVE CallInv
    OBVIOUS
  <1>1. Ex!TypeOK
    BY DataAssumption, ConstantsAssumption DEF Ex!Init, Ex!TypeOK, Ex!Workers
  <1>2. audited \in [Requests -> Seq(Rows)]
    BY DEF Ex!Init
  <1>3. CallTypes
    BY <1>1, <1>2 DEF Ex!Init, CallTypes, Results
  <1>4. ASSUME NEW r \in Requests
        PROVE  CallIsSound(r)
    <2>1. rpc[r] = "idle" /\ audited[r] = <<>> /\ \A w \in Ex!Workers : job[r][w] = "none"
      BY DEF Ex!Init
    <2>2. \A w \in Roots : job[r][w] = "none"
      BY <2>1 DEF Ex!Workers
    <2> QED
      BY <2>1, <2>2 DEF CallIsSound, CallsInTurn, RootIsAudited, RowComesLast, ResultIsTrue, Untouched
  <1> QED
    BY <1>3, <1>4 DEF CallInv

\* The invariant says what the run checks: an operation is done by one worker at most,
\* and has its row.
LEMMA CallInvIsEnough == CallInv => Ex!OperationsAreAudited
  <1> SUFFICES ASSUME CallInv PROVE Ex!OperationsAreAudited
    OBVIOUS
  <1>1. ASSUME NEW r \in Requests, NEW v \in Ex!DoneBy(r), NEW w \in Ex!DoneBy(r)
        PROVE  v = w
    BY DEF Ex!DoneBy, CallInv, CallIsSound, CallsInTurn, Untouched
  <1>2. ASSUME NEW r \in Requests, rpc[r] = "done", Ex!Counts(r), r \notin unwritten
        PROVE  Len(audited[r]) = 1
    <2>1. Ex!MustAudit(r)
      BY <1>2 DEF Ex!Counts, Ex!MustAudit, CallInv, CallIsSound, RootIsAudited, Ex!DoneBy
    <2> QED
      BY <1>2, <2>1 DEF CallInv, CallIsSound, RowComesLast
  <1>3. \A r \in Requests : Len(audited[r]) <= 1
    BY DEF CallInv, CallIsSound, RowComesLast
  <1>4. Ex!OneRowEach
    BY <1>1, <1>2, <1>3 DEF Ex!OneRowEach
  <1>5. Ex!RowsAreTrue
    BY DEF Ex!RowsAreTrue, CallInv, CallIsSound, ResultIsTrue, Untouched, Ex!DoneBy
  <1> QED
    BY <1>4, <1>5 DEF Ex!OperationsAreAudited, CallInv, CallTypes

\* The session changes, a worker ends.
LEMMA SessionStep ==
    ASSUME CallInv,
           \/ Ex!DropElevation \/ Ex!Logout
           \/ \E w \in Ex!Workers : Ex!Teardown(w) \/ Ex!Crash(w)
           \/ \E w \in Roots : Ex!Elevate(w)
    PROVE  CallInv'
  <1>1. UNCHANGED <<rpc, kind, handle, usedAdmin, result, snapshot, audited, job, unwritten>>
    BY DEF Ex!DropElevation, Ex!Logout, Ex!Teardown, Ex!Crash, Ex!Elevate, Ex!request, Ex!history
  <1>2. /\ session \in BOOLEAN /\ admin \in Roots \cup {None}
        /\ proc \in [Ex!Workers -> {"none", "up", "down"}] /\ mishaps \in 0..MaxTrouble
    BY DEF CallInv, CallTypes, Ex!TypeOK
  <1>3. /\ session' \in BOOLEAN /\ admin' \in Roots \cup {None}
        /\ proc' \in [Ex!Workers -> {"none", "up", "down"}] /\ mishaps' \in 0..MaxTrouble
    <2>1. CASE Ex!DropElevation \/ Ex!Logout
      BY <2>1, <1>2 DEF Ex!DropElevation, Ex!Logout, Ex!history
    <2>2. ASSUME NEW w \in Ex!Workers, Ex!Teardown(w)
          PROVE  /\ UNCHANGED <<session, admin, mishaps>>
                 /\ proc' \in [Ex!Workers -> {"none", "up", "down"}]
      BY <2>2, <1>2 DEF Ex!Teardown, Ex!history
    <2>3. ASSUME NEW w \in Ex!Workers, Ex!Crash(w)
          PROVE  /\ UNCHANGED <<session, admin>> /\ mishaps' \in 0..MaxTrouble
                 /\ proc' \in [Ex!Workers -> {"none", "up", "down"}]
      <3>1. /\ UNCHANGED <<session, admin>> /\ mishaps < MaxTrouble /\ mishaps' = mishaps + 1
            /\ proc' = [proc EXCEPT ![w] = "down"]
        BY <2>3 DEF Ex!Crash, Ex!Mishap
      <3>2. proc' \in [Ex!Workers -> {"none", "up", "down"}]
        BY <3>1, <1>2
      <3> QED
        BY <3>1, <3>2, <1>2, ConstantsAssumption
    <2>4. ASSUME NEW w \in Roots, Ex!Elevate(w)
          PROVE  /\ session' = session /\ admin' = w /\ mishaps' = mishaps
                 /\ proc' \in [Ex!Workers -> {"none", "up", "down"}]
      <3>1. w \in Ex!Workers
        BY DEF Ex!Workers
      <3> QED
        BY <2>4, <3>1, <1>2 DEF Ex!Elevate, Ex!history
    <2> QED
      BY <2>1, <2>2, <2>3, <2>4, <1>2
  <1>4. CallTypes'
    BY <1>1, <1>3 DEF CallInv, CallTypes, Ex!TypeOK
  <1>5. \A r \in Requests : CallIsSound(r)'
    BY <1>1 DEF CallInv, CallIsSound, CallsInTurn, RootIsAudited, RowComesLast, ResultIsTrue, Untouched, Ex!MustAudit
  <1> QED
    BY <1>4, <1>5 DEF CallInv

\* What a step of one request leaves to the others.
OnlyRequest(r) ==
    /\ kind' = kind
    /\ \A q \in Requests \ {r} :
        /\ rpc'[q] = rpc[q] /\ handle'[q] = handle[q] /\ usedAdmin'[q] = usedAdmin[q]
        /\ result'[q] = result[q] /\ audited'[q] = audited[q] /\ job'[q] = job[q]
        /\ q \in unwritten' <=> q \in unwritten

\* It keeps the invariant if it does so for its own request.
LEMMA RequestKeeps ==
    ASSUME CallInv, NEW r \in Requests, OnlyRequest(r), CallTypes', CallIsSound(r)'
    PROVE  CallInv'
  <1>1. ASSUME NEW q \in Requests, q # r
        PROVE  CallIsSound(q)'
    <2>1. CallIsSound(q)
      BY DEF CallInv
    <2> QED
      BY <1>1, <2>1 DEF OnlyRequest, CallIsSound, CallsInTurn, RootIsAudited, RowComesLast, ResultIsTrue,
         Untouched, Ex!MustAudit
  <1> QED
    BY <1>1 DEF CallInv

\* Types of a step of a request.
LEMMA RequestTypes ==
    ASSUME CallInv, NEW r \in Requests,
           \/ Ex!Arrive(r) \/ Ex!CallUser(r) \/ Ex!NoUser(r) \/ Ex!CallAdmin(r) \/ Ex!NoAdmin(r)
           \/ Ex!Reply(r) \/ Ex!Lost(r) \/ Ex!Timeout(r) \/ Ex!Check(r) \/ Ex!Audit(r)
           \/ Ex!AuditFails(r) \/ Ex!Drop(r) \/ (\E w \in Ex!Workers : Ex!Work(r, w))
    PROVE  CallTypes' /\ OnlyRequest(r)
  <1>t. /\ session \in BOOLEAN /\ admin \in Roots \cup {None}
        /\ proc \in [Ex!Workers -> {"none", "up", "down"}]
        /\ rpc \in [Requests -> {"idle", "user", "called", "check", "admin", "audit", "done", "dropped"}]
        /\ kind \in [Requests -> Ex!Kinds]
        /\ handle \in [Requests -> Ex!Workers \cup {None}]
        /\ usedAdmin \in [Requests -> BOOLEAN] /\ snapshot \in [Requests -> BOOLEAN]
        /\ unwritten \subseteq Requests /\ mishaps \in 0..MaxTrouble
        /\ job \in [Requests -> [Ex!Workers -> {"none", "sent", "done", "refused", "failed"}]]
        /\ result \in [Requests -> Results]
        /\ audited \in [Requests -> Seq(Rows)]
    BY DEF CallInv, CallTypes, Ex!TypeOK
  <1>w. User \in Ex!Workers /\ \A w \in Roots : w \in Ex!Workers
    BY DEF Ex!Workers
  <1>u. ASSUME /\ UNCHANGED <<session, admin, proc, kind>>
               /\ rpc' \in [Requests -> {"idle", "user", "called", "check", "admin", "audit", "done", "dropped"}]
               /\ handle' \in [Requests -> Ex!Workers \cup {None}]
               /\ usedAdmin' \in [Requests -> BOOLEAN] /\ snapshot' \in [Requests -> BOOLEAN]
               /\ unwritten' \subseteq Requests /\ mishaps' \in 0..MaxTrouble
               /\ job' \in [Requests -> [Ex!Workers -> {"none", "sent", "done", "refused", "failed"}]]
               /\ result' \in [Requests -> Results]
               /\ audited' \in [Requests -> Seq(Rows)]
        PROVE  CallTypes'
    BY <1>t, <1>u DEF CallTypes, Ex!TypeOK
  <1>1. CASE Ex!Arrive(r) \/ Ex!NoUser(r) \/ Ex!NoAdmin(r) \/ Ex!Check(r)
    BY <1>1, <1>t, <1>u DEF Ex!Arrive, Ex!NoUser, Ex!NoAdmin, Ex!Check, Ex!Settle, Ex!holder, Ex!history, OnlyRequest, Results
  <1>2. CASE Ex!CallUser(r) \/ Ex!CallAdmin(r)
    <2>1. PICK w \in Ex!Workers :
            /\ Ex!Call(r, w)
            /\ UNCHANGED <<session, admin, proc, kind, usedAdmin, snapshot, audited, unwritten, mishaps>>
      BY <1>2, <1>t, <1>w DEF Ex!CallUser, Ex!CallAdmin, Ex!holder
    <2>2. handle' = [handle EXCEPT ![r] = w] /\ handle' \in [Requests -> Ex!Workers \cup {None}]
      BY <2>1, <1>t DEF Ex!Call
    <2>3. CASE proc[w] = "up"
      <3>1. /\ rpc' = [rpc EXCEPT ![r] = "called"] /\ result' = result
            /\ job' = [job EXCEPT ![r] = [job[r] EXCEPT ![w] = "sent"]]
        BY <2>1, <2>3 DEF Ex!Call
      <3>2. [job[r] EXCEPT ![w] = "sent"] \in [Ex!Workers -> {"none", "sent", "done", "refused", "failed"}]
        BY <1>t
      <3>3. job' \in [Requests -> [Ex!Workers -> {"none", "sent", "done", "refused", "failed"}]]
        BY <3>1, <3>2, <1>t
      <3>4. rpc' \in [Requests -> {"idle", "user", "called", "check", "admin", "audit", "done", "dropped"}]
        BY <3>1, <1>t
      <3>5. CallTypes'
        BY <2>1, <2>2, <3>1, <3>3, <3>4, <1>t, <1>u
      <3>6. OnlyRequest(r)
        BY <2>1, <2>2, <3>1, <1>t DEF OnlyRequest
      <3> QED
        BY <3>5, <3>6
    <2>4. CASE proc[w] # "up"
      <3>1. Ex!Settle(r, "unavailable") /\ job' = job
        BY <2>1, <2>4 DEF Ex!Call
      <3>2. /\ rpc' \in [Requests -> {"idle", "user", "called", "check", "admin", "audit", "done", "dropped"}]
            /\ result' \in [Requests -> Results]
            /\ \A q \in Requests \ {r} : rpc'[q] = rpc[q] /\ result'[q] = result[q]
        BY <3>1, <1>t DEF Ex!Settle, Results
      <3>3. CallTypes'
        BY <2>1, <2>2, <3>1, <3>2, <1>t, <1>u
      <3>4. OnlyRequest(r)
        BY <2>1, <2>2, <3>1, <3>2, <1>t DEF OnlyRequest
      <3> QED
        BY <3>3, <3>4
    <2> QED
      BY <2>3, <2>4
  <1>3. CASE Ex!Reply(r)
    <2>1. job[r][handle[r]] \in Results
      BY <1>3, <1>t DEF Ex!Reply, Results, CallInv, CallIsSound, CallsInTurn
    <2> QED
      BY <1>3, <1>t, <1>u, <2>1 DEF Ex!Reply, Ex!Settle, Ex!holder, Ex!history, OnlyRequest
  <1>4. CASE Ex!Lost(r)
    BY <1>4, <1>t, <1>u DEF Ex!Lost, Ex!Settle, Ex!holder, Ex!history, OnlyRequest, Results
  <1>5. CASE Ex!Timeout(r) \/ Ex!AuditFails(r) \/ Ex!Drop(r)
    <2>1. /\ UNCHANGED <<session, admin, proc, kind, handle, usedAdmin, snapshot, audited, job>>
          /\ mishaps < MaxTrouble /\ mishaps' = mishaps + 1
          /\ unwritten' \in {unwritten, unwritten \cup {r}}
      BY <1>5 DEF Ex!Timeout, Ex!AuditFails, Ex!Drop, Ex!Mishap, Ex!holder
    <2>2. mishaps' \in 0..MaxTrouble
      BY <2>1, <1>t, ConstantsAssumption
    <2>3. /\ rpc' \in [Requests -> {"idle", "user", "called", "check", "admin", "audit", "done", "dropped"}]
          /\ result' \in [Requests -> Results]
          /\ \A q \in Requests \ {r} : rpc'[q] = rpc[q] /\ result'[q] = result[q]
      BY <1>5, <1>t DEF Ex!Timeout, Ex!AuditFails, Ex!Drop, Ex!Settle, Results
    <2>4. CallTypes'
      BY <2>1, <2>2, <2>3, <1>t, <1>u
    <2>5. OnlyRequest(r)
      BY <2>1, <2>3 DEF OnlyRequest
    <2> QED
      BY <2>4, <2>5
  <1>6. CASE Ex!Audit(r)
    <2>1. [result |-> Ex!Outcome(result[r]), elevated |-> snapshot[r]] \in Rows
      BY <1>t DEF Rows, Ex!Outcome
    <2> HIDE DEF Rows
    <2> QED
      BY <1>6, <1>t, <1>u, <2>1 DEF Ex!Audit, Ex!holder, Ex!history, OnlyRequest
  <1>7. ASSUME NEW w \in Ex!Workers, Ex!Work(r, w)
        PROVE  CallTypes' /\ OnlyRequest(r)
    BY <1>7, <1>t, <1>u DEF Ex!Work, Ex!holder, Ex!request, OnlyRequest
  <1> QED
    BY <1>1, <1>2, <1>3, <1>4, <1>5, <1>6, <1>7

\* A step of a request.
LEMMA RequestStep ==
    ASSUME CallInv, NEW r \in Requests,
           \/ Ex!Arrive(r) \/ Ex!CallUser(r) \/ Ex!NoUser(r) \/ Ex!CallAdmin(r) \/ Ex!NoAdmin(r)
           \/ Ex!Reply(r) \/ Ex!Lost(r) \/ Ex!Timeout(r) \/ Ex!Check(r) \/ Ex!Audit(r)
           \/ Ex!AuditFails(r) \/ Ex!Drop(r) \/ (\E w \in Ex!Workers : Ex!Work(r, w))
    PROVE  CallInv'
  <1>o. CallTypes' /\ OnlyRequest(r)
    BY RequestTypes
  <1>s. CallsInTurn(r) /\ RootIsAudited(r) /\ RowComesLast(r) /\ ResultIsTrue(r)
    BY DEF CallInv, CallIsSound
  <1>t. /\ rpc \in [Requests -> {"idle", "user", "called", "check", "admin", "audit", "done", "dropped"}]
        /\ handle \in [Requests -> Ex!Workers \cup {None}] /\ usedAdmin \in [Requests -> BOOLEAN]
        /\ job \in [Requests -> [Ex!Workers -> {"none", "sent", "done", "refused", "failed"}]]
        /\ result \in [Requests -> Results]
        /\ audited \in [Requests -> Seq(Rows)] /\ admin \in Roots \cup {None}
    BY DEF CallInv, CallTypes, Ex!TypeOK
  <1>w. User \in Ex!Workers /\ User \notin Roots /\ None \notin Ex!Workers /\ \A w \in Roots : w \in Ex!Workers
    BY DataAssumption DEF Ex!Workers
  <1> SUFFICES CallIsSound(r)'
    BY <1>o, RequestKeeps
  <1> USE DEF CallIsSound, CallsInTurn, RootIsAudited, RowComesLast, ResultIsTrue, Untouched
  <1>1. CASE Ex!Arrive(r)
    <2>1. /\ rpc'[r] = (IF kind[r].via = "admin" THEN "admin" ELSE "user") /\ rpc[r] = "idle"
          /\ UNCHANGED <<kind, handle, usedAdmin, result, audited, job, unwritten>>
      BY <1>1, <1>t DEF Ex!Arrive, Ex!history
    <2>2. Ex!MustAudit(r)' = Ex!MustAudit(r)
      BY <2>1 DEF Ex!MustAudit
    <2> QED
      BY <2>1, <2>2, <1>s, <1>w
  <1>2. CASE Ex!NoUser(r) \/ Ex!NoAdmin(r)
    <2>1. /\ rpc'[r] = (IF Ex!MustAudit(r) THEN "audit" ELSE "done") /\ rpc[r] \in {"user", "admin"}
          /\ result'[r] \in {"unauthenticated", "elevation"}
          /\ UNCHANGED <<kind, handle, usedAdmin, audited, job, unwritten>>
      BY <1>2, <1>t DEF Ex!NoUser, Ex!NoAdmin, Ex!Settle, Ex!history
    <2>2. Ex!MustAudit(r)' = Ex!MustAudit(r)
      BY <2>1 DEF Ex!MustAudit
    <2> QED
      BY <2>1, <2>2, <1>s
  <1>3. ASSUME NEW w \in Ex!Workers, Ex!Call(r, w), rpc[r] \in {"user", "admin"},
               w \in Roots => rpc[r] = "admin",
               UNCHANGED <<kind, usedAdmin, audited, unwritten>>
        PROVE  CallIsSound(r)'
    <2>1. Ex!MustAudit(r)' = Ex!MustAudit(r)
      BY <1>3 DEF Ex!MustAudit
    <2>2. handle'[r] = w
      BY <1>3, <1>t DEF Ex!Call
    <2>3. CASE proc[w] = "up"
      <3>1. /\ rpc'[r] = "called" /\ job'[r] = [job[r] EXCEPT ![w] = "sent"] /\ job[r] \in [Ex!Workers -> {"none", "sent", "done", "refused", "failed"}]
        BY <1>3, <1>t, <2>3 DEF Ex!Call
      <3>2. /\ job'[r][w] = "sent" /\ \A v \in Ex!Workers : v # w => job'[r][v] = job[r][v]
        BY <3>1
      <3> QED
        BY <2>1, <2>2, <3>1, <3>2, <1>3, <1>s, <1>w
    <2>4. CASE proc[w] # "up"
      <3>1. /\ rpc'[r] = (IF Ex!MustAudit(r) THEN "audit" ELSE "done") /\ job' = job /\ result'[r] = "unavailable"
        BY <1>3, <1>t, <2>4 DEF Ex!Call, Ex!Settle
      <3> QED
        BY <2>1, <3>1, <1>3, <1>s
    <2> QED
      BY <2>3, <2>4
  <1>4. CASE Ex!CallUser(r) \/ Ex!CallAdmin(r)
    BY <1>4, <1>3, <1>t, <1>w DEF Ex!CallUser, Ex!CallAdmin
  <1>5. CASE Ex!Reply(r) \/ Ex!Lost(r) \/ Ex!Timeout(r)
    <2>1. /\ rpc[r] = "called" /\ UNCHANGED <<kind, handle, usedAdmin, audited, job, unwritten>>
          /\ \/ /\ rpc'[r] = "check" /\ kind[r].via = "escalate" /\ job[r][handle[r]] = "refused"
             \/ /\ rpc'[r] = (IF Ex!MustAudit(r) THEN "audit" ELSE "done")
                /\ \/ result'[r] \in {"unavailable", "timeout"}
                   \/ result'[r] = job[r][handle[r]]
      BY <1>5, <1>t DEF Ex!Reply, Ex!Lost, Ex!Timeout, Ex!TriesAgain, Ex!Settle, Ex!history
    <2>2. Ex!MustAudit(r)' = Ex!MustAudit(r)
      BY <2>1 DEF Ex!MustAudit
    <2>3. handle[r] \in Ex!Workers /\ job[r][handle[r]] \in {"sent", "done", "refused", "failed"}
      BY <2>1, <1>s, <1>t
    <2> QED
      BY <2>1, <2>2, <2>3, <1>s
  <1>6. CASE Ex!Check(r)
    <2>1. /\ rpc[r] = "check" /\ UNCHANGED <<kind, handle, audited, job, unwritten>>
          /\ \/ rpc'[r] = "admin" /\ usedAdmin'[r] /\ result' = result
             \/ /\ rpc'[r] = (IF Ex!MustAudit(r) THEN "audit" ELSE "done")
                /\ result'[r] = "refused" /\ usedAdmin' = usedAdmin
      BY <1>6, <1>t DEF Ex!Check, Ex!Settle, Ex!history
    <2>2. usedAdmin' = usedAdmin => Ex!MustAudit(r)' = Ex!MustAudit(r)
      BY <2>1 DEF Ex!MustAudit
    <2> QED
      BY <2>1, <2>2, <1>s
  <1>7. CASE Ex!Audit(r)
    <2>1. /\ rpc[r] = "audit" /\ rpc'[r] = "done" /\ UNCHANGED <<kind, handle, usedAdmin, result, job, unwritten>>
          /\ audited'[r] = Append(audited[r], [result |-> Ex!Outcome(result[r]), elevated |-> snapshot[r]])
      BY <1>7, <1>t DEF Ex!Audit, Ex!history
    <2>2. audited[r] = <<>>
      BY <2>1, <1>s
    <2>3. audited'[r] = <<[result |-> Ex!Outcome(result[r]), elevated |-> snapshot[r]]>>
      BY <2>1, <2>2
    <2>4. Len(audited'[r]) = 1 /\ DOMAIN audited'[r] = {1} /\ audited'[r][1].result = Ex!Outcome(result[r])
      BY <2>3
    <2>5. /\ Ex!Outcome(result[r]) = "ok" => result[r] = "done"
          /\ Ex!Outcome(result[r]) = "denied" => result[r] \in {"refused", "elevation"}
      BY DEF Ex!Outcome
    <2> QED
      BY <2>1, <2>4, <2>5, <1>s
  <1>8. CASE Ex!AuditFails(r)
    BY <1>8, <1>s, <1>t DEF Ex!AuditFails, Ex!MustAudit
  <1>9. CASE Ex!Drop(r)
    BY <1>9, <1>s, <1>t DEF Ex!Drop, Ex!MustAudit
  <1>10. ASSUME NEW w \in Ex!Workers, Ex!Work(r, w)
         PROVE  CallIsSound(r)'
    <2>1. /\ job[r][w] = "sent" /\ UNCHANGED <<rpc, kind, handle, usedAdmin, result, audited, unwritten>>
          /\ \E end \in {"done", "refused", "failed"} : job' = [job EXCEPT ![r][w] = end]
      BY <1>10 DEF Ex!Work, Ex!request
    <2>2. /\ job'[r][w] \in {"done", "refused", "failed"}
          /\ \A v \in Ex!Workers : v # w => job'[r][v] = job[r][v]
      BY <2>1, <1>t
    <2>3. Ex!MustAudit(r)' = Ex!MustAudit(r)
      BY <2>1 DEF Ex!MustAudit
    <2> QED
      BY <2>1, <2>2, <2>3, <1>s, <1>w
  <1> QED
    BY <1>1, <1>2, <1>4, <1>5, <1>6, <1>7, <1>8, <1>9, <1>10

\* A step of the session or of a request.
LEMMA CallStep == CallInv /\ Ex!Next => CallInv'
  BY SessionStep, RequestStep DEF Ex!Next

\* A step of another component leaves the requests as they were.
LEMMA CallRests == CallInv /\ UNCHANGED calls => CallInv'
  <1> SUFFICES ASSUME CallInv, UNCHANGED calls PROVE CallInv'
    OBVIOUS
  <1>1. CallTypes'
    BY DEF calls, CallInv, CallTypes, Ex!TypeOK
  <1>2. \A r \in Requests : CallIsSound(r)'
    BY DEF calls, CallInv, CallIsSound, CallsInTurn, RootIsAudited, RowComesLast, ResultIsTrue, Untouched, Ex!MustAudit
  <1> QED
    BY <1>1, <1>2 DEF CallInv

-----------------------------------------------------------------------------
(* Side by side.                                                           *)

\* The ring has room, and the tables keep what they are made from, where the
\* constants say so.
MetricsInv ==
    /\ TimeInv /\ RecentStay
    /\ RingSuffices => RoomInv
    /\ RetainSuffices => TableInv

\* A step of the metrics.
LEMMA MetricsStep == MetricsInv /\ Next => MetricsInv'
  <1> SUFFICES ASSUME MetricsInv, Next PROVE MetricsInv'
    OBVIOUS
  <1>1. TimeInv' /\ RecentStay'
    BY TimeStep, RecentStep DEF MetricsInv
  <1>2. RingSuffices => RoomInv'
    BY RoomStep DEF MetricsInv
  <1>3. RetainSuffices => TableInv'
    BY <1>1, TableStep DEF MetricsInv
  <1> QED
    BY <1>1, <1>2, <1>3 DEF MetricsInv, RingSuffices, RetainSuffices

\* A step of another component leaves the metrics as they were.
LEMMA MetricsRest == MetricsInv /\ UNCHANGED metrics => MetricsInv'
  <1> SUFFICES ASSUME MetricsInv, UNCHANGED metrics PROVE MetricsInv'
    OBVIOUS
  <1>1. UNCHANGED <<clock, ring, firstTs, namedAt, last, absorbed, pc, stopping, minute, target, wrote,
                    tier, rows, stored, rolledAt, late, trouble>>
    BY DEF metrics, vars, memory, flushes, tables
  <1>2. TimeInv'
    BY <1>1 DEF MetricsInv, TimeInv, TypeOK, Minute
  <1>3. RecentStay'
    BY <1>1 DEF MetricsInv, RecentStay
  <1>4. RingSuffices => RoomInv'
    BY <1>1 DEF MetricsInv, RoomInv, Complete, Span, Minute
  <1>5. RetainSuffices => TableInv'
    <2> SUFFICES ASSUME RetainSuffices PROVE TableInv'
      OBVIOUS
    <2>1. TableInv /\ TypeOK /\ TypeOK' /\ UNCHANGED tables
      BY <1>1, <1>2 DEF MetricsInv, TimeInv, tables
    <2>2. clock <= clock'
      BY <1>1, <2>1, TableTypes
    <2>3. /\ \A s \in Series : \A t \in Tiers : \A b \in Minutes : RowInPlace(s, t, b)'
          /\ \A t \in Tiers : \A b \in Minutes : RowIsThere(t, b)' /\ RowIsExact(t, b)'
      BY <2>1, <2>2, TablesRest
    <2>4. RoundInv'
      BY <1>1, <2>1 DEF TableInv, RoundInv, Minute, Outdated
    <2>5. (\A s \in Series : \A t \in Tiers : \A b \in Minutes : RowInPlace(s, t, b))'
      BY <2>3 DEF Series, Tiers, Minutes
    <2>6. (\A t \in Tiers : \A b \in Minutes : RowIsThere(t, b) /\ RowIsExact(t, b))'
      BY <2>3 DEF Tiers, Minutes
    <2> QED
      BY <2>4, <2>5, <2>6 DEF TableInv
  <1> QED
    BY <1>2, <1>3, <1>4, <1>5 DEF MetricsInv, RingSuffices, RetainSuffices

\* The four components together.
DataInv == MetricsInv /\ IconInv /\ ScmInv /\ CallInv

\* They begin well.
LEMMA InitDataInv == DataInit => DataInv
  <1> SUFFICES ASSUME DataInit PROVE DataInv
    OBVIOUS
  <1>1. Init /\ Icons!Init /\ Ex!Init /\ Scm!Init
    BY DEF DataInit
  <1>2. RecentStay /\ RoomInv
    BY <1>1 DEF Init, RecentStay, RoomInv, Complete
  <1>3. MetricsInv
    BY <1>1, <1>2, InitTimeInv, InitTableInv DEF MetricsInv
  <1> QED
    BY <1>1, <1>3, InitIconInv, InitScmInv, InitCallInv DEF DataInv

\* And stay so.
LEMMA DataInvStep == DataInv /\ [DataNext]_all => DataInv'
  <1> SUFFICES ASSUME DataInv, [DataNext]_all PROVE DataInv'
    OBVIOUS
  <1>1. Next \/ UNCHANGED metrics
    BY DEF DataNext, all
  <1>2. Icons!Next \/ UNCHANGED icons
    BY DEF DataNext, all
  <1>3. Scm!Next \/ UNCHANGED services
    BY DEF DataNext, all
  <1>4. Ex!Next \/ UNCHANGED calls
    BY DEF DataNext, all
  <1>5. MetricsInv'
    BY <1>1, MetricsStep, MetricsRest DEF DataInv
  <1>6. IconInv'
    BY <1>2, IconStep, IconRests DEF DataInv
  <1>7. ScmInv'
    BY <1>3, ServiceStep, CallerStep, ScmRests DEF DataInv, Scm!Next
  <1>8. CallInv'
    BY <1>4, CallStep, CallRests DEF DataInv
  <1> QED
    BY <1>5, <1>6, <1>7, <1>8 DEF DataInv

\* The invariant of the four.
LEMMA DataIsInductive == DataSpec => []DataInv
  BY InitDataInv, DataInvStep, PTL DEF DataSpec

\* The ring and the tables, the cache of icons and the actions on services keep
\* their types and bounds.
THEOREM DataIsTyped == DataSpec => [](TypeOK /\ Icons!TypeOK /\ Scm!TypeOK)
  <1>1. DataInv => TypeOK /\ Icons!TypeOK /\ Scm!TypeOK
    BY DEF DataInv, MetricsInv, TimeInv, IconInv, ScmInv
  <1> QED
    BY <1>1, DataIsInductive, PTL

\* A query that is answered from the ring gets every sample of this process in its
\* range, but for one at its very edge.
THEOREM LiveAnswersAreWhole == DataSpec => []LiveAnswerIsWhole
  <1>1. DataInv => LiveAnswerIsWhole
    BY RecentIsEnough DEF DataInv, MetricsInv
  <1> QED
    BY <1>1, DataIsInductive, PTL

\* The row of a flushed minute has every sample taken in it, however rounds were
\* skipped and inserts failed, as long as the ring has room for a minute and them.
THEOREM MinutesStayKept ==
    ASSUME RingSuffices
    PROVE  DataSpec => []MinutesAreKept
  <1>1. DataInv => MinutesAreKept
    BY RoomIsEnough DEF DataInv, MetricsInv
  <1> QED
    BY <1>1, DataIsInductive, PTL

\* A bucket that is there is the sum of the minutes below it, through roll-ups in
\* steps, prunes, failed rounds, restarts and rows of agents, if no pause of the data
\* came between.
THEOREM RollupStaysExact ==
    ASSUME RetainSuffices
    PROVE  DataSpec => []RollupIsExact
  <1>1. DataInv => RollupIsExact
    BY TableIsEnough DEF DataInv, MetricsInv
  <1> QED
    BY <1>1, DataIsInductive, PTL

\* Within the reach of the coarsest table every minute that was written is in some
\* table, and a query is answered from one that has what it asks for.
THEOREM HistoryStaysKept ==
    ASSUME RetainSuffices
    PROVE  DataSpec => []HistoryIsKept
  <1>1. DataInv => HistoryIsKept
    BY TableIsEnough DEF DataInv, MetricsInv
  <1> QED
    BY <1>1, DataIsInductive, PTL

\* Whoever waits for an icon waits for a call that extracts it, for any number of
\* callers and keys.
THEOREM SharedWorkStaysWithWorker == DataSpec => []SharedWorkHasItsWorker
  <1>1. DataInv => SharedWorkHasItsWorker
    BY DEF DataInv, IconInv, SharedWorkHasItsWorker
  <1> QED
    BY <1>1, DataIsInductive, PTL

\* What is reported of an operation is what was done: one row of the audit log with
\* its result for a request of root, no restart without a stop and a start.
THEOREM OperationsStayTrue == DataSpec => []OperationsAreTrue
  <1>1. DataInv => OperationsAreTrue
    BY CallInvIsEnough DEF DataInv, ScmInv, OperationsAreTrue
  <1> QED
    BY <1>1, DataIsInductive, PTL
=============================================================================
