------------------------------ MODULE Metrics ------------------------------
(***************************************************************************)
(* The metrics of a node: the scheduler samples into a ring in memory,     *)
(* writes every whole minute from the ring to the finest table, rolls that *)
(* up into coarser tables and prunes them all.  The rows of a connected    *)
(* agent arrive in the finest table too, possibly long after their time.   *)
(*                                                                         *)
(* Time is counted in sampling intervals.  A row is the set of samples it  *)
(* summarises: cnt is its cardinality, and min, max, sum and med say       *)
(* nothing the properties tell apart.  A minute or a bucket is named by    *)
(* its first minute.  One series of this node stands for all of them:      *)
(* they are pushed, registered and written together.                       *)
(***************************************************************************)
EXTENDS Integers, FiniteSets, FiniteSetsExt

CONSTANTS
    PerMin,      \* sampling intervals in a minute
    RingSecs,    \* metrics.ring_secs, in intervals: what the ring covers
    Top,         \* number of tables
    Widths,      \* width of a bucket of each table, in minutes
    Retain,      \* how long each table keeps a row, in minutes
    MaxPoints,   \* MAX_QUERY_POINTS
    MaxTime,     \* bound of the clock
    MaxLate,     \* bound of the rounds in succession that are skipped or fail
    MaxTrouble,  \* bound of everything out of the ordinary together: rounds that are
                 \* skipped, errors, stops, crashes, rows of an agent
    None,
    Faults       \* of "db", "crash"

ASSUME ConstantsAssumption ==
    /\ PerMin \in Nat \ {0} /\ RingSecs \in Nat /\ RingSecs >= PerMin
    /\ Top \in Nat \ {0} /\ MaxTime \in Nat /\ MaxLate \in Nat /\ MaxTrouble \in Nat /\ MaxPoints \in Nat
    /\ Widths \in [1..Top -> Nat \ {0}] /\ Retain \in [1..Top -> Nat]
    /\ Widths[1] = 1
    /\ \A t \in 2..Top : Widths[t] % Widths[t - 1] = 0
    /\ None \notin Int

Tiers   == 1..Top
Minutes == 0..(MaxTime \div PerMin)
Samples == 0..MaxTime
Series  == {"local", "agent"}

VARIABLES
    clock,      \* the wall clock
    ring,       \* samples in the ring
    firstTs,    \* Shared.first_ts, None for i64::MAX
    namedAt,    \* since when the series has its id
    last,       \* last_flushed_minute
    pc,         \* idle, flush, roll, prune, or down
    stopping,   \* whether the flush is the last one
    minute, target, wrote,  \* of the flush
    tier,       \* of the roll-up and of the prune
    rows,       \* the tables: rows[series][tier][start of the bucket]
    late,       \* rounds in succession that were skipped or failed
    trouble,    \* how much was out of the ordinary
    absorbed,   \* history: all samples of this process
    stored,     \* history: the newest 1m row of each series and minute
    rolledAt    \* history: the minute of the last roll-up of each tier

memory  == <<ring, firstTs, namedAt, last, absorbed>>
flushes == <<minute, target, wrote>>
tables  == <<rows, stored, rolledAt>>
vars    == <<clock, memory, pc, stopping, flushes, tier, tables, late, trouble>>

Minute(x)   == x \div PerMin
Span(m)     == {x \in Samples : Minute(x) = m}
Align(t, m) == (m \div Widths[t]) * Widths[t]
Bucket(t, b) == b..(b + Widths[t] - 1)
RingMinutes == RingSecs \div PerMin

\* A slip: one place too few.
RingFullEarly(r) == Cardinality(r) >= RingSecs - 1

\* Whether some samples fill the ring: one place per interval of ring_secs.
RingFull(r) == Cardinality(r) >= RingSecs

\* A sample overwrites the oldest one of a full ring.
Push(r, x) ==
    IF \E y \in r : y > x THEN r
    ELSE (IF RingFull(r) THEN r \ {Min(r)} ELSE r) \cup {x}

\* The 1m row of a minute, as the ring has it now.  A series without an id has none.
RowOf(m) == IF namedAt = None THEN {} ELSE ring \cap Span(m)

\* UPSERT of a 1m row.
Insert(s, m, row) ==
    /\ rows' = [rows EXCEPT ![s][1][m] = row]
    /\ stored' = [stored EXCEPT ![s][m] = row]

\* One more thing out of the ordinary.
Trouble == trouble < MaxTrouble /\ trouble' = trouble + 1

-----------------------------------------------------------------------------
\* The first minute that the flush at minute `cur' writes.
FirstOf(base, cur) == Max({base + 1, cur - RingMinutes})

\* `flush' up to its first insert.  The first call starts with the minute it runs in.
FlushBegin(cur, base, upTo) ==
    /\ last' = base
    /\ IF upTo <= base
       THEN /\ pc' = "idle"
            /\ late' = 0
            /\ UNCHANGED flushes
       ELSE /\ pc' = "flush"
            /\ minute' = FirstOf(base, cur)
            /\ target' = upTo
            /\ wrote' = FALSE
            /\ UNCHANGED late

BaseOf(cur) == IF last = None THEN cur - 1 ELSE last

\* A round: sample, register the series, and begin to flush.
Tick ==
    /\ pc = "idle" /\ ~stopping
    /\ clock < MaxTime
    /\ clock' = clock + 1
    /\ ring' = Push(ring, clock')
    /\ absorbed' = absorbed \cup {clock'}
    /\ firstTs' = IF firstTs = None THEN clock' ELSE firstTs
    /\ \/ /\ namedAt' = IF namedAt = None THEN clock' ELSE namedAt
          /\ UNCHANGED trouble
       \/ "db" \in Faults /\ Trouble /\ UNCHANGED namedAt
    /\ FlushBegin(Minute(clock'), BaseOf(Minute(clock')), Minute(clock') - 1)
    /\ UNCHANGED <<stopping, tier, tables>>

\* The collectors time out, or the previous round still runs: nothing happens.
Skip ==
    /\ Trouble
    /\ pc = "idle" /\ ~stopping
    /\ clock < MaxTime /\ late < MaxLate
    /\ clock' = clock + 1
    /\ late' = late + 1
    /\ UNCHANGED <<memory, pc, stopping, flushes, tier, tables>>

\* A minute without points is passed over.
FlushNothing ==
    /\ pc = "flush" /\ minute <= target
    /\ RowOf(minute) = {}
    /\ minute' = minute + 1
    /\ UNCHANGED <<clock, memory, pc, stopping, target, wrote, tier, tables, late, trouble>>

FlushMinute ==
    /\ pc = "flush" /\ minute <= target
    /\ RowOf(minute) # {}
    /\ Insert("local", minute, RowOf(minute))
    /\ minute' = minute + 1
    /\ wrote' = TRUE
    /\ UNCHANGED <<clock, memory, pc, stopping, target, tier, rolledAt, late, trouble>>

\* A slip: the minutes count as flushed although an insert failed.
FlushFailsButCounts ==
    /\ "db" \in Faults /\ Trouble
    /\ pc = "flush" /\ minute <= target
    /\ last' = target
    /\ pc' = "idle"
    /\ UNCHANGED <<clock, ring, firstTs, namedAt, absorbed, stopping, flushes, tier,
                   tables, late>>

\* A failed insert leaves last_flushed_minute where it was.
FlushFails ==
    /\ "db" \in Faults /\ Trouble
    /\ late < MaxLate
    /\ pc = "flush" /\ minute <= target
    /\ RowOf(minute) # {}
    /\ pc' = "idle"
    /\ late' = late + 1
    /\ UNCHANGED <<clock, memory, stopping, flushes, tier, tables>>

FlushEnd ==
    /\ pc = "flush" /\ minute > target
    /\ last' = target
    /\ late' = 0
    /\ pc' = IF wrote THEN "roll" ELSE "idle"
    /\ tier' = IF wrote THEN 2 ELSE tier
    /\ UNCHANGED <<clock, ring, firstTs, namedAt, absorbed, stopping, flushes, tables, trouble>>

-----------------------------------------------------------------------------
Starts(t) == {b \in Minutes : \E s \in Series : rows[s][t][b] # {}}

\* A slip: the roll-up starts with the newest minute of its source.
RollFromNewest(t) == IF Starts(t - 1) # {} THEN Align(t, Max(Starts(t - 1))) ELSE MaxTime

\* Where the roll-up of tier t starts: the newest row of the table, whoever's it
\* is, or the oldest row of its source.
RollFrom(t) ==
    IF Starts(t) # {} THEN Max(Starts(t))
    ELSE IF Starts(t - 1) # {} THEN Align(t, Min(Starts(t - 1)))
    ELSE MaxTime

\* A slip: the bucket that is being filled is rolled up as well.
RollToNow(t) == Minute(clock)

\* Buckets that are over.
RollTo(t) == Align(t, Minute(clock))

Sum(s, t, b) == UNION {rows[s][t - 1][m] : m \in Bucket(t, b) \cap Minutes}

RollUp(t) ==
    [s \in Series |-> [rows[s] EXCEPT ![t] = [b \in Minutes |->
        IF /\ b = Align(t, b) /\ b >= RollFrom(t) /\ b < RollTo(t)
           /\ Sum(s, t, b) # {}
        THEN Sum(s, t, b)
        ELSE rows[s][t][b]]]]

\* `rollup_all', one table after the other.
Roll ==
    /\ pc = "roll" /\ tier <= Top
    /\ rows' = RollUp(tier)
    /\ rolledAt' = [rolledAt EXCEPT ![tier] = Minute(clock)]
    /\ tier' = tier + 1
    /\ UNCHANGED <<clock, memory, pc, stopping, flushes, stored, late, trouble>>

\* The prune comes after all roll-ups.
RollEnd ==
    /\ pc = "roll" /\ tier > Top
    /\ pc' = "prune" /\ tier' = 1
    /\ UNCHANGED <<clock, memory, stopping, flushes, tables, late, trouble>>

\* Rows older than their table keeps them.
Outdated(t, b) == b * PerMin < clock - Retain[t] * PerMin

Prune ==
    /\ pc = "prune" /\ tier <= Top
    /\ rows' = [s \in Series |-> [rows[s] EXCEPT ![tier] =
                   [b \in Minutes |-> IF Outdated(tier, b) THEN {} ELSE rows[s][tier][b]]]]
    /\ tier' = tier + 1
    /\ UNCHANGED <<clock, memory, pc, stopping, flushes, stored, rolledAt, late, trouble>>

PruneEnd ==
    /\ pc = "prune" /\ tier > Top
    /\ pc' = "idle"
    /\ UNCHANGED <<clock, memory, stopping, flushes, tier, tables, late, trouble>>

\* An error ends the maintenance of this minute, whatever it has done.
MaintainFails ==
    /\ "db" \in Faults /\ Trouble
    /\ pc \in {"roll", "prune"} /\ tier <= Top
    /\ pc' = "idle"
    /\ UNCHANGED <<clock, memory, stopping, flushes, tier, tables, late>>

-----------------------------------------------------------------------------
\* Rows of an agent: of any past minute, whenever it could connect.
AgentRow(m) ==
    /\ Trouble
    /\ pc # "down"
    /\ m < Minute(clock)
    /\ stored["agent"][m] = {}
    /\ Insert("agent", m, {m * PerMin})
    /\ UNCHANGED <<clock, memory, pc, stopping, flushes, tier, rolledAt, late>>

\* `run' sees the shutdown: the minute that is not over is written as well.
Stop ==
    /\ Trouble
    /\ pc = "idle" /\ ~stopping
    /\ stopping' = TRUE
    /\ FlushBegin(Minute(clock), BaseOf(Minute(clock)), Minute(clock))
    /\ UNCHANGED <<clock, ring, firstTs, namedAt, absorbed, tier, tables>>

\* The memory is gone; the tables stay.
GoDown ==
    /\ pc' = "down" /\ stopping' = FALSE
    /\ ring' = {} /\ absorbed' = {}
    /\ firstTs' = None /\ namedAt' = None /\ last' = None
    /\ late' = 0
    /\ UNCHANGED <<clock, flushes, tier, tables>>

Exit  == pc = "idle" /\ stopping /\ GoDown /\ UNCHANGED trouble
Crash == "crash" \in Faults /\ Trouble /\ pc # "down" /\ GoDown

\* Time passes while the process is down.
Pass ==
    /\ pc = "down" /\ clock < MaxTime
    /\ clock' = clock + 1
    /\ UNCHANGED <<memory, pc, stopping, flushes, tier, tables, late, trouble>>

Start ==
    /\ pc = "down"
    /\ pc' = "idle"
    /\ UNCHANGED <<clock, memory, stopping, flushes, tier, tables, late, trouble>>

Init ==
    /\ clock = 0
    /\ ring = {} /\ absorbed = {}
    /\ firstTs = None /\ namedAt = None /\ last = None
    /\ pc = "idle" /\ stopping = FALSE
    /\ minute = 0 /\ target = 0 /\ wrote = FALSE
    /\ tier = 1
    /\ rows = [s \in Series |-> [t \in Tiers |-> [b \in Minutes |-> {}]]]
    /\ stored = [s \in Series |-> [m \in Minutes |-> {}]]
    /\ rolledAt = [t \in Tiers |-> 0]
    /\ late = 0 /\ trouble = 0

Flush    == FlushNothing \/ FlushMinute \/ FlushFails \/ FlushEnd
Maintain == Roll \/ RollEnd \/ Prune \/ PruneEnd \/ MaintainFails

Next ==
    \/ Tick \/ Skip \/ Flush \/ Maintain
    \/ \E m \in Minutes : AgentRow(m)
    \/ Stop \/ Exit \/ Crash \/ Pass \/ Start

Spec == Init /\ [][Next]_vars

-----------------------------------------------------------------------------

\* The tier a query over the last `span' intervals is answered from: the coarsest
\* one as fine as `step', or the next one that is not too long and not too old.
Unfit(t, span) ==
    \/ span \div (Widths[t] * PerMin) > MaxPoints
    \/ span > Retain[t] * PerMin

SelectTier(span, step) ==
    LET fine == {t \in Tiers : t = 1 \/ Widths[t] * PerMin <= step}
        fit  == {t \in Tiers : t >= Max(fine) /\ ~Unfit(t, span)}
    IN IF fit = {} THEN Top ELSE Min(fit)

\* Whether a fine query is answered from the ring, by where it starts.
RingCovers(from) == firstTs # None /\ from >= firstTs /\ from >= clock - RingSecs

-----------------------------------------------------------------------------
TypeOK ==
    /\ clock \in Samples
    /\ ring \subseteq Samples /\ Cardinality(ring) <= RingSecs
    /\ absorbed \subseteq 0..clock
    /\ {firstTs, namedAt} \subseteq Samples \cup {None}
    /\ last \in Int \cup {None}
    /\ pc \in {"idle", "flush", "roll", "prune", "down"}
    /\ stopping \in BOOLEAN /\ wrote \in BOOLEAN
    /\ minute \in Int /\ target \in Int
    /\ tier \in 1..(Top + 1)
    /\ rows \in [Series -> [Tiers -> [Minutes -> SUBSET Samples]]]
    /\ stored \in [Series -> [Minutes -> SUBSET Samples]]
    /\ rolledAt \in [Tiers -> Minutes]
    /\ late \in 0..MaxLate /\ trouble \in 0..MaxTrouble

(* What the header of scheduler.rs promises as long as rounds are skipped   *)
(* and inserts fail for a time the ring has room for: the row of every      *)
(* flushed minute holds every sample this process took in it, the first     *)
(* one included, which the ring is about to overwrite when the minute ends. *)
(* (Except minutes in which the series had no id yet.)                      *)
MinuteIsComplete ==
    \A m \in Minutes :
        /\ last # None /\ m <= last
        /\ absorbed \cap Span(m) # {}
        /\ namedAt # None /\ Minute(namedAt) <= m
        => stored["local"][m] = absorbed \cap Span(m)

\* The same, over a ring and tables that keep their bounds.
MinutesAreKept == TypeOK /\ MinuteIsComplete

(* `query_live': the ring has every sample of this process a query that is  *)
(* answered from it asks for, but for one at the very edge of ring_secs,    *)
(* which the newest sample may have overwritten.                            *)
LiveAnswerIsWhole ==
    pc # "down" =>
        \A from \in Samples : RingCovers(from) =>
            \A x \in absorbed : x >= from /\ x # clock - RingSecs => x \in ring

-----------------------------------------------------------------------------
\* The newest bucket of a tier is rolled up again each minute, from whatever the
\* prune has left of its source.  That is harmless if a later row of this node
\* made a newer bucket in time.
Followed(t, b) ==
    \/ clock <= (b + Retain[t - 1]) * PerMin
    \/ \E m \in Minutes :
        /\ stored["local"][m] # {}
        /\ m >= b + Widths[t]
        /\ Align(t, m) + Widths[t] <= b + Retain[t - 1]

\* No pause of the data damaged a row from which this one is made, or itself.
Undisturbed(t, b) ==
    \A u \in 2..t : \A c \in Bucket(t, b) \cap Minutes : Followed(u, Align(u, c))

Stored(t, b) == UNION {stored["local"][m] : m \in Bucket(t, b) \cap Minutes}

(* `rollup': a bucket that is there summarises all the minutes below it, and *)
(* none twice or out of date, although it was made in steps, over tables that*)
(* are pruned meanwhile, and after restarts that wrote a minute again.       *)
RollupIsExact ==
    \A t \in 2..Top : \A b \in Minutes :
        rows["local"][t][b] # {} /\ Undisturbed(t, b) =>
            rows["local"][t][b] = Stored(t, b)

(* `maintain' rolls up before it prunes: within the reach of the coarsest    *)
(* table, every minute this node wrote is in some table.                     *)
SampleIsKept ==
    \A m \in Minutes :
        /\ stored["local"][m] # {}
        /\ ~Outdated(Top, Align(Top, m))
        /\ Undisturbed(Top, Align(Top, m))
        => \E t \in Tiers : stored["local"][m] \subseteq rows["local"][t][Align(t, m)]

(* `select_tier' with `prune_all': the answer to a query that ends now has   *)
(* no hole where a table has been pruned; it has every bucket that starts in *)
(* the range and was over at the last roll-up.                               *)
QueryHasNoHole ==
    \A from \in 0..clock : \A step \in {Widths[t] * PerMin : t \in Tiers} :
        LET t == SelectTier(clock - from, step) IN
        t = Top \/ \A m \in Minutes :
            LET b == Align(t, m) IN
            /\ b * PerMin >= from
            /\ stored["local"][m] # {}
            /\ t = 1 \/ (b + Widths[t] <= rolledAt[t] /\ Undisturbed(t, b))
            => stored["local"][m] \subseteq rows["local"][t][b]

\* What a query of any length can ask for is in a table, and in the one it is
\* answered from.
HistoryIsKept == SampleIsKept /\ QueryHasNoHole

-----------------------------------------------------------------------------
(* ws_agent.rs: the coarse tables get the rows of an agent from the same     *)
(* roll-up.  Refuted for rows that arrive behind its start.                  *)
AgentRowsAreRolledUp ==
    \A t \in 2..Top : \A m \in Minutes :
        LET b == Align(t, m) IN
        rows["agent"][t][b] # {} => stored["agent"][m] \subseteq rows["agent"][t][b]
=============================================================================
