------------------------------ MODULE LogPages ------------------------------
(***************************************************************************)
(* Reading a log page by page, newest entries first (LogProvider::query of *)
(* journald, of the unified log of macOS and of the event log of Windows). *)
(* The log grows and loses its oldest entries between the pages.           *)
(*                                                                         *)
(* An entry has its place in the log, its time, a hash, the channel it is  *)
(* in, and whether the filter wants it that only the process applies.  The *)
(* cursors of journald are places; the others are made of time and hash,   *)
(* which is not the order of the log within one instant.                   *)
(***************************************************************************)
EXTENDS Integers, Sequences, FiniteSetsExt, SequencesExt

CONSTANTS
    Limit,      \* entries of a page
    TailSlack,  \* TAIL_SLACK
    CursorSlack,\* CURSOR_SLACK
    MaxScan,    \* MAX_SCAN
    PerSec,     \* instants of a second; those of a millisecond are one
    Default,    \* DEFAULT_WINDOW_SECS, in instants
    Channels,
    MaxLog,     \* bound of the entries written
    MaxTime,    \* bound of the clock
    MaxPages,   \* bound of the pages read
    None

Entries == [n : 1..MaxLog, us : 0..MaxTime, h : {0, 1}, ch : Channels, hit : BOOLEAN]

VARIABLES
    provider, \* journald, oslog, eventlog
    since,    \* of the query, in instants, or None
    log,      \* set of entries
    size,     \* entries ever written
    now,
    next,     \* what next_cursor says: start, more, end
    rows,     \* what the pages held; the cursor is that of the last one
    first,    \* history: what the first query could have found
    pages,    \* history: how many were read
    cut       \* history: some query met more than it keeps

vars == <<provider, since, log, size, now, next, rows, first, pages, cut>>

Init ==
    /\ provider \in {"journald", "oslog", "eventlog"}
    /\ since \in {None} \cup {t \in 0..(MaxTime - 1) : t % PerSec = 0}
    /\ log = {} /\ size = 0 /\ now = 0
    /\ next = "start" /\ rows = <<>> /\ first = {} /\ pages = 0 /\ cut = FALSE

\* CursorKey; of journald the place.
Key(e) == IF provider = "journald" THEN e.n ELSE 2 * e.us + e.h

Above(e, f) == Key(e) > Key(f) \/ (Key(e) = Key(f) /\ e.n > f.n)

Keys(S) == {Key(e) : e \in S}

\* The n entries of a set with the greatest keys, and the n written last.
Topmost(S, n) == {e \in S : Cardinality({f \in S : Above(f, e)}) < n}
Latest(S, n)  == {e \in S : Cardinality({f \in S : f.n > e.n}) < n}

-----------------------------------------------------------------------------
(* The log, until the pages have ended. *)

Write ==
    /\ next # "end" /\ size < MaxLog
    /\ size' = size + 1
    \* What a provider does not look at is fixed.
    /\ \E h \in {0, 1}, ch \in Channels, hit \in BOOLEAN :
        /\ provider = "journald" => h = 0
        /\ provider # "eventlog" => ch = CHOOSE c \in Channels : TRUE
        /\ log' = log \cup {[n |-> size + 1, us |-> now, h |-> h, ch |-> ch, hit |-> hit]}
    /\ UNCHANGED <<provider, since, now, next, rows, first, pages, cut>>

Tick ==
    /\ next # "end" /\ now < MaxTime
    /\ now' = now + 1
    /\ UNCHANGED <<provider, since, log, size, next, rows, first, pages, cut>>

\* The oldest entry is rotated away.
Rotate ==
    /\ next # "end" /\ log # {}
    /\ log' = log \ {e \in log : \A f \in log : e.n <= f.n}
    /\ UNCHANGED <<provider, since, size, now, next, rows, first, pages, cut>>

-----------------------------------------------------------------------------
(* Window::from_query *)

Second(t) == (t \div PerSec) * PerSec

EndUs   == IF next = "start" THEN Second(now) ELSE Last(rows).us
StartUs == IF since # None THEN since ELSE EndUs - Default

\* journald has no window but since.
InWindow(e) ==
    IF provider = "journald" THEN since = None \/ e.us >= since
    ELSE e.us \in StartUs..EndUs

\* Window::accepts; the cursor itself is not shown again.
Accepts(e) == InWindow(e) /\ (next = "start" \/ Key(e) < Key(Last(rows)))

\* What a page may hold.
Wanted == {e \in log : Accepts(e) /\ e.hit}

-----------------------------------------------------------------------------
(* journald: --reverse, --after-cursor, one more than the page holds. *)

JournalMore == Cardinality(Wanted) > Limit

-----------------------------------------------------------------------------
(* oslog: `log show` has seconds only, its last lines are kept as they are. *)

Shown == {e \in log : e.us \in Second(StartUs)..(Second(EndUs) + PerSec)}

\* A slip: no line is kept beyond the page.
TailOfLimit == Latest(Shown, Limit)

LastLines == Latest(Shown, Limit + TailSlack)

-----------------------------------------------------------------------------
(* eventlog: the channels are merged by the newest of their heads. *)

Found == {e \in log : e.us \in StartUs..(EndUs + 1)}

\* The first k events the merge takes.
Merged ==
    LET taken[k \in 0..Cardinality(Found)] ==
          IF k = 0 THEN {}
          ELSE LET before == taken[k - 1]
                   rest   == Found \ before
                   heads  == {e \in rest : \A f \in rest : f.ch = e.ch => f.n <= e.n}
               IN before \cup Topmost(heads, 1)
    IN taken

Collected ==
    LET taken == Merged
        scans == 0..(IF Cardinality(Found) < MaxScan THEN Cardinality(Found) ELSE MaxScan)
        full  == {k \in scans : Cardinality(taken[k] \cap Wanted) >= Limit + CursorSlack}
    IN taken[IF full = {} THEN Max(scans) ELSE Min(full)] \cap Wanted

-----------------------------------------------------------------------------
\* Of twins the last one.
Distinct(S) == {e \in S : ~\E f \in S : Key(f) = Key(e) /\ f.n > e.n}

\* Sorted, without twins, and not more than a page.
Finalize(S) ==
    LET page == Topmost(Distinct(S), Limit)
    IN [i \in 1..Cardinality(page) |-> CHOOSE e \in page : Cardinality({f \in page : Above(f, e)}) = i - 1]

\* What was read of the log, and what is made of it.
ReadFrom == CASE provider = "journald" -> Wanted
              [] provider = "oslog"    -> LastLines
              [] provider = "eventlog" -> Collected

Page(read) == Finalize(read \cap Wanted)

More(page) == IF provider = "journald" THEN JournalMore ELSE Len(page) = Limit

\* The slack is what may be lost: what was not wanted, twins, and the other entries of
\* the instant at which the page ends.
Overrun(read, page) ==
    LET at == IF page = <<>> THEN {} ELSE {e \in Wanted : e.us = Last(page).us}
        spent == Cardinality(read \ Distinct(read \cap Wanted)) + Max({1, Cardinality(Keys(at))})
    IN /\ ~(Wanted \subseteq read)
       /\ \/ provider = "oslog" /\ spent > TailSlack + 1
          \/ provider = "eventlog" /\ (spent > CursorSlack + 1 \/ Cardinality(Found) > MaxScan)

Query ==
    /\ next # "end" /\ pages < MaxPages
    /\ provider # "journald" => StartUs < EndUs
    /\ LET read == ReadFrom
           page == Page(read)
       IN
        /\ rows' = rows \o page
        /\ next' = IF More(page) THEN "more" ELSE "end"
        /\ cut' = (cut \/ Overrun(read, page))
    /\ first' = IF next = "start" THEN Wanted ELSE first
    /\ pages' = pages + 1
    /\ UNCHANGED <<provider, since, log, size, now>>

\* from_query: since is not before the cursor.
Refused ==
    /\ next # "end" /\ pages < MaxPages
    /\ provider # "journald" /\ StartUs >= EndUs
    /\ pages' = pages + 1
    /\ UNCHANGED <<provider, since, log, size, now, next, rows, first, cut>>

Next == Write \/ Tick \/ Rotate \/ Query \/ Refused

Spec == Init /\ [][Next]_vars

-----------------------------------------------------------------------------
TypeOK ==
    /\ log \subseteq Entries /\ size \in 0..MaxLog /\ now \in 0..MaxTime
    /\ next \in {"start", "more", "end"}
    /\ \A i \in DOMAIN rows : rows[i] \in Entries
    /\ first \subseteq Entries /\ pages \in 0..MaxPages /\ cut \in BOOLEAN

\* The pages never go back, and no entry comes twice.
PagesDescend == \A i \in 2..Len(rows) : Key(rows[i]) < Key(rows[i - 1])

\* What could be found at first and was not rotated away is on some page as soon as
\* the pages are past it, and with a since all of it is, once they end: no entry is
\* lost where two pages meet, whatever was written at the instant of the cursor.
NothingIsSkipped ==
    LET past(e) == rows # <<>> /\ Key(e) >= Key(Last(rows)) IN
    ~cut => \A e \in first \cap log :
        past(e) \/ (next = "end" /\ since # None) => Key(e) \in Keys(Range(rows))

LogIsPagedWhole == TypeOK /\ PagesDescend /\ NothingIsSkipped

-----------------------------------------------------------------------------
(* What the comments say and the code does not do.                         *)

\* log.rs 196: without a cursor there is nothing older.
EndIsEnd ==
    next = "end" /\ since # None => \A e \in first \cap log : Key(e) \in Keys(Range(rows))

\* A page is refused for its cursor.
NoPageIsRefused == [][~(Refused /\ next = "more")]_vars
=============================================================================
