------------------------------ MODULE LogView ------------------------------
(***************************************************************************)
(* The log as a page of the browser shows it (useLogs): the newest entries *)
(* by a request, older ones by further requests with a cursor, new ones by *)
(* a subscription, which wait in a buffer while the user reads further     *)
(* down.  Answers and frames arrive in any order, and the filter may       *)
(* change meanwhile.  What setRows and setLoadingOlder are given runs when *)
(* the page renders, later than the code after them.                       *)
(*                                                                         *)
(* Entries are numbers, as a filter is the number it starts from.          *)
(***************************************************************************)
EXTENDS Integers, Sequences, FiniteSets, SequencesExt

CONSTANTS
    PageSize,   \* PAGE
    MaxEntries, \* MAX_ENTRIES
    Filters,    \* values of since
    MaxSize,    \* bound of the log
    MaxActs,    \* bound of what the user does to the filter and to follow
    None

\* Where a row comes from: the first page, an older one, or the subscription of
\* this number.
First == 0
Older == -1

VARIABLES
    size,     \* entries of the log
    filter, follow,
    sub, subs, \* the subscription: off, asked, on; how many there were
    got,      \* the last entry it was sent

    rows,     \* newest first
    loaded, next, atTop, buf,
    busy,     \* loadingOlder
    queue,    \* updates that wait to be rendered
    request, answer, \* for the first page: none, sent, served, failed; what was served
    older,    \* the request for an older page, None

    mixed,    \* history: a render trimmed rows that a later update of it goes on from,
              \* or an older page is of another filter
    acts

data == <<rows, loaded, next, atTop, buf, busy, queue>>
net  == <<sub, subs, got, request, answer, older>>
vars == <<size, filter, follow, data, net, mixed, acts>>

Row(e, from) == [e |-> e, from |-> from]
Visible(f)   == {e \in 1..size : e >= f}

\* Rows of the numbers hi down to lo.
Down(hi, lo, from) == [i \in 1..(IF hi < lo THEN 0 ELSE hi - lo + 1) |-> Row(hi - i + 1, from)]

\* A page of the server: the newest entries below a number, and its next_cursor.
Page(f, below, from) ==
    LET hi == below - 1
        oldest == IF f > 1 THEN f ELSE 1
        lo == IF hi - PageSize + 1 > oldest THEN hi - PageSize + 1 ELSE oldest
    IN [entries |-> Down(hi, lo, from), next |-> IF lo > oldest THEN lo ELSE None]

Init ==
    /\ size \in 1..MaxSize
    /\ filter \in Filters /\ follow \in BOOLEAN
    /\ sub = (IF follow THEN "asked" ELSE "off") /\ subs = 1 /\ got = 0
    /\ rows = <<>> /\ loaded = FALSE /\ next = None /\ atTop = TRUE /\ buf = <<>>
    /\ busy = FALSE /\ queue = <<>>
    /\ request = "sent" /\ answer = None /\ older = None
    /\ mixed = FALSE /\ acts = 0

-----------------------------------------------------------------------------
(* The server. *)

Log ==
    /\ size < MaxSize
    /\ size' = size + 1
    /\ UNCHANGED <<filter, follow, data, net, mixed, acts>>

Attach ==
    /\ sub = "asked"
    /\ sub' = "on" /\ got' = size
    /\ UNCHANGED <<size, filter, follow, data, subs, request, answer, older, mixed, acts>>

Serve ==
    /\ request = "sent"
    /\ \/ request' = "failed" /\ UNCHANGED answer
       \/ request' = "served" /\ answer' = Page(filter, size + 1, First)
    /\ UNCHANGED <<size, filter, follow, data, sub, subs, got, older, mixed, acts>>

-----------------------------------------------------------------------------
(* Rendering. *)

Enqueue(u) == queue' = Append(queue, u)

Trims(list) == Len(list) > MaxEntries
Kept(list)  == SubSeq(list, 1, MaxEntries)

\* One update, with the side effects that trim and loadOlder have.
Update(s, u) ==
    CASE u.do = "set" -> [s EXCEPT !.rows = u.list, !.mixed = s.trimmed]
      [] u.do = "older" -> [s EXCEPT !.rows = @ \o u.list, !.mixed = @ \/ s.trimmed \/ u.other]
      [] u.do = "top" ->
           LET list == u.list \o s.rows IN
           IF Trims(list)
           THEN [s EXCEPT !.rows = Kept(list), !.next = Last(Kept(list)).e, !.trimmed = TRUE]
           ELSE [s EXCEPT !.rows = list]
      [] u.do = "ask" ->
           IF s.busy THEN s ELSE [s EXCEPT !.busy = TRUE, !.older = [c |-> u.c, f |-> filter]]
      [] u.do = "idle" -> [s EXCEPT !.busy = FALSE]

\* One after the other.
Render ==
    LET done[i \in 0..Len(queue)] ==
          IF i = 0
          THEN [rows |-> rows, next |-> next, busy |-> busy, older |-> older,
                mixed |-> mixed, trimmed |-> FALSE]
          ELSE Update(done[i - 1], queue[i])
    IN done[Len(queue)]

Apply(after) ==
    /\ rows' = Render.rows /\ busy' = Render.busy /\ older' = Render.older /\ mixed' = Render.mixed
    /\ queue' = after

Renders ==
    /\ queue # <<>>
    /\ Apply(<<>>)
    /\ next' = Render.next
    /\ UNCHANGED <<size, filter, follow, loaded, atTop, buf, sub, subs, got, request, answer, acts>>

-----------------------------------------------------------------------------
(* Answers and frames. *)

FirstPage ==
    /\ request = "served"
    /\ request' = "none" /\ answer' = None
    /\ Enqueue([do |-> "set", list |-> answer.entries])
    /\ next' = answer.next
    /\ loaded' = TRUE
    /\ UNCHANGED <<size, filter, follow, rows, atTop, buf, busy, sub, subs, got, older, mixed, acts>>

FirstFails ==
    /\ request = "failed"
    /\ request' = "none"
    /\ UNCHANGED <<size, filter, follow, data, sub, subs, got, answer, older, mixed, acts>>

\* A frame of the subscription, oldest first on the wire.
Frame ==
    /\ sub = "on" /\ got < size
    /\ \E upto \in (got + 1)..size :
        LET newest == Down(upto, got + 1, subs) IN
        /\ got' = upto
        /\ IF atTop /\ buf = <<>>
           THEN Enqueue([do |-> "top", list |-> newest]) /\ UNCHANGED buf
           ELSE buf' = newest \o buf /\ UNCHANGED queue
    /\ UNCHANGED <<size, filter, follow, rows, loaded, next, atTop, busy, sub, subs, request, answer,
                   older, mixed, acts>>

\* A slip: it is taken whatever the cursor is now.
TakenAnyway(c) == c # None

\* The cursor is still the one that was asked for.
StillWanted(c) == next = c

OlderPage ==
    /\ older # None
    /\ older' = None
    /\ LET page == Page(older.f, older.c, Older) idle == [do |-> "idle"] IN
       IF StillWanted(older.c)
       THEN /\ queue' = queue \o <<[do |-> "older", list |-> page.entries, other |-> older.f # filter], idle>>
            /\ next' = page.next
       ELSE Enqueue(idle) /\ UNCHANGED next
    /\ UNCHANGED <<size, filter, follow, rows, loaded, atTop, buf, busy, sub, subs, got, request, answer,
                   mixed, acts>>

OlderFails ==
    /\ older # None
    /\ older' = None
    /\ Enqueue([do |-> "idle"])
    /\ UNCHANGED <<size, filter, follow, rows, loaded, next, atTop, buf, busy, sub, subs, got, request, answer,
                   mixed, acts>>

-----------------------------------------------------------------------------
(* The user. *)

\* The table asks at its end; how often before it renders makes no difference after two.
LoadOlder ==
    /\ next # None /\ Len(queue) < 2
    /\ Enqueue([do |-> "ask", c |-> next])
    /\ UNCHANGED <<size, filter, follow, rows, loaded, next, atTop, buf, busy, net, mixed, acts>>

Flush ==
    /\ buf # <<>>
    /\ buf' = <<>>
    /\ Enqueue([do |-> "top", list |-> buf])

FlushPressed ==
    /\ Flush
    /\ UNCHANGED <<size, filter, follow, rows, loaded, next, atTop, busy, net, mixed, acts>>

SetAtTop(v) ==
    /\ atTop # v
    /\ atTop' = v
    /\ IF v /\ buf # <<>> THEN Flush ELSE UNCHANGED <<buf, queue>>
    /\ UNCHANGED <<size, filter, follow, rows, loaded, next, busy, net, mixed, acts>>

\* What the effects of the next render see.
Resubscribe(on) ==
    /\ sub' = (IF on THEN "asked" ELSE "off")
    /\ subs' = subs + 1
    /\ UNCHANGED got

\* A new filter is rendered with all that waits, then its effects begin anew.
ChangeFilter ==
    /\ acts < MaxActs /\ acts' = acts + 1
    /\ \E f \in Filters \ {filter} : filter' = f
    /\ rows' = Render.rows /\ busy' = Render.busy /\ mixed' = Render.mixed
    /\ older' = IF older = None /\ Render.older # None THEN [Render.older EXCEPT !.f = filter'] ELSE older
    /\ queue' = <<[do |-> "set", list |-> <<>>]>>
    /\ loaded' = FALSE /\ buf' = <<>> /\ next' = None
    /\ request' = "sent" /\ answer' = None
    /\ Resubscribe(follow)
    /\ UNCHANGED <<size, follow, atTop>>

ToggleFollow ==
    /\ acts < MaxActs /\ acts' = acts + 1
    /\ follow' = ~follow
    /\ Resubscribe(follow')
    /\ Apply(<<>>)
    /\ next' = Render.next
    /\ UNCHANGED <<size, filter, loaded, atTop, buf, request, answer>>

Next ==
    \/ Log \/ Attach \/ Serve
    \/ Renders \/ FirstPage \/ FirstFails \/ Frame \/ OlderPage \/ OlderFails
    \/ LoadOlder \/ FlushPressed \/ (\E v \in BOOLEAN : SetAtTop(v))
    \/ ChangeFilter \/ ToggleFollow

Spec == Init /\ [][Next]_vars

-----------------------------------------------------------------------------
TypeOK ==
    /\ size \in 1..MaxSize /\ filter \in Filters /\ follow \in BOOLEAN
    /\ sub \in {"off", "asked", "on"} /\ got \in 0..MaxSize
    /\ \A i \in DOMAIN rows : rows[i].e \in 1..MaxSize
    /\ loaded \in BOOLEAN /\ atTop \in BOOLEAN /\ busy \in BOOLEAN /\ mixed \in BOOLEAN
    /\ next \in 1..MaxSize \cup {None}
    /\ older # None => busy

\* Two rows are neighbours in the log.  Only where a subscription begins there may
\* be entries between, or the same again: its frames and the first page are not
\* matched.
Joined(x, y) == y.e = x.e - 1
Begins(x, y) == x.from > 0 /\ y.from \notin {x.from, Older}

NoHoles == \A i \in 1..(Len(rows) - 1) : Joined(rows[i], rows[i + 1]) \/ Begins(rows[i], rows[i + 1])

\* The cursor is the last row, or the oldest entry is there: also after trimming,
\* and after an answer that came when the rows were others.
CursorIsLast ==
    queue = <<>> /\ loaded /\ rows # <<>> =>
        IF next # None THEN next = Last(rows).e
        ELSE Last(rows).from > 0 \/ Last(rows).e - 1 \notin Visible(filter)

\* What the page shows can be read from the newest row to the oldest entry.
ViewIsWhole == TypeOK /\ (~mixed => NoHoles /\ CursorIsLast)

-----------------------------------------------------------------------------
(* What the comments say and the code does not do.                         *)

\* useLogs.ts 131: a page of another filter is dropped.
OtherFiltersAreDropped == [][OlderPage /\ older.f # filter => next' = next]_vars

\* useLogs.ts 40: what is followed goes on top, and the first page leaves it there.
FollowedStays ==
    [][FirstPage => \A i \in DOMAIN rows :
        rows[i].from = subs => \E j \in DOMAIN answer.entries : answer.entries[j].e = rows[i].e]_vars
=============================================================================
