------------------------------- MODULE MCData -------------------------------
(***************************************************************************)
(* Components around what requests read and do, side by side in one run:   *)
(* the metrics, the cache of icons, the calls into a worker with their     *)
(* audit, the actions on services of Windows, the pages of a log and the   *)
(* page of the browser that shows it.  `part` says which of them a         *)
(* behaviour is about, the others stay as they were.                       *)
(***************************************************************************)
EXTENDS Metrics

CONSTANTS
    Callers, Warmers, Names, Ttl, Interval, Capacity, MaxAttempts,
    Requests, User, Roots, Hits,
    Services, MaxMoves, MaxGiveUps,
    Limit, TailSlack, CursorSlack, MaxScan, PerSec, Default, Channels, MaxLog, LogTime, MaxPages,
    PageSize, MaxEntries, Filters, MaxSize, MaxActs

\* None is nothing that a component names; the user worker is no admin worker.
ASSUME DataAssumption ==
    /\ None \notin Callers \cup Warmers \cup Names \cup Roots \cup {User} /\ User \notin Roots
    /\ Ttl \in Nat /\ MaxAttempts \in Nat
    /\ MaxMoves \in Nat /\ MaxGiveUps \in Nat

VARIABLES
    part,
    slots, at, want, tries, due,
    session, admin, proc, rpc, kind, handle, usedAdmin, result, snapshot, audited, job,
    unwritten, mishaps,
    state, startType, starts, moves, apc, op, outcome, base, givenUp,
    provider, since, log, size, now, next, paged, first, pages, cut,
    logged, filter, follow, sub, subs, got, shown, loaded, cursor, atTop, buf, busy, queue,
    request, answer, older, mixed, acts

Icons == INSTANCE IconCache WITH pc <- at, Keys <- Names
Ex    == INSTANCE Exec WITH Faults <- Hits, pc <- rpc, rows <- audited, trouble <- mishaps
Scm   == INSTANCE ScmActions WITH MaxTrouble <- MaxGiveUps, answer <- outcome, trouble <- givenUp
Pages == INSTANCE LogPages WITH MaxTime <- LogTime, rows <- paged
View  == INSTANCE LogView WITH size <- logged, rows <- shown, next <- cursor

metrics  == vars
icons    == <<slots, at, want, tries, due>>
calls    == <<session, admin, proc, rpc, kind, handle, usedAdmin, result, snapshot, audited, job,
              unwritten, mishaps>>
services == <<state, startType, starts, moves, apc, op, outcome, base, givenUp>>
reading  == <<provider, since, log, size, now, next, paged, first, pages, cut>>
view     == <<logged, filter, follow, sub, subs, got, shown, loaded, cursor, atTop, buf, busy,
              queue, request, answer, older, mixed, acts>>
all      == <<part, metrics, icons, calls, services, reading, view>>

\* A component the behaviour is not about begins in one way.
Rests(p, fixed) == part # p => fixed

DataInit ==
    /\ part \in {"metrics", "icons", "calls", "services", "pages", "view"}
    /\ Init /\ Icons!Init
    /\ Ex!Init /\ Rests("calls", \A r \in Requests : kind[r].via = "user")
    /\ Scm!Init
    /\ Rests("services", \A s \in Services : state[s] = "running" /\ startType[s] = "auto")
    /\ Rests("services", \A c \in Callers : op[c].do = "start")
    /\ Pages!Init /\ Rests("pages", provider = "journald" /\ since = None)
    /\ View!Init /\ Rests("view", logged = 1 /\ ~follow /\ \A f \in Filters : filter <= f)

DataNext ==
    /\ UNCHANGED part
    /\ IF part = "metrics" THEN Next ELSE UNCHANGED metrics
    /\ IF part = "icons" THEN Icons!Next ELSE UNCHANGED icons
    /\ IF part = "calls" THEN Ex!Next ELSE UNCHANGED calls
    /\ IF part = "services" THEN Scm!Next ELSE UNCHANGED services
    /\ IF part = "pages" THEN Pages!Next ELSE UNCHANGED reading
    /\ IF part = "view" THEN View!Next ELSE UNCHANGED view

DataSpec == DataInit /\ [][DataNext]_all

\* Buckets of one, two and four minutes, kept for four, eight and twelve: each table
\* keeps more than a bucket of the next one, as in TIERS.
SmallWidths == <<1, 2, 4>>
SmallRetain == <<4, 8, 12>>

-----------------------------------------------------------------------------
\* What callers of an icon share has one that does it: a placeholder the call that
\* extracts.
SharedWorkHasItsWorker == Icons!TypeOK /\ Icons!PlaceholderHasItsLoader

\* What is reported of an operation is what was done: one row of the audit log for
\* what a worker did, by whatever way, and no restart without a start.
OperationsAreTrue == Ex!OperationsAreAudited /\ Scm!TypeOK /\ Scm!RestartsAreReal

\* A log is read without a hole: by a client that follows its cursors while the log
\* grows and rotates, and in the page that mixes answers with what it follows.
LogIsWhole == Pages!LogIsPagedWhole /\ View!ViewIsWhole
=============================================================================
