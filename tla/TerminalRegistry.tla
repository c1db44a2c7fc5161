-------------------------- MODULE TerminalRegistry --------------------------
(***************************************************************************)
(* crates/strixmaid-core/src/terminal/mod.rs: the registry of all the      *)
(* terminals of the host process.  Terminals are opened by requests; they  *)
(* are closed by requests, by their own pump when the shell exits, by the  *)
(* idle sweep and by the teardown of their session, any of which may meet  *)
(* any other at every await.                                               *)
(*                                                                         *)
(* The worker process is seen through its two calls: term.open starts the  *)
(* shell of a terminal and term.close ends it (module TerminalTable models *)
(* them from the inside).  The bytes of an attachment are the subject of   *)
(* module TerminalAttach; here a terminal is attached or not.              *)
(***************************************************************************)
EXTENDS Integers, FiniteSets

CONSTANTS
    Sessions,       \* token hashes; the teardown of a session is an actor too
    Terms,          \* terminals that may be opened; the pump of each is an actor
    Reqs,           \* HTTP requests that may be in progress at a time
    Sweeper,        \* the task that calls sweep_idle
    None,           \* no session, no terminal
    MaxPerSession,  \* TerminalConfig::max_per_session
    Faults          \* environment faults of this instance

ASSUME ConstantsAssumption ==
    /\ None \notin Sessions \cup Terms
    /\ MaxPerSession \in Nat
    /\ Faults \subseteq {"disconnect", "timeout", "crash", "read"}
    /\ Sessions \cap Terms = {} /\ Sessions \cap Reqs = {} /\ Terms \cap Reqs = {}
    /\ Sweeper \notin Sessions \cup Terms \cup Reqs
    /\ IsFiniteSet(Terms) /\ IsFiniteSet(Reqs)

\* Whoever runs shutdown(term).
Closers == Reqs \cup Sessions \cup Terms \cup {Sweeper}

VARIABLES
    session,    \* "live", "closing" (in close_all_for) or "gone" (worker shut down)
    workerUp,   \* sessions whose worker process runs
    owner,      \* Terminal.session_hash, None before the terminal exists
    shell,      \* "none", "asked" (term.open on its way), "running" or "exited"
    table,      \* keys of Inner.terms
    reserving,  \* Inner.reserving
    pump,       \* "none", "reading", "ending" (out of its loop) or "over"
    closed,     \* terminals whose Terminal.closed is set
    attached,   \* terminals with a WebSocket attached
    quiet,      \* listed terminals without output for idle_timeout
    audits,     \* how often TerminalObserver::on_closed has been called
    asking,     \* the session a request resolved before open() reserved
    opening,    \* the terminal whose term.open a request awaits
    found,      \* the terminal a DELETE has looked up and not yet taken out
    doomed,     \* the Vec<Arc<Terminal>> a closer still has to shut down
    busy,       \* the terminal in whose term.close a closer is suspended
    sweep       \* "idle", "scanned" (candidates chosen) or "closing"

vars == <<session, workerUp, owner, shell, table, reserving, pump, closed,
          attached, quiet, audits, asking, opening, found, doomed, busy, sweep>>

TypeOK ==
    /\ session \in [Sessions -> {"live", "closing", "gone"}]
    /\ workerUp \subseteq Sessions
    /\ owner \in [Terms -> Sessions \cup {None}]
    /\ shell \in [Terms -> {"none", "asked", "running", "exited"}]
    /\ table \subseteq Terms
    /\ reserving \in [Sessions -> Nat]
    /\ pump \in [Terms -> {"none", "reading", "ending", "over"}]
    /\ closed \subseteq Terms /\ attached \subseteq Terms /\ quiet \subseteq Terms
    /\ audits \in [Terms -> Nat]
    /\ asking \in [Reqs -> Sessions \cup {None}]
    /\ opening \in [Reqs -> Terms \cup {None}]
    /\ found \in [Reqs -> Terms \cup {None}]
    /\ doomed \in [Closers -> SUBSET Terms]
    /\ busy \in [Closers -> Terms \cup {None}]
    /\ sweep \in {"idle", "scanned", "closing"}

Init ==
    /\ session = [s \in Sessions |-> "live"]
    /\ workerUp = Sessions
    /\ owner = [t \in Terms |-> None]
    /\ shell = [t \in Terms |-> "none"]
    /\ table = {}
    /\ reserving = [s \in Sessions |-> 0]
    /\ pump = [t \in Terms |-> "none"]
    /\ closed = {} /\ attached = {} /\ quiet = {}
    /\ audits = [t \in Terms |-> 0]
    /\ asking = [r \in Reqs |-> None]
    /\ opening = [r \in Reqs |-> None]
    /\ found = [r \in Reqs |-> None]
    /\ doomed = [a \in Closers |-> {}]
    /\ busy = [a \in Closers |-> None]
    /\ sweep = "idle"

TermsOf(s) == {t \in table : owner[t] = s}

OpensOf(s) == {r \in Reqs : opening[r] # None /\ owner[opening[r]] = s}

Free(r) ==
    /\ asking[r] = None /\ opening[r] = None /\ found[r] = None
    /\ doomed[r] = {} /\ busy[r] = None

-----------------------------------------------------------------------------
(* open.                                                                   *)

\* Terminals and the places of those being opened count.
Full(s) == Cardinality(TermsOf(s)) + reserving[s] >= MaxPerSession

Release(s) == [reserving EXCEPT ![s] = @ - 1]

\* The middleware found the session and its worker.
OpenRequest(r, s) ==
    /\ Free(r) /\ session[s] = "live"
    /\ asking' = [asking EXCEPT ![r] = s]
    /\ UNCHANGED <<session, workerUp, owner, shell, table, reserving, pump,
                   closed, attached, quiet, audits, opening, found, doomed, busy, sweep>>

\* reserve() takes a place under the lock; then term.open is sent.
Reserve(r, t) ==
    /\ asking[r] # None
    /\ LET s == asking[r] IN
       IF Full(s)
       THEN UNCHANGED <<reserving, owner, shell, opening>>
       ELSE /\ owner[t] = None
            /\ reserving' = [reserving EXCEPT ![s] = @ + 1]
            /\ owner' = [owner EXCEPT ![t] = s]
            /\ shell' = [shell EXCEPT ![t] = IF s \in workerUp THEN "asked" ELSE "none"]
            /\ opening' = [opening EXCEPT ![r] = t]
    /\ asking' = [asking EXCEPT ![r] = None]
    /\ UNCHANGED <<session, workerUp, table, pump, closed, attached, quiet,
                   audits, found, doomed, busy, sweep>>

\* The worker starts the shell, or refuses.
WorkerOpens(t) ==
    /\ shell[t] = "asked"
    /\ shell' \in {[shell EXCEPT ![t] = "running"], [shell EXCEPT ![t] = "none"]}
    /\ UNCHANGED <<session, workerUp, owner, table, reserving, pump, closed,
                   attached, quiet, audits, asking, opening, found, doomed, busy, sweep>>

\* A slip: the place stays taken.
CommitKeeping(r) ==
    /\ table' = table \cup {opening[r]}
    /\ UNCHANGED reserving

\* commit: insertion and release in one critical section.  The pump starts right
\* after it.
Commit(r) ==
    /\ table' = table \cup {opening[r]}
    /\ reserving' = Release(owner[opening[r]])

OpenOk(r) ==
    /\ opening[r] # None
    /\ shell[opening[r]] \in {"running", "exited"}
    /\ Commit(r)
    /\ pump' = [pump EXCEPT ![opening[r]] = "reading"]
    /\ opening' = [opening EXCEPT ![r] = None]
    /\ UNCHANGED <<session, workerUp, owner, shell, closed, attached, quiet,
                   audits, asking, found, doomed, busy, sweep>>

\* An error answer, or the timeout of the call: the Reservation is dropped, and
\* with it the file descriptor of a shell that was started all the same.
OpenErr(r) ==
    /\ opening[r] # None
    /\ shell[opening[r]] = "none" \/ "timeout" \in Faults
    /\ reserving' = Release(owner[opening[r]])
    /\ opening' = [opening EXCEPT ![r] = None]
    /\ UNCHANGED <<session, workerUp, owner, shell, table, pump, closed,
                   attached, quiet, audits, asking, found, doomed, busy, sweep>>

-----------------------------------------------------------------------------
(* attach, detach and the output that keeps a terminal from being idle.    *)

\* A terminal found in the table is attached; one attachment replaces another.
Attach(t) ==
    /\ t \in table
    /\ attached' = attached \cup {t}
    /\ UNCHANGED <<session, workerUp, owner, shell, table, reserving, pump,
                   closed, quiet, audits, asking, opening, found, doomed, busy, sweep>>

\* Drop of the Attachment, or the stall limit.
Detach(t) ==
    /\ t \in attached
    /\ attached' = attached \ {t}
    /\ UNCHANGED <<session, workerUp, owner, shell, table, reserving, pump,
                   closed, quiet, audits, asking, opening, found, doomed, busy, sweep>>

\* forward(): output resets last_active; attaching and detaching do not.
Output(t) ==
    /\ pump[t] = "reading" /\ t \in table /\ shell[t] = "running"
    /\ quiet' = quiet \ {t}
    /\ UNCHANGED <<session, workerUp, owner, shell, table, reserving, pump,
                   closed, attached, audits, asking, opening, found, doomed, busy, sweep>>

Quiet(t) ==
    /\ t \in table
    /\ quiet' = quiet \cup {t}
    /\ UNCHANGED <<session, workerUp, owner, shell, table, reserving, pump,
                   closed, attached, audits, asking, opening, found, doomed, busy, sweep>>

-----------------------------------------------------------------------------
(* The four sources of a close.  Each takes terminals out of the table, in *)
(* one critical section or in two, and then runs shutdown on them, one by  *)
(* one.  Two of them may hold the same terminal, whose shell still runs.   *)

\* Only the sweep asks for how long a terminal was quiet, and only a listed one.
Delist(ts) == table' = table \ ts /\ quiet' = quiet \ ts

\* DELETE /terminals/{id}: get takes the terminal from the table ...
Close(r, t) ==
    /\ Free(r) /\ t \in table
    /\ found' = [found EXCEPT ![r] = t]
    /\ UNCHANGED <<session, workerUp, owner, shell, table, reserving, pump, closed,
                   attached, quiet, audits, asking, opening, doomed, busy, sweep>>

\* ... and finish takes it out, unless somebody has meanwhile, and goes on to
\* shutdown all the same.
Finish(r) ==
    /\ found[r] # None
    /\ Delist({found[r]})
    /\ doomed' = [doomed EXCEPT ![r] = {found[r]}]
    /\ found' = [found EXCEPT ![r] = None]
    /\ UNCHANGED <<session, workerUp, owner, shell, reserving, pump, closed,
                   attached, audits, asking, opening, busy, sweep>>

PumpMoves(t, to) ==
    /\ pump' = [pump EXCEPT ![t] = to]
    /\ UNCHANGED <<session, workerUp, owner, shell, reserving, closed, attached,
                   audits, asking, opening, found, busy, sweep>>

\* The pump leaves its loop: it read EOF ...
PumpEof(t) ==
    /\ pump[t] = "reading" /\ shell[t] = "exited"
    /\ PumpMoves(t, "ending")
    /\ UNCHANGED <<table, quiet, doomed>>

\* ... or reading failed although the shell runs (CloseReason::Failed) ...
PumpFails(t) ==
    /\ "read" \in Faults
    /\ pump[t] = "reading"
    /\ PumpMoves(t, "ending")
    /\ UNCHANGED <<table, quiet, doomed>>

\* ... or a shutdown tells it to stop, which it hears while it waits.
PumpStops(t) ==
    /\ pump[t] = "reading" /\ t \in closed
    /\ PumpMoves(t, "over")
    /\ UNCHANGED <<table, quiet, doomed>>

\* Out of its loop it hears nobody: finish, whoever else closes the terminal.
PumpFinish(t) ==
    /\ pump[t] = "ending"
    /\ PumpMoves(t, "over")
    /\ Delist({t})
    /\ doomed' = [doomed EXCEPT ![t] = {t}]

\* close_all_for, first step of SessionManager::teardown.
CloseAllFor(s) ==
    /\ session[s] = "live"
    /\ session' = [session EXCEPT ![s] = "closing"]
    /\ doomed' = [doomed EXCEPT ![s] = TermsOf(s)]
    /\ Delist(TermsOf(s))
    /\ UNCHANGED <<workerUp, owner, shell, reserving, pump, closed, attached,
                   audits, asking, opening, found, busy, sweep>>

\* sweep_idle looks at each terminal under that terminal's lock ...
SweepScan ==
    /\ sweep = "idle"
    /\ sweep' = "scanned"
    /\ doomed' = [doomed EXCEPT ![Sweeper] = (table \cap quiet) \ attached]
    /\ UNCHANGED <<session, workerUp, owner, shell, table, reserving, pump,
                   closed, attached, quiet, audits, asking, opening, found, busy>>

\* ... and takes the chosen ones out under the lock of the registry, except what
\* another closer has taken out since.
StillListed(ts) == ts \cap table

SweepRemove ==
    /\ sweep = "scanned"
    /\ sweep' = "closing"
    /\ doomed' = [doomed EXCEPT ![Sweeper] = StillListed(@)]
    /\ Delist(doomed[Sweeper])
    /\ UNCHANGED <<session, workerUp, owner, shell, reserving, pump, closed,
                   attached, audits, asking, opening, found, busy>>

SweepDone ==
    /\ sweep = "closing" /\ doomed[Sweeper] = {} /\ busy[Sweeper] = None
    /\ sweep' = "idle"
    /\ UNCHANGED <<session, workerUp, owner, shell, table, reserving, pump,
                   closed, attached, quiet, audits, asking, opening, found, doomed, busy>>

-----------------------------------------------------------------------------
(* shutdown(term).                                                         *)

\* A slip: a closer that trusts the table.
ClaimAlways(a, t) ==
    /\ doomed' = [doomed EXCEPT ![a] = @ \ {t}]
    /\ closed' = closed \cup {t}
    /\ busy' = [busy EXCEPT ![a] = t]

\* A slip: one that gives up its list when it loses.
ClaimOrGiveUp(a, t) ==
    /\ doomed' = [doomed EXCEPT ![a] = IF t \in closed THEN {} ELSE @ \ {t}]
    /\ closed' = closed \cup {t}
    /\ busy' = [busy EXCEPT ![a] = IF t \in closed THEN None ELSE t]

\* A slip: one that aborts the pump although it may be the pump.
ClaimAbortingPump(a, t) ==
    /\ doomed' = [doomed EXCEPT ![a] = @ \ {t}]
    /\ closed' = closed \cup {t}
    /\ busy' = [busy EXCEPT ![a] = IF t \in closed \/ a = t THEN None ELSE t]

\* closed.swap(true) decides, and the loser goes on with its list.
Claim(a, t) ==
    /\ doomed' = [doomed EXCEPT ![a] = @ \ {t}]
    /\ closed' = closed \cup {t}
    /\ busy' = [busy EXCEPT ![a] = IF t \in closed THEN None ELSE t]

\* The winner tells the pump to stop, by a channel it no longer reads when it is the
\* closer itself, and sends term.close.
Shutdown(a, t) ==
    /\ t \in doomed[a] /\ busy[a] = None
    /\ a = Sweeper => sweep = "closing"
    /\ Claim(a, t)
    /\ UNCHANGED <<session, workerUp, owner, shell, table, reserving, pump, attached,
                   quiet, audits, asking, opening, found, sweep>>

\* The answer: the shell is gone, or the worker was gone before; a timeout says
\* nothing.  Then the attachment is told and removed and the observer is called.
ShutdownEnds(a) ==
    /\ busy[a] # None
    /\ LET t == busy[a] IN
       /\ \/ shell' = [shell EXCEPT ![t] = "exited"]
          \/ "timeout" \in Faults /\ UNCHANGED shell
       /\ attached' = attached \ {t}
       /\ audits' = [audits EXCEPT ![t] = @ + 1]
    /\ busy' = [busy EXCEPT ![a] = None]
    /\ UNCHANGED <<session, workerUp, owner, table, reserving, pump, closed,
                   quiet, asking, opening, found, doomed, sweep>>

-----------------------------------------------------------------------------
(* The session, the shell and the faults.                                  *)

\* What the end of a worker does to the shells and to the calls on their way.
ShellsWithout(s) ==
    [t \in Terms |-> IF owner[t] # s THEN shell[t]
                     ELSE IF shell[t] = "asked" THEN "none"
                     ELSE IF shell[t] = "running" THEN "exited" ELSE shell[t]]

\* teardown goes on: the worker is shut down.
TeardownWorker(s) ==
    /\ session[s] = "closing" /\ doomed[s] = {} /\ busy[s] = None
    /\ session' = [session EXCEPT ![s] = "gone"]
    /\ workerUp' = workerUp \ {s}
    /\ shell' = ShellsWithout(s)
    /\ UNCHANGED <<owner, table, reserving, pump, closed, attached, quiet,
                   audits, asking, opening, found, doomed, busy, sweep>>

ShellExits(t) ==
    /\ shell[t] = "running"
    /\ shell' = [shell EXCEPT ![t] = "exited"]
    /\ UNCHANGED <<session, workerUp, owner, table, reserving, pump, closed,
                   attached, quiet, audits, asking, opening, found, doomed, busy, sweep>>

WorkerCrashes(s) ==
    /\ "crash" \in Faults /\ s \in workerUp
    /\ workerUp' = workerUp \ {s}
    /\ shell' = ShellsWithout(s)
    /\ UNCHANGED <<session, owner, table, reserving, pump, closed, attached,
                   quiet, audits, asking, opening, found, doomed, busy, sweep>>

\* The future of a request is dropped at its await; a Reservation is given back.
Disconnect(r) ==
    /\ "disconnect" \in Faults /\ ~Free(r) /\ found[r] = None /\ doomed[r] = {}
    /\ reserving' = IF opening[r] # None THEN Release(owner[opening[r]]) ELSE reserving
    /\ asking' = [asking EXCEPT ![r] = None]
    /\ opening' = [opening EXCEPT ![r] = None]
    /\ busy' = [busy EXCEPT ![r] = None]
    /\ UNCHANGED <<session, workerUp, owner, shell, table, pump, closed,
                   attached, quiet, audits, found, doomed, sweep>>

\* So is the future of a logout request, in the middle of its teardown.
TeardownDropped(s) ==
    /\ "disconnect" \in Faults /\ busy[s] # None
    /\ session' = [session EXCEPT ![s] = "gone"]
    /\ doomed' = [doomed EXCEPT ![s] = {}]
    /\ busy' = [busy EXCEPT ![s] = None]
    /\ UNCHANGED <<workerUp, owner, shell, table, reserving, pump, closed,
                   attached, quiet, audits, asking, opening, found, sweep>>

-----------------------------------------------------------------------------
CloserStep(a) == ShutdownEnds(a) \/ \E t \in Terms : Shutdown(a, t)

OpenStep(r) == OpenOk(r) \/ OpenErr(r) \/ \E t \in Terms : Reserve(r, t)

PumpStep(t) == PumpEof(t) \/ PumpStops(t) \/ PumpFinish(t)

SweepStep == SweepScan \/ SweepRemove \/ SweepDone

Next ==
    \/ \E r \in Reqs : \/ \E s \in Sessions : OpenRequest(r, s)
                       \/ \E t \in Terms : Close(r, t)
                       \/ Finish(r) \/ OpenStep(r) \/ Disconnect(r)
    \/ \E a \in Closers : CloserStep(a)
    \/ \E t \in Terms : \/ WorkerOpens(t) \/ ShellExits(t) \/ PumpStep(t) \/ PumpFails(t)
                        \/ Attach(t) \/ Detach(t) \/ Output(t) \/ Quiet(t)
    \/ \E s \in Sessions : \/ CloseAllFor(s) \/ TeardownWorker(s)
                           \/ TeardownDropped(s) \/ WorkerCrashes(s)
    \/ SweepStep

Spec == Init /\ [][Next]_vars

\* Tasks are polled, every call to the worker ends in an answer or a timeout,
\* and a teardown that has begun goes on.  Nobody has to open, close, attach,
\* log out or leave a shell, no read has to fail and no sweep to find anything.
FairSpec ==
    /\ Spec
    /\ \A r \in Reqs : WF_vars(OpenStep(r)) /\ WF_vars(Finish(r))
    /\ \A a \in Closers : WF_vars(CloserStep(a))
    /\ \A t \in Terms : WF_vars(WorkerOpens(t)) /\ WF_vars(PumpStep(t))
    /\ \A s \in Sessions : WF_vars(TeardownWorker(s))
    /\ WF_vars(SweepStep)

-----------------------------------------------------------------------------
(* Safety.                                                                 *)

\* max_per_session counts the terminals of a session together with the opens
\* that wait for the worker, so concurrent opens do not pass the limit.
LimitHolds ==
    \A s \in Sessions : Cardinality(TermsOf(s)) + reserving[s] <= MaxPerSession

\* A place is taken by exactly the opens that are under way: an error, a
\* timeout and a dropped request all give it back, and give it back once.
PlacesAreAccounted ==
    \A s \in Sessions : reserving[s] = Cardinality(OpensOf(s))

\* Whatever closers meet over a terminal, one of them sends term.close and calls
\* the observer, and only after the terminal was marked closed.
OneCloser ==
    /\ \A a, b \in Closers : busy[a] # None /\ busy[a] = busy[b] => a = b
    /\ \A a \in Closers : busy[a] # None => busy[a] \in closed /\ audits[busy[a]] = 0
    /\ \A t \in Terms : audits[t] <= 1 /\ (audits[t] = 1 => t \in closed)

\* What the table lists can be used: it is not closed, no closer is about to
\* close it behind the user's back except a sweep that has only looked at it,
\* and its pump reads or has yet to take it out.
ListedIsOpen ==
    \A t \in table :
        /\ t \notin closed /\ pump[t] \in {"reading", "ending"}
        /\ \A a \in Closers : t \in doomed[a] => a = Sweeper /\ sweep = "scanned"

\* max_per_session holds, and a place is given back once, whatever an open meets.
PlacesHold == TypeOK /\ LimitHolds /\ PlacesAreAccounted

\* Of the closers that meet over a terminal one closes it, and what is listed can
\* be used.
ClosesAreOnce == OneCloser /\ ListedIsOpen

\* A running shell whose terminal has left the table is on some closer's list: no
\* interleaving of closers that contend for it lets go of it, although the ones
\* that lose strike it off.  (Without timeouts and dropped requests.)
NoStrayShell ==
    \A t \in Terms : shell[t] = "running" /\ pump[t] # "none" =>
        t \in table \/ \E a \in Closers : t \in doomed[a] \/ busy[a] = t

-----------------------------------------------------------------------------
(* The inductive invariant behind the safety properties that hold with all *)
(* faults.                                                                 *)

\* A terminal that an open has chosen is known to that open alone until commit.
OpeningIsFresh ==
    /\ \A r \in Reqs : opening[r] # None =>
         owner[opening[r]] # None /\ pump[opening[r]] = "none"
    /\ \A r, q \in Reqs : opening[r] # None /\ opening[r] = opening[q] => r = q

\* A terminal that was never committed is nowhere.
UncommittedIsUnknown ==
    /\ \A t \in Terms : pump[t] = "none" =>
         /\ t \notin closed /\ t \notin table
         /\ \A a \in Closers : t \notin doomed[a]
         /\ \A r \in Reqs : found[r] # t
    /\ \A t \in Terms : owner[t] = None => pump[t] = "none"

\* A request is at one point of open() at a time.
OneStage == \A r \in Reqs : asking[r] = None \/ opening[r] = None

IInv ==
    /\ TypeOK
    /\ LimitHolds /\ PlacesAreAccounted /\ OneCloser /\ ListedIsOpen
    /\ OpeningIsFresh /\ UncommittedIsUnknown /\ OneStage

-----------------------------------------------------------------------------
(* Liveness, under FairSpec.                                               *)

\* A terminal to be over with: it is closed, or listed although its shell or its
\* session is gone, also one whose open was under way when the terminals of its
\* session were closed.
Ending(t) ==
    \/ t \in closed
    \/ t \in table /\ (shell[t] = "exited" \/ session[owner[t]] = "gone")

\* Such a terminal leaves the list and its close is reported.  TerminalObserver:
\* "every close that is really executed calls back exactly once"; at most once is
\* OneCloser, at least once is this.
TerminalsEnd == \A t \in Terms : Ending(t) ~> (t \notin table /\ audits[t] = 1)

-----------------------------------------------------------------------------
(* What the comments say and the code does not do.                         *)

\* close_all_for: terminals are taken out of the table atomically, "otherwise a
\* concurrent POST /terminals would slip a new terminal in during the logout".
\* An open that awaits term.open meanwhile slips in all the same.
NoTerminalAfterLogout ==
    [][\A t \in table' \ table : session[owner[t]] = "live"]_vars
=============================================================================
