------------------------------ MODULE MCParts ------------------------------
(***************************************************************************)
(* Seven components that do not interact, side by side in one run: `part`    *)
(* says which of them a behaviour is about, the others stay as they were.  *)
(* Each has its own constants, its next-state relation unchanged and the   *)
(* fairness its module states.  Without symmetry: the run checks liveness. *)
(***************************************************************************)
EXTENDS TerminalAttach, FiniteSets

CONSTANTS
    Terms, Pids, Stranger, Faults,
    Requests, MaxRounds, SessionPrompts, Failures, MaxTrouble,
    MaxSock, Channels, Views, Mishaps, WireCap, MaxActs, MaxBad,
    Slots, Breaks,
    Followers, Filters, Children, LogCap, MaxBatch

\* None is nothing that a component names, queues and buffers hold something, and
\* there are as many channels as the page shows.
ASSUME PartsAssumption ==
    /\ None \notin Terms \cup Pids \cup Children \cup (1..MaxSock) /\ Stranger \notin Terms
    /\ None \notin {"graceful", "urgent"} /\ Faults \subseteq {"reuse", "late"}
    /\ MaxRounds \in Nat /\ MaxTrouble \in Nat
    /\ MaxSock \in Nat /\ IsFiniteSet(Channels)
    /\ LogCap \in Nat

VARIABLES
    part,
    proc, pid, opening, table, marked, reaper, linger, calls, taken, signalled,
    held, authed, step, stage, ready, toHelper, toMain, hpc, phase, opens, rounds,
    known, session, worker, link, killed, stray, trouble,
    wproc, wpid, wopening, wtable, wclosed, console, wseen, wreaper, wlinger, wcalls, wtaken,
    expired, missed,
    ws, locked, armed, orphans, confirming, listeners, confirmed, sock, up, down, served, ended,
    late, acts, bad,
    host, service, main, start, failed, kind, cut, asked, relay, shown, store, engine, workers,
    listening, conns, runtime, current, checkpoint, told, ctl, broken, unmet,
    follows, filter, child, reader, sent, lease, pos

Table  == INSTANCE TerminalTable WITH closed <- marked
Help   == INSTANCE Helper WITH pc <- step, Faults <- Failures
Cons   == INSTANCE ConsoleTable WITH
            Pids <- Slots, proc <- wproc, pid <- wpid, opening <- wopening, table <- wtable, closed <- wclosed,
            seen <- wseen, reaper <- wreaper, linger <- wlinger, calls <- wcalls, taken <- wtaken
Client == INSTANCE ControlClient WITH over <- ended
Host   == INSTANCE HostLife WITH pc <- main, stage <- start, killed <- unmet
Log    == INSTANCE LogFollow WITH Keys <- Filters, Cap <- LogCap, key <- filter, proc <- child

attach  == vars
tables  == <<proc, pid, opening, table, marked, reaper, linger, calls, taken, signalled>>
helpers == <<held, authed, step, stage, ready, toHelper, toMain, hpc, phase, opens, rounds,
             known, session, worker, link, killed, stray, trouble>>
consoles == <<wproc, wpid, wopening, wtable, wclosed, console, wseen, wreaper, wlinger, wcalls,
              wtaken, expired, missed>>
clients == <<ws, locked, armed, orphans, confirming, listeners, confirmed, sock, up, down, served,
             ended, late, acts, bad>>
hosts   == <<host, service, main, start, failed, kind, cut, asked, relay, shown, store, engine,
             workers, listening, conns, runtime, current, checkpoint, told, ctl, broken, unmet>>
logs    == <<follows, filter, child, reader, sent, lease, pos>>
all     == <<part, tables, attach, helpers, consoles, clients, hosts, logs>>

PartsInit ==
    /\ part \in {"table", "attach", "helper", "console", "client", "host", "log"}
    /\ Table!Init /\ Init /\ Help!Init
    /\ Cons!Init /\ Client!Init /\ Host!Init /\ Log!Init
    /\ part # "host" => host = "server" /\ ~service

PartsNext ==
    /\ UNCHANGED part
    /\ IF part = "table" THEN Table!Next ELSE UNCHANGED tables
    /\ IF part = "attach" THEN Next ELSE UNCHANGED attach
    /\ IF part = "helper" THEN Help!Next ELSE UNCHANGED helpers
    /\ IF part = "console" THEN Cons!Next ELSE UNCHANGED consoles
    /\ IF part = "client" THEN Client!Next ELSE UNCHANGED clients
    /\ IF part = "host" THEN Host!Next ELSE UNCHANGED hosts
    /\ IF part = "log" THEN Log!Next ELSE UNCHANGED logs

\* The fairness of the modules with liveness, for the behaviours that are about
\* them.
PartsFairness ==
    /\ \A t \in Terms :
        /\ WF_tables(part = "table" /\ Table!Insert(t)) /\ WF_tables(part = "table" /\ Table!Reap(t))
        /\ WF_tables(part = "table" /\ Table!Mark(t)) /\ WF_tables(part = "table" /\ Table!Linger(t))
        /\ WF_tables(part = "table" /\ Table!CloseStep(t))
    /\ WF_attach(part = "attach" /\ PumpStep) /\ WF_attach(part = "attach" /\ Stall)
    /\ WF_attach(part = "attach" /\ CloseEnds) /\ WF_attach(part = "attach" /\ ShellWritten)
    /\ \A c \in Clients : WF_attach(part = "attach" /\ LoopStep(c))
    /\ WF_helpers(part = "helper" /\ Help!HelperStep) /\ WF_helpers(part = "helper" /\ Help!Closing)
    /\ WF_helpers(part = "helper" /\ link = "shut" /\ Help!WorkerEnds)

    /\ \A t \in Terms :
        /\ WF_consoles(part = "console" /\ Cons!Insert(t))
        /\ WF_consoles(part = "console" /\ Cons!OutputEnds(t))
        /\ WF_consoles(part = "console" /\ Cons!ReapStep(t))
        /\ WF_consoles(part = "console" /\ Cons!Linger(t))
        /\ WF_consoles(part = "console" /\ Cons!CloseStep(t))
    /\ WF_clients(part = "client" /\ Client!Reconnect)
    /\ WF_clients(part = "client" /\ Client!Resend)
    /\ \A s \in Client!Socks :
        /\ WF_clients(part = "client" /\ Client!OnOpen(s))
        /\ WF_clients(part = "client" /\ Client!Closed(s))
        /\ WF_clients(part = "client" /\ Client!OnMessage(s))
        /\ SF_clients(part = "client" /\ Client!Serve(s))
    /\ WF_hosts(part = "host" /\ Host!Starts) /\ WF_hosts(part = "host" /\ Host!Control)
    /\ WF_hosts(part = "host" /\ Host!Relays) /\ WF_hosts(part = "host" /\ Host!Cleans)
    /\ WF_hosts(part = "host" /\ Host!Answered) /\ SF_hosts(part = "host" /\ Host!Stop)
    /\ \A c \in Children :
        /\ WF_logs(part = "log" /\ Log!ReaderEnds(c)) /\ WF_logs(part = "log" /\ Log!DropShared(c))
    /\ \A f \in Followers : WF_logs(part = "log" /\ Log!NextBatch(f))

PartsSpec == PartsInit /\ [][PartsNext]_all /\ PartsFairness

-----------------------------------------------------------------------------
(* The properties of the instances; each module says more about them.      *)

\* Pids that are used again mislead neither the reaper of a worker's terminals
\* nor a close, on Unix and on Windows; a process that stops writes what it has and
\* leaves nothing when it says so; a page has one connection, a filter of the log one child; every component keeps
\* its types.
PartsAreSound ==
    /\ Table!ReuseIsHarmless /\ Cons!ConsolesAreOwned
    /\ Host!HostStopsWell /\ Client!OneConnection /\ Log!OneChildPerFilter
    /\ TypeOK /\ Help!TypeOK /\ Client!TypeOK /\ Log!TypeOK

\* A shell that waits to write gets on, with or without a browser that reads, and
\* a closed terminal ends its clients; a page is served the channels it shows,
\* whatever was lost.
EverybodyIsServed == NobodyWaitsForEver /\ Client!ServerFollowsPage

\* Main process and helper stay in step, however many answers are sent at once, and
\* the signals of a shutdown find the worker, never a pid that is free again.
HelperIsInStep == Help!InStep /\ Help!SignalFindsWorker

\* Only a cancelled request, a timeout or a crash leaves a session of PAM open.
SessionIsClosed == Help!SessionIsClosed

\* A process that is asked to stop ends, and helper and worker end with the
\* connection, whatever PAM does; a child that follows the log ends with its last
\* follower.  Closed terminals leave the table, on Windows their end is seen first.
NothingIsLeft ==
    /\ Help!NothingIsLeft /\ Host!StopCompletes /\ Log!ChildEndsWithFollowers
    /\ Table!TableIsCleared /\ Cons!EndsAreSeen
=============================================================================
