------------------------------ MODULE HostLife ------------------------------
(***************************************************************************)
(* One run of the process, from its first stage to its end.  The main      *)
(* thread starts the parts of a host stage by stage, serves, and stops     *)
(* them in the way the request asks for.  As a Windows service it is the   *)
(* dispatch thread, which tells the service control manager (SCM) of every *)
(* stage; the SCM calls the control thread with requests, and only while   *)
(* it was last told that the service runs.                                 *)
(*                                                                         *)
(* A server has sessions, workers and a socket; an agent has a connection  *)
(* to its server instead.  An agent hears of a stop in its select! only.   *)
(***************************************************************************)
EXTENDS Naturals, Sequences

CONSTANTS
    Breaks,     \* what may stop answering: of "db", "worker", "peer"
    None

Kinds == {"graceful", "urgent"}

\* The stages of the two kinds of host.
Stages ==
    [server |-> <<"prepare", "store", "sessions", "engine", "probe", "bind">>,
     agent  |-> <<"prepare", "store", "engine", "probe">>]

VARIABLES
    host,       \* server or agent
    service,    \* run by the SCM
    pc,         \* of the main thread
    stage,      \* the number of the stage it is in
    failed,     \* the result it will return is an error
    kind,       \* the way of its stop, once it knows
    cut,        \* the waits it gave up: of "drain", "cleanup"
    asked,      \* the request, in the watch channel or as a signal
    relay,      \* of the task that waits for it: none, wait, stored, sent
    shown,      \* what that task left for the main thread
    store, engine, listening, conns, runtime,
    workers,    \* "live": of sessions, "torn": of one that the sweeper has removed
    current, checkpoint,    \* ServiceControl
    told,       \* what the SCM knows
    ctl,        \* of the control thread
    broken,     \* what has stopped answering
    killed      \* a signal met no handler yet

fixed == <<host, service>>
life  == <<pc, stage, failed, kind, cut>>
req   == <<asked, relay, shown>>
parts == <<store, engine, workers, listening, conns, runtime>>
scm   == <<current, checkpoint, told>>
vars  == <<fixed, life, req, parts, scm, ctl, broken, killed>>

Status(state, n) == [state |-> state, checkpoint |-> n]
Idle == [do |-> "idle", with |-> None]

Init ==
    /\ host \in DOMAIN Stages
    /\ service \in BOOLEAN
    /\ pc = "stages" /\ stage = 1 /\ failed = FALSE /\ kind = None /\ cut = {}
    /\ asked = None /\ relay = "none" /\ shown = None
    /\ store = "none" /\ engine = "none" /\ workers = {}
    /\ listening = FALSE /\ conns = FALSE /\ runtime = "none"
    /\ current = "start" /\ checkpoint = 0 /\ told = Status("none", 0)
    /\ ctl = Idle
    /\ broken = {} /\ killed = FALSE

-----------------------------------------------------------------------------
(* Reports to the SCM. *)

Report(state, n) ==
    IF service
    THEN checkpoint' = n /\ current' = state /\ told' = Status(state, n)
    ELSE UNCHANGED scm

\* advance and running of the dispatch thread: no request comes before the latter.
Advance == Report("start", checkpoint + 1)
Running == Report("running", 0)

-----------------------------------------------------------------------------
(* The stages of the start. *)

Works(x) == x \notin broken
InStage(name) == pc = "stages" /\ stage <= Len(Stages[host]) /\ Stages[host][stage] = name

Stage(name) ==
    /\ InStage(name)
    /\ name = "store" => Works("db")
    /\ stage' = stage + 1
    /\ Advance
    /\ runtime' = IF name = "prepare" THEN "up" ELSE runtime
    /\ store' = IF name = "store" THEN "open" ELSE store
    /\ engine' = IF name = "engine" THEN "on" ELSE engine
    /\ listening' = (listening \/ name = "bind")
    /\ UNCHANGED <<fixed, pc, failed, kind, cut, req, workers, conns, ctl, broken, killed>>

\* The port is taken: the host that has been started is stopped first.
BindFails ==
    /\ InStage("bind")
    /\ failed' = TRUE /\ kind' = "graceful" /\ pc' = "flush"
    /\ UNCHANGED <<fixed, stage, cut, req, parts, scm, ctl, broken, killed>>

\* Any other stage: the error is returned, whatever is open.
StageFails(name) ==
    /\ name \in {"prepare", "store", "sessions"} /\ InStage(name)
    /\ failed' = TRUE /\ pc' = "release"
    /\ UNCHANGED <<fixed, stage, kind, cut, req, parts, scm, ctl, broken, killed>>

\* ready(): requests are served, and the request to stop is waited for.
Ready ==
    /\ pc = "stages" /\ stage > Len(Stages[host])
    /\ pc' = "serve" /\ relay' = "wait"
    /\ Running
    /\ UNCHANGED <<fixed, stage, failed, kind, cut, asked, shown, parts, ctl, broken, killed>>

-----------------------------------------------------------------------------
(* While it serves. *)

Connect ==
    /\ listening /\ ~conns
    /\ conns' = TRUE
    /\ UNCHANGED <<fixed, life, req, store, engine, workers, listening, runtime, scm, ctl, broken, killed>>

Disconnect ==
    /\ conns /\ runtime = "up"
    /\ conns' = FALSE
    /\ UNCHANGED <<fixed, life, req, store, engine, workers, listening, runtime, scm, ctl, broken, killed>>

\* A request makes a worker, also while the host is being stopped.
LogIn ==
    /\ conns /\ runtime = "up" /\ store = "open" /\ "live" \notin workers
    /\ workers' = workers \cup {"live"}
    /\ UNCHANGED <<fixed, life, req, store, engine, listening, conns, runtime, scm, ctl, broken, killed>>

\* The sweeper ends an idle session: out of the map first, then its worker.  The stop
\* aborts it, wherever it is.
Sweep ==
    /\ pc \in {"serve", "drain"}
    /\ \/ "live" \in workers /\ "torn" \notin workers /\ workers' = (workers \ {"live"}) \cup {"torn"}
       \/ "torn" \in workers /\ Works("worker") /\ workers' = workers \ {"torn"}
    /\ UNCHANGED <<fixed, life, req, store, engine, listening, conns, runtime, scm, ctl, broken, killed>>

\* An agent dials, waits for agent.resume or sends: outside of its select!.
Await ==
    /\ pc = "serve" /\ host = "agent"
    /\ pc' = "await"
    /\ UNCHANGED <<fixed, stage, failed, kind, cut, req, parts, scm, ctl, broken, killed>>

Answered ==
    /\ pc = "await" /\ Works("peer")
    /\ pc' = "serve"
    /\ UNCHANGED <<fixed, stage, failed, kind, cut, req, parts, scm, ctl, broken, killed>>

-----------------------------------------------------------------------------
(* Requests to stop. *)

\* A signal or a console event; before the future is polled it ends the process.
Signal(k) ==
    /\ ~service /\ asked = None /\ pc \in {"stages", "serve", "await"}
    /\ IF relay = "none"
       THEN pc' = "ended" /\ killed' = TRUE /\ UNCHANGED asked
       ELSE asked' = k /\ UNCHANGED <<pc, killed>>
    /\ UNCHANGED <<fixed, stage, failed, kind, cut, relay, shown, parts, scm, ctl, broken>>

Accepts == service /\ ctl = Idle /\ told.state = "running"

ControlStop(k) ==
    /\ Accepts
    /\ ctl' = [do |-> "advance", with |-> k]
    /\ UNCHANGED <<fixed, life, req, parts, scm, broken, killed>>

Interrogate ==
    /\ Accepts
    /\ ctl' = [do |-> "repeat", with |-> current]
    /\ UNCHANGED <<fixed, life, req, parts, scm, broken, killed>>

\* request(): STOP_PENDING is told, then the watch channel gets the kind;
\* repeat(): the state that was read is told again.
ControlSteps ==
    \/ /\ ctl.do = "advance"
       /\ Report("stop", checkpoint + 1)
       /\ ctl' = [ctl EXCEPT !.do = "send"]
       /\ UNCHANGED asked
    \/ /\ ctl.do = "send"
       /\ asked' = ctl.with
       /\ ctl' = Idle
       /\ UNCHANGED scm
    \/ /\ ctl.do = "repeat"
       /\ Report(ctl.with, checkpoint)
       /\ ctl' = Idle
       /\ UNCHANGED asked

Control == ControlSteps /\ UNCHANGED <<fixed, life, relay, shown, parts, broken, killed>>

\* The task that waits for the request leaves the kind, and then wakes the main
\* thread.
RelayStores ==
    /\ relay = "wait" /\ asked # None
    /\ shown' = asked /\ relay' = "stored"
    /\ UNCHANGED <<fixed, life, asked, parts, scm, ctl, broken, killed>>

RelayWakes ==
    /\ relay = "stored"
    /\ relay' = "sent"
    /\ UNCHANGED <<fixed, life, asked, shown, parts, scm, ctl, broken, killed>>

-----------------------------------------------------------------------------
(* The stop. *)

\* The main thread is woken in its select!; the socket no longer accepts.  (axum::serve
\* does not return before.)
Stop ==
    /\ pc = "serve" /\ relay = "sent"
    /\ kind' = IF shown = "urgent" THEN "urgent" ELSE "graceful"
    /\ pc' = IF host = "server" THEN "drain" ELSE "flush"
    /\ listening' = FALSE
    /\ UNCHANGED <<fixed, stage, failed, cut, req, store, engine, workers, conns, runtime, scm, ctl, broken, killed>>

\* Connections end, or are no longer waited for.
Drain ==
    /\ pc = "drain"
    /\ pc' = "flush"
    /\ cut' = IF conns THEN {"drain"} ELSE {}
    /\ UNCHANGED <<fixed, stage, failed, kind, req, parts, scm, ctl, broken, killed>>

\* engine.stop(): the running minute is written.
Flush ==
    /\ pc = "flush" /\ Works("db")
    /\ engine' = "flushed"
    /\ pc' = IF host = "server" /\ kind = "graceful" THEN "workers" ELSE "close"
    /\ UNCHANGED <<fixed, stage, failed, kind, cut, req, store, workers, listening, conns, runtime, scm, ctl, broken, killed>>

\* sessions.shutdown(), in the graceful stop of a server: what is in the map.
EndWorkers ==
    /\ pc = "workers" /\ Works("worker")
    /\ workers' = workers \ {"live"}
    /\ pc' = "close"
    /\ UNCHANGED <<fixed, stage, failed, kind, cut, req, store, engine, listening, conns, runtime, scm, ctl, broken, killed>>

CloseStore ==
    /\ pc = "close" /\ Works("db")
    /\ store' = "closed"
    /\ pc' = "release"
    /\ UNCHANGED <<fixed, stage, failed, kind, cut, req, engine, workers, listening, conns, runtime, scm, ctl, broken, killed>>

\* A slip: the limit is that of the flush alone.
FlushTimeout ==
    /\ kind = "urgent" /\ pc = "flush"
    /\ cut' = cut \cup {"cleanup"}
    /\ pc' = "close"
    /\ UNCHANGED <<fixed, stage, failed, kind, req, parts, scm, ctl, broken, killed>>

\* URGENT_CLEANUP is over.
CleanupTimeout ==
    /\ kind = "urgent" /\ pc \in {"flush", "close"}
    /\ cut' = cut \cup {"cleanup"}
    /\ pc' = "release"
    /\ UNCHANGED <<fixed, stage, failed, kind, req, parts, scm, ctl, broken, killed>>

\* The runtime ends, with every task on it.
Release ==
    /\ pc = "release"
    /\ runtime' = "down" /\ listening' = FALSE /\ conns' = FALSE
    /\ pc' = IF service THEN "stopped" ELSE "ended"
    /\ UNCHANGED <<fixed, stage, failed, kind, cut, req, store, engine, workers, scm, ctl, broken, killed>>

\* stopped(): after the runtime, since the SCM may start the next process.
Stopped ==
    /\ pc = "stopped"
    /\ Report("stopped", 0)
    /\ pc' = "ended"
    /\ UNCHANGED <<fixed, stage, failed, kind, cut, req, parts, ctl, broken, killed>>

Break(x) ==
    /\ x \notin broken
    /\ broken' = broken \cup {x}
    /\ UNCHANGED <<fixed, life, req, parts, scm, ctl, killed>>

-----------------------------------------------------------------------------
StageNames == {"prepare", "store", "sessions", "engine", "probe", "bind"}

Starts == Ready \/ BindFails \/ \E name \in StageNames : Stage(name) \/ StageFails(name)
Cleans ==
    Drain \/ Flush \/ EndWorkers \/ CloseStore \/ CleanupTimeout \/ Release \/ Stopped
Relays == RelayStores \/ RelayWakes

Next ==
    \/ Starts
    \/ Connect \/ Disconnect \/ LogIn \/ Sweep
    \/ Await \/ Answered
    \/ Interrogate \/ \E k \in Kinds : Signal(k) \/ ControlStop(k)
    \/ Control
    \/ Relays
    \/ Stop
    \/ Cleans
    \/ \E x \in Breaks : Break(x)
    \/ (pc = "ended" \/ broken # {}) /\ UNCHANGED vars

Spec == Init /\ [][Next]_vars

\* Threads run and timers fire; a select! does not pass over the stop for ever.
\* What is broken answers nothing.
Fairness ==
    /\ WF_vars(Starts) /\ WF_vars(Control) /\ WF_vars(Relays) /\ WF_vars(Cleans)
    /\ WF_vars(Answered) /\ SF_vars(Stop)

FairSpec == Spec /\ Fairness

-----------------------------------------------------------------------------
TypeOK ==
    /\ host \in DOMAIN Stages /\ service \in BOOLEAN
    /\ pc \in {"stages", "serve", "await", "drain", "flush", "workers", "close", "release", "stopped", "ended"}
    /\ stage \in 1..7 /\ failed \in BOOLEAN
    /\ kind \in Kinds \cup {None} /\ cut \subseteq {"drain", "cleanup"}
    /\ asked \in Kinds \cup {None} /\ shown \in Kinds \cup {None}
    /\ relay \in {"none", "wait", "stored", "sent"}
    /\ store \in {"none", "open", "closed"} /\ engine \in {"none", "on", "flushed"}
    /\ workers \subseteq {"live", "torn"} /\ {listening, conns, killed} \subseteq BOOLEAN
    /\ runtime \in {"none", "up", "down"}
    /\ checkpoint \in Nat /\ told.checkpoint \in Nat
    /\ {current, told.state} \subseteq {"none", "start", "running", "stop", "stopped"}
    /\ ctl.do \in {"idle", "advance", "send", "repeat"}
    /\ broken \subseteq Breaks

\* The SCM may start the next process once it is told of the end: nothing of this
\* one is left then, and that is the last it is told.
LastWordIsTrue ==
    /\ told.state = "stopped" => pc = "ended" /\ runtime = "down" /\ ~listening /\ ~conns
    /\ service /\ pc = "ended" => told.state = "stopped"

\* The minute that runs is written before the database closes, and a host that was
\* started and stops, also for want of its port, closes it unless an urgent stop
\* gives up; a graceful one whose connections ended leaves no worker, but for one whose
\* teardown by the sweeper it has cut off.
StopIsOrderly ==
    /\ store = "closed" => engine = "flushed"
    /\ pc = "ended" /\ (kind # None \/ engine # "none") =>
        killed \/ store = "closed" \/ "cleanup" \in cut
    /\ pc = "ended" /\ kind = "graceful" /\ cut = {} => "live" \notin workers

\* An urgent request is never carried out as a graceful one, nor the reverse.
KindIsKept == kind # None /\ ~failed => kind = asked

HostStopsWell == TypeOK /\ LastWordIsTrue /\ StopIsOrderly /\ KindIsKept

\* A request ends the process: an urgent one with a database and workers that do
\* not answer and connections that stay, a graceful one with such connections.
StopCompletes ==
    asked # None
        ~> (pc = "ended" \/ "peer" \in broken \/ (asked = "graceful" /\ broken # {}))

\* The comments on run and URGENT_CLEANUP: a host that is asked to stop at once
\* does, whatever does not answer.
UrgentMeansNow == asked = "urgent" ~> pc = "ended"
=============================================================================
