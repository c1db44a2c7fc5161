------------------------------- MODULE Helper -------------------------------
(***************************************************************************)
(* One helper process and the main process: a dialog of PAM, the worker it *)
(* starts, and the session of PAM that it keeps until the end.  The helper *)
(* is one thread that reads one message at a time; the main process speaks *)
(* for whichever request has taken the connection, drops it when that      *)
(* request is cancelled, and thereby kills the helper (kill_on_drop).  The *)
(* worker it does not kill: that ends when its channel does, and once the  *)
(* WorkerHandle is connected its reading task keeps the channel, whoever   *)
(* drops the handle, until somebody calls shutdown or the process ends.    *)
(*                                                                         *)
(* Module SessionManager has what surrounds this: the maps and the store.  *)
(***************************************************************************)
EXTENDS Integers, Sequences, FiniteSets

CONSTANTS
    Requests,
    MaxRounds,      \* bound of the rounds of prompts
    SessionPrompts, \* pam_open_session asks something
    Faults,         \* of "crash", "stuck", "late", "die"
    MaxTrouble,     \* bound of the faults in the life of a helper
    None

VARIABLES
    \* the main process
    held,     \* the HelperConn: none, call, map (Pending), live, closing, gone
    authed,   \* Pending.authed
    pc,       \* of a request: idle, start, answer, spawn, fd, hello, insert, close
    stage,    \* of a shutdown: none, begun, grace, kill, drain, wait
    ready,    \* the first prompts went to the browser
    \* between the two
    toHelper, toMain,
    \* the helper
    hpc,      \* recv, pam, prompt, fork, hand, fd, bye, stuck, dead
    phase,    \* what PAM does: auth, session
    opens,    \* open_session: a login, not an elevation
    rounds,   \* rounds of prompts so far
    known,    \* it has an identity
    session,  \* the session of PAM: none, open, closed
    \* the worker
    worker,   \* none, running, zombie, gone
    link,     \* the end of its channel: none, helper, sent, main, reader, shut
    \* history
    killed,   \* why the helper was killed: no, cancel, expire, late, crash
    stray,    \* a signal for the worker found nobody, or somebody else
    trouble   \* faults so far

main   == <<held, authed, pc, stage, ready>>
wire   == <<toHelper, toMain>>
helper == <<hpc, phase, opens, rounds, known, session>>
child  == <<worker, link>>
past   == <<killed, stray, trouble>>
vars   == <<main, wire, helper, child, past>>

Init ==
    /\ held = "none" /\ authed = FALSE /\ stage = "none" /\ ready = FALSE
    /\ pc = [r \in Requests |-> "idle"]
    /\ toHelper = <<>> /\ toMain = <<>>
    /\ hpc = "dead" /\ phase = "auth" /\ opens = FALSE /\ rounds = 0 /\ known = FALSE /\ session = "none"
    /\ worker = "none" /\ link = "none"
    /\ killed = "no" /\ stray = FALSE /\ trouble = 0

Trouble(f) == f \in Faults /\ trouble < MaxTrouble /\ trouble' = trouble + 1

Ended(w) == IF w = "running" THEN "running" ELSE IF w = "zombie" THEN "gone" ELSE w

-----------------------------------------------------------------------------
(* The main process. *)

\* launch and AuthStart: with a helper of its own, so that nothing is left of
\* the one before.
Begin(r) ==
    /\ held \in {"none", "gone"} /\ hpc = "dead" /\ worker \in {"none", "gone"}
    /\ held' = "call" /\ authed' = FALSE /\ stage' = "none" /\ ready' = FALSE
    /\ pc' = [pc EXCEPT ![r] = "start"]
    /\ toHelper' = <<"start">> /\ toMain' = <<>>
    /\ hpc' = "recv" /\ phase' = "auth" /\ opens' \in BOOLEAN
    /\ rounds' = 0 /\ known' = FALSE /\ session' = "none"
    /\ worker' = "none" /\ link' = "none"
    /\ killed' = "no" /\ stray' = FALSE /\ trouble' = 0

\* The next message for a request, "eof" when the helper is gone.
Message == IF toMain # <<>> THEN Head(toMain) ELSE IF hpc = "dead" THEN "eof" ELSE "none"

Receive(r, at, m) ==
    /\ pc[r] = at /\ Message \in m
    /\ toMain' = IF toMain = <<>> THEN toMain ELSE Tail(toMain)

\* The end of the worker's channel is dropped with the call that has it, unless the
\* reading task has it.
Dropped(l) == IF l \in {"none", "reader"} THEN l ELSE "shut"

\* The drop of a HelperConn: kill_on_drop, and nobody is left to close a session.
Killed(why) ==
    /\ hpc' = "dead"
    /\ killed' = IF hpc = "dead" THEN killed ELSE why
    /\ worker' = Ended(worker)
    /\ link' = Dropped(link)

Drop(why) ==
    /\ held' = "gone"
    /\ Killed(why)
    /\ toMain' = <<>>

\* start_auth: the pending dialog enters the map.
Started(r) ==
    /\ Receive(r, "start", {"prompts", "authok"})
    /\ held' = "map"
    /\ authed' = (Message = "authok")
    /\ pc' = [pc EXCEPT ![r] = "idle"]
    /\ ready' = TRUE
    /\ UNCHANGED <<stage, toHelper, helper, child, past>>

StartFails(r) ==
    /\ pc[r] = "start" /\ Message \in {"authfail", "error", "eof"}
    /\ Drop("cancel")
    /\ pc' = [pc EXCEPT ![r] = "idle"]
    /\ UNCHANGED <<authed, stage, ready, toHelper, phase, opens, rounds, known, session, stray, trouble>>

\* A slip: the dialog stays in the map meanwhile.
LeftInMap == "map"

\* exchange takes the dialog out of the map before it speaks.
Taken == "call"

\* SpawnWorker is for a dialog of the right kind, whose session still exists and
\* whose rows could be written.
AskWorker(r) ==
    /\ toHelper' = Append(toHelper, "spawn")
    /\ pc' = [pc EXCEPT ![r] = "spawn"]

Respond(r) ==
    /\ held = "map" /\ pc[r] = "idle" /\ ready
    /\ held' = Taken
    /\ authed' = FALSE
    /\ IF authed THEN AskWorker(r)
       ELSE /\ toHelper' = Append(toHelper, "respond")
            /\ pc' = [pc EXCEPT ![r] = "answer"]
    /\ UNCHANGED <<stage, ready, toMain, helper, child, past>>

More(r) ==
    /\ Receive(r, "answer", {"prompts"})
    /\ held' = "map"
    /\ pc' = [pc EXCEPT ![r] = "idle"]
    /\ UNCHANGED <<authed, stage, ready, toHelper, helper, child, past>>

Authed(r) ==
    /\ Receive(r, "answer", {"authok"})
    /\ AskWorker(r)
    /\ UNCHANGED <<held, authed, stage, ready, helper, child, past>>

\* HelperConn::close: CloseSession, wait for its answer or the end, then for the
\* exit of the process.
Close ==
    /\ held' = "closing"
    /\ stage' = "drain"
    /\ toHelper' = IF hpc = "dead" THEN toHelper ELSE Append(toHelper, "close")

\* The error paths that close: refused, a dialog of the wrong kind, a session
\* that is gone, an answer out of turn, no worker.
Refused(r) ==
    /\ \/ Receive(r, "answer", {"authfail", "error", "authok", "spawned", "fd", "closed"})
       \/ Receive(r, "spawn", {"error", "prompts", "eof"})
       \/ Receive(r, "fd", {"eof"})
    /\ Close
    /\ pc' = [pc EXCEPT ![r] = "close"]
    /\ UNCHANGED <<authed, ready, helper, child, past>>

\* The helper ended in the middle of the dialog, or a row could not be written.
Lost(r) ==
    /\ pc[r] = "answer" /\ Message \in {"eof", "authok"}
    /\ Drop("cancel")
    /\ pc' = [pc EXCEPT ![r] = "idle"]
    /\ UNCHANGED <<authed, stage, ready, toHelper, phase, opens, rounds, known, session, stray, trouble>>

Spawned(r) ==
    /\ Receive(r, "spawn", {"spawned"})
    /\ pc' = [pc EXCEPT ![r] = "fd"]
    /\ UNCHANGED <<held, authed, stage, ready, toHelper, helper, child, past>>

TakeChannel(r) ==
    /\ Receive(r, "fd", {"fd"})
    /\ link' = "main"
    /\ pc' = [pc EXCEPT ![r] = "hello"]
    /\ UNCHANGED <<held, authed, stage, ready, toHelper, helper, worker, past>>

\* WorkerHandle::connect: the worker says Hello, and a task reads what it says.
Connected(r) ==
    /\ pc[r] = "hello" /\ worker # "none"
    /\ link' = "reader"
    /\ pc' = [pc EXCEPT ![r] = "insert"]
    /\ UNCHANGED <<held, authed, stage, ready, wire, helper, worker, past>>

\* The row of an elevation is marked, and the session or its elevation is there.
Complete(r) ==
    /\ pc[r] = "insert"
    /\ held' = "live"
    /\ pc' = [pc EXCEPT ![r] = "idle"]
    /\ UNCHANGED <<authed, stage, ready, wire, helper, child, past>>

\* The row could not be marked: helper and handle are dropped, the worker is not told.
NotMarked(r) ==
    /\ pc[r] = "insert" /\ ~opens
    /\ Drop("cancel")
    /\ pc' = [pc EXCEPT ![r] = "idle"]
    /\ UNCHANGED <<authed, stage, ready, toHelper, phase, opens, rounds, known, session, stray, trouble>>

\* It ended before, or says nothing for HELLO_TIMEOUT: its channel is dropped.
NoHello(r) ==
    /\ pc[r] = "hello"
    /\ (worker # "running" /\ UNCHANGED trouble) \/ Trouble("late")
    /\ link' = "shut"
    /\ Close
    /\ pc' = [pc EXCEPT ![r] = "close"]
    /\ UNCHANGED <<authed, ready, toMain, helper, worker, killed, stray>>

\* The future of a request is dropped at an await.
Cancel(r) ==
    /\ pc[r] # "idle"
    /\ Drop("cancel")
    /\ pc' = [pc EXCEPT ![r] = "idle"]
    /\ stage' = "none"
    /\ UNCHANGED <<authed, ready, toHelper, phase, opens, rounds, known, session, stray, trouble>>

\* pending_timeout: the sweeper, or an answer that comes too late.
Expire ==
    /\ held = "map"
    /\ Drop("expire")
    /\ UNCHANGED <<authed, pc, stage, ready, toHelper, phase, opens, rounds, known, session, stray, trouble>>

\* SessionManager::shutdown closes what is in the map.
ShutDownPending ==
    /\ held = "map"
    /\ Close
    /\ UNCHANGED <<authed, pc, ready, toMain, helper, child, past>>

\* teardown and teardown_admin: the terminals and the elevation of the session come
\* first, and the send of Shutdown may wait ...
Teardown ==
    /\ held = "live"
    /\ held' = "closing"
    /\ stage' = "begun"
    /\ UNCHANGED <<authed, pc, ready, wire, helper, child, past>>

\* ... then the worker is told, WorkerHandle::shutdown, and finds its channel shut.
TellWorker ==
    /\ stage = "begun"
    /\ stage' = "grace"
    /\ link' = "shut"
    /\ UNCHANGED <<held, authed, pc, ready, wire, helper, worker, past>>

\* The future of a logout, of the sweeper or of the shutdown is dropped in the middle
\* of it: nobody goes on.
TeardownDropped ==
    /\ held = "closing" /\ \A r \in Requests : pc[r] = "idle"
    /\ Drop("cancel")
    /\ stage' = "none"
    /\ UNCHANGED <<authed, pc, ready, toHelper, phase, opens, rounds, known, session, stray, trouble>>

WorkerClosed ==
    /\ stage = "grace" /\ worker # "running"
    /\ Close
    /\ UNCHANGED <<authed, pc, ready, toMain, helper, child, past>>

\* A slip: while the worker has its grace the helper is told to close already.
GraceOverClosing ==
    /\ stage = "grace" /\ worker = "running"
    /\ stage' = "kill"
    /\ toHelper' = Append(toHelper, "close")
    /\ UNCHANGED <<held, authed, pc, ready, toMain, helper, child, past>>

\* SHUTDOWN_GRACE is over and the channel still open.
GraceOver ==
    /\ stage = "grace" /\ worker = "running"
    /\ stage' = "kill"
    /\ UNCHANGED <<held, authed, pc, ready, wire, helper, child, past>>

\* SIGTERM and at once SIGKILL, by pid.
Signal ==
    /\ stage = "kill"
    /\ worker' = IF worker # "running" THEN worker ELSE IF hpc = "dead" THEN "gone" ELSE "zombie"
    /\ stray' = (stray \/ worker = "gone")
    /\ Close
    /\ UNCHANGED <<authed, pc, ready, toMain, helper, link, killed, trouble>>

\* A slip: the connection is dropped as soon as CloseSession is sent.
CloseByDrop ==
    /\ stage = "drain"
    /\ stage' = "none"
    /\ Drop("expire")
    /\ pc' = [r \in Requests |-> "idle"]
    /\ UNCHANGED <<authed, ready, toHelper, phase, opens, rounds, known, session, stray, trouble>>

Drained ==
    /\ stage = "drain" /\ Message # "none"
    /\ stage' = IF Message \in {"closed", "eof"} THEN "wait" ELSE "drain"
    /\ toMain' = IF toMain = <<>> THEN toMain ELSE Tail(toMain)
    /\ UNCHANGED <<held, authed, pc, ready, toHelper, helper, child, past>>

\* The helper does not read, or takes CloseSession for something else.
Deaf == hpc \in {"stuck", "prompt"} \/ (hpc = "recv" /\ toHelper = <<>>)

CloseTimeout ==
    /\ stage = "drain" /\ Message = "none"
    /\ (Deaf /\ UNCHANGED trouble) \/ Trouble("late")
    /\ stage' = "wait"
    /\ UNCHANGED <<held, authed, pc, ready, wire, helper, child, killed, stray>>

Exited ==
    /\ stage = "wait" /\ hpc = "dead"
    /\ stage' = "none" /\ held' = "gone"
    /\ pc' = [r \in Requests |-> "idle"]
    /\ link' = IF link = "none" THEN "none" ELSE "shut"
    /\ toMain' = <<>>
    /\ UNCHANGED <<authed, ready, toHelper, helper, worker, past>>

\* CLOSE_TIMEOUT again: killed.
ExitTimeout ==
    /\ stage = "wait" /\ hpc # "dead"
    /\ (Deaf /\ UNCHANGED trouble) \/ Trouble("late")
    /\ stage' = "none"
    /\ Drop("late")
    /\ pc' = [r \in Requests |-> "idle"]
    /\ UNCHANGED <<authed, ready, toHelper, phase, opens, rounds, known, session, stray>>

\* The main process itself ends: nothing of it runs, its ends are closed.
Die ==
    /\ held \notin {"none", "gone"} \/ link = "reader"
    /\ Trouble("die")
    /\ held' = "gone" /\ stage' = "none" /\ toMain' = <<>>
    /\ pc' = [r \in Requests |-> "idle"]
    /\ link' = IF link \in {"none", "helper"} THEN link ELSE "shut"
    /\ UNCHANGED <<authed, ready, toHelper, helper, worker, killed, stray>>

-----------------------------------------------------------------------------
(* The helper. *)

\* What it reads next: "eof" when the main process has closed its end.
Order == IF toHelper # <<>> THEN Head(toHelper) ELSE IF held = "gone" THEN "eof" ELSE "none"

Read(at) ==
    /\ hpc = at /\ Order # "none"
    /\ toHelper' = IF toHelper = <<>> THEN toHelper ELSE Tail(toHelper)

\* Nothing can be sent to a main process that is gone.
Send(m) == toMain' = IF held = "gone" THEN toMain ELSE Append(toMain, m)

\* The head of the loop reaps; every reply leads back there.
Loop == hpc' = "recv" /\ worker' = Ended(worker)

Reply(m) ==
    /\ Send(m)
    /\ IF held = "gone" THEN hpc' = "bye" /\ UNCHANGED worker ELSE Loop

AuthStart ==
    /\ Read("recv") /\ Order = "start" /\ ~known
    /\ hpc' = "pam" /\ phase' = "auth"
    /\ UNCHANGED <<main, toMain, opens, rounds, known, session, child, past>>

\* What comes out of turn is answered with Error, and so is SpawnWorker without
\* an identity or for who may not elevate.
Refuse ==
    /\ Read("recv")
    /\ \/ Order = "respond"
       \/ Order = "start" /\ known
       \/ Order = "spawn" /\ (~known \/ ~opens)
    /\ Reply("error")
    /\ UNCHANGED <<main, phase, opens, rounds, known, session, link, past>>

\* The session of PAM comes first, unless there is one.
SpawnWorker ==
    /\ Read("recv") /\ Order = "spawn" /\ known
    /\ IF opens /\ session = "none" THEN hpc' = "pam" /\ phase' = "session"
       ELSE hpc' = "fork" /\ UNCHANGED phase
    /\ UNCHANGED <<main, toMain, opens, rounds, known, session, child, past>>

CloseSession ==
    /\ Read("recv") /\ Order \in {"close", "eof"}
    /\ IF Order = "close" THEN Send("closed") ELSE UNCHANGED toMain
    /\ hpc' = "bye"
    /\ UNCHANGED <<main, phase, opens, rounds, known, session, child, past>>

\* conversation: a round of prompts, in the middle of a call of PAM.
Prompt ==
    /\ hpc = "pam" /\ rounds < MaxRounds
    /\ phase = "auth" \/ SessionPrompts
    /\ rounds' = rounds + 1
    /\ Send("prompts")
    /\ hpc' = "prompt"
    /\ UNCHANGED <<main, toHelper, phase, opens, known, session, child, past>>

Answered ==
    /\ Read("prompt") /\ Order = "respond"
    /\ hpc' = "pam"
    /\ UNCHANGED <<main, toMain, phase, opens, rounds, known, session, child, past>>

\* Anything else ends the call of PAM: with it the helper, or just the attempt
\* to open a session.
Interrupted ==
    /\ Read("prompt") /\ Order # "respond"
    /\ hpc' = IF phase = "auth" THEN "bye" ELSE "fork"
    /\ UNCHANGED <<main, toMain, phase, opens, rounds, known, session, child, past>>

AuthOk ==
    /\ hpc = "pam" /\ phase = "auth"
    /\ known' = TRUE
    /\ Reply("authok")
    /\ UNCHANGED <<main, toHelper, phase, opens, rounds, session, link, past>>

AuthFail ==
    /\ hpc = "pam" /\ phase = "auth"
    /\ Send("authfail")
    /\ hpc' = "bye"
    /\ UNCHANGED <<main, toHelper, phase, opens, rounds, known, session, child, past>>

\* A worker without a session is better than none.
SessionOpened ==
    /\ hpc = "pam" /\ phase = "session"
    /\ session' \in {"open", "none"}
    /\ hpc' = "fork"
    /\ UNCHANGED <<main, wire, phase, opens, rounds, known, child, past>>

Fork ==
    /\ hpc = "fork"
    /\ worker' = "running" /\ link' = "helper"
    /\ hpc' = "hand"
    /\ UNCHANGED <<main, wire, phase, opens, rounds, known, session, past>>

ForkFails ==
    /\ hpc = "fork"
    /\ Reply("error")
    /\ UNCHANGED <<main, toHelper, phase, opens, rounds, known, session, link, past>>

Report ==
    /\ hpc = "hand"
    /\ Send("spawned")
    /\ hpc' = IF held = "gone" THEN "bye" ELSE "fd"
    /\ UNCHANGED <<main, toHelper, phase, opens, rounds, known, session, child, past>>

\* The end of the channel goes to the main process, the helper keeps none.
HandOver ==
    /\ hpc = "fd"
    /\ Reply("fd")
    /\ link' = IF held = "gone" THEN "shut" ELSE "sent"
    /\ UNCHANGED <<main, toHelper, phase, opens, rounds, known, session, past>>

\* shutdown: the worker has a second, the session is closed, the process ends.
Bye ==
    /\ hpc = "bye"
    /\ session' = IF session = "open" THEN "closed" ELSE session
    /\ hpc' = "dead"
    /\ worker' = Ended(worker)
    /\ link' = IF link = "helper" THEN "shut" ELSE link
    /\ UNCHANGED <<main, wire, phase, opens, rounds, known, past>>

\* A module of PAM does not return.
Stuck ==
    /\ hpc \in {"pam", "bye"} /\ Trouble("stuck")
    /\ hpc' = "stuck"
    /\ UNCHANGED <<main, wire, phase, opens, rounds, known, session, child, killed, stray>>

\* The helper is killed by somebody else.
Crash ==
    /\ hpc # "dead" /\ Trouble("crash")
    /\ hpc' = "dead" /\ killed' = "crash"
    /\ worker' = Ended(worker)
    /\ link' = IF link = "helper" THEN "shut" ELSE link
    /\ UNCHANGED <<main, wire, phase, opens, rounds, known, session, stray>>

-----------------------------------------------------------------------------
(* The worker. *)

\* The end of its channel, Shutdown, or an end of its own.
WorkerEnds ==
    /\ worker = "running"
    /\ worker' = IF hpc = "dead" THEN "gone" ELSE "zombie"
    /\ UNCHANGED <<main, wire, helper, link, past>>

-----------------------------------------------------------------------------
Speaks(r) ==
    \/ Started(r) \/ StartFails(r) \/ More(r) \/ Authed(r) \/ Refused(r) \/ Lost(r)
    \/ Spawned(r) \/ TakeChannel(r) \/ Connected(r) \/ NoHello(r) \/ Complete(r) \/ NotMarked(r)

Closing ==
    TellWorker \/ WorkerClosed \/ GraceOver \/ Signal \/ Drained \/ CloseTimeout \/ Exited \/ ExitTimeout

HelperStep ==
    \/ AuthStart \/ Refuse \/ SpawnWorker \/ CloseSession
    \/ Prompt \/ Answered \/ Interrupted \/ AuthOk \/ AuthFail \/ SessionOpened
    \/ Fork \/ ForkFails \/ Report \/ HandOver \/ Bye

Next ==
    \/ \E r \in Requests : Begin(r) \/ Respond(r) \/ Speaks(r) \/ Cancel(r)
    \/ Expire \/ ShutDownPending \/ Teardown \/ TeardownDropped \/ Closing \/ Die
    \/ HelperStep \/ Stuck \/ Crash
    \/ WorkerEnds

Spec == Init /\ [][Next]_vars

\* The helper runs unless PAM keeps it, a worker ends when its channel does, and
\* the tasks of the main process go on.
Fairness ==
    /\ WF_vars(HelperStep)
    /\ WF_vars(link = "shut" /\ WorkerEnds)
    /\ WF_vars(Closing)

FairSpec == Spec /\ Fairness

-----------------------------------------------------------------------------
TypeOK ==
    /\ held \in {"none", "call", "map", "live", "closing", "gone"}
    /\ authed \in BOOLEAN /\ ready \in BOOLEAN /\ known \in BOOLEAN /\ stray \in BOOLEAN
    /\ pc \in [Requests -> {"idle", "start", "answer", "spawn", "fd", "hello", "insert", "close"}]
    /\ stage \in {"none", "begun", "grace", "kill", "drain", "wait"}
    /\ toHelper \in Seq({"start", "respond", "spawn", "close"})
    /\ toMain \in Seq({"prompts", "authok", "authfail", "error", "spawned", "fd", "closed"})
    /\ hpc \in {"recv", "pam", "prompt", "fork", "hand", "fd", "bye", "stuck", "dead"}
    /\ phase \in {"auth", "session"} /\ opens \in BOOLEAN /\ rounds \in 0..MaxRounds
    /\ session \in {"none", "open", "closed"}
    /\ worker \in {"none", "running", "zombie", "gone"}
    /\ link \in {"none", "helper", "sent", "main", "reader", "shut"}
    /\ killed \in {"no", "cancel", "expire", "late", "crash"}
    /\ trouble \in 0..MaxTrouble

\* The two sides stay in step: an answer meets the prompts it answers, SpawnWorker
\* a helper that knows who it is, and every reply is one that its reader expects,
\* however many answers the browser sends at once.  (Without SessionPrompts.)
InStep ==
    /\ hpc = "prompt" => Order \in {"none", "respond", "close", "eof"}
    /\ hpc = "recv" => Order # "respond" /\ (Order = "spawn" => known) /\ (Order = "start" => ~known)
    /\ \A r \in Requests :
        /\ pc[r] = "answer" => Message \in {"none", "prompts", "authok", "authfail", "eof"}
        /\ pc[r] = "spawn" => Message \in {"none", "spawned", "error", "eof"}
        /\ pc[r] = "fd" => Message \in {"none", "fd", "eof"}

\* Only a request that is cancelled, a timeout or a crash leaves a session of PAM
\* open without its helper.
SessionIsClosed == hpc = "dead" /\ session = "open" => killed \in {"cancel", "late", "crash"}

\* The signals of WorkerHandle::shutdown find the worker, alive or not yet reaped,
\* never a pid that is free again, unless the helper crashed.
SignalFindsWorker == stray => killed = "crash"

\* A worker that runs, is connected and has no owner who could shut it down: its request
\* was cancelled, or the database failed, after WorkerHandle::connect, or its teardown was
\* dropped before it was told.
Abandoned == link = "reader" /\ killed \in {"cancel", "crash"}

\* When the connection is gone the helper ends, also when PAM does not return or the
\* request was cancelled at any point of a login or of a teardown, and so does the worker,
\* except one that is abandoned: that one has until the main process ends.
NothingIsLeft ==
    held = "gone" ~> held = "gone" /\ hpc = "dead" /\ (worker \in {"none", "gone"} \/ Abandoned)

-----------------------------------------------------------------------------
(* What the comments say and the code does not do.                         *)

\* main.rs 24: CloseSession or the end of the channel closes the session.
ChannelEndClosesSession == (held = "gone" /\ trouble = 0) ~> session # "open"
=============================================================================
