--------------------------- MODULE ServiceEvents ---------------------------
(***************************************************************************)
(* The events of systemd units (SystemdBus, one scope): a listener exists  *)
(* while somebody subscribes, and retires when nobody does.  Signals and   *)
(* replies reach this process over one connection, read by one task that   *)
(* waits when the bounded queue of a stream is full; whoever awaits a      *)
(* reply while nobody empties that queue waits until the timeout.  The     *)
(* listener therefore only marks units, and a task of its own fetches      *)
(* their state and broadcasts it.                                          *)
(*                                                                         *)
(* A unit is known by its version.  A listener task is named after the     *)
(* subscriber that spawned it.                                             *)
(***************************************************************************)
EXTENDS Integers, Sequences, FiniteSets

CONSTANTS
    Subscribers,
    Units,
    NStreams,   \* signal streams of a listener; the last one has every change
    QueueCap,   \* signals a stream holds
    MaxVer,     \* bound of the changes of a unit
    MaxTrouble, \* bound of the faults
    None,
    Faults      \* of "slow", "cut", "panic"

ASSUME ConstantsAssumption ==
    /\ {NStreams, QueueCap} \subseteq Nat \ {0}
    /\ {MaxVer, MaxTrouble} \subseteq Nat
    /\ None \notin Subscribers \cup Units

Kinds   == 1..NStreams
Callers == {"listener", "flusher"}

VARIABLES
    ver,        \* of a unit, at systemd
    up,         \* the connection
    subscribed, \* systemd sends signals to it
    rules,      \* match rules of the connection
    calls,      \* method calls on their way to systemd
    wire,       \* signals and replies on their way back

    streams,    \* signal streams that exist
    queue,      \* signals in each
    waiting,    \* callers that await a reply
    skip,       \* replies that nobody awaits any more, per caller
    answer,     \* the last reply of a caller

    flag,       \* ListenerFlags
    spc,        \* of a subscriber: none, rx, setup, ready
    lpc,        \* of a listener: none, loop, drain, unsub, regrab, setup
    exit,       \* why it left its loop, or failed to get there
    phase,      \* steps of a setup that were called: 0 is Subscribe
    pending,    \* FlushQueue.pending
    armed,      \* FlushQueue.deadline is set
    batch,      \* the channel to the flusher, None when empty
    fpc,        \* the flusher: gone, recv, call
    todo, got,  \* what it has still to fetch, and what it has (-1: not found)

    owed,       \* history: the version of a unit a receiver was listened for and
                \* has not been sent, 0 when there is none
    dropped,    \* history: units whose refresh was given up
    trouble     \* faults so far

bus      == <<ver, up, subscribed, rules, calls, wire>>
client   == <<streams, queue, waiting, skip, answer>>
listener == <<flag, spc, lpc, exit, phase, pending, armed, batch>>
flusher  == <<fpc, todo, got>>
history  == <<owed, dropped, trouble>>
vars     == <<bus, client, listener, flusher, history>>

Empty == [k \in Kinds |-> <<>>]
NoAnswer == [op |-> "none", v |-> 0]

Init ==
    /\ ver = [u \in Units |-> 0]
    /\ up = TRUE /\ subscribed = FALSE /\ rules = 0
    /\ calls = <<>> /\ wire = <<>>
    /\ streams = 0 /\ queue = Empty
    /\ waiting = {} /\ skip = [k \in Callers |-> 0] /\ answer = [k \in Callers |-> NoAnswer]
    /\ flag = FALSE
    /\ spc = [r \in Subscribers |-> "none"]
    /\ lpc = [t \in Subscribers |-> "none"]
    /\ exit = [t \in Subscribers |-> "none"]
    /\ phase = 0
    /\ pending = {} /\ armed = FALSE /\ batch = None
    /\ fpc = "gone" /\ todo = {} /\ got = <<>>
    /\ owed = [r \in Subscribers |-> [u \in Units |-> 0]]
    /\ dropped = {}
    /\ trouble = 0

-----------------------------------------------------------------------------
(* systemd and the connection. *)

Listening == \E t \in Subscribers : lpc[t] = "loop"

\* A unit changes.  Its signals go to whoever has subscribed: always
\* PropertiesChanged, at times one of the others before it.
Change(u) ==
    LET sent(k) == IF subscribed /\ k <= rules THEN <<[kind |-> "signal", k |-> k, u |-> u]>> ELSE <<>> IN
    /\ up /\ ver[u] < MaxVer
    /\ ver' = [ver EXCEPT ![u] = @ + 1]
    /\ \/ wire' = wire \o sent(NStreams)
       \/ \E k \in Kinds \ {NStreams} : wire' = wire \o sent(k) \o sent(NStreams)
    /\ owed' = [r \in Subscribers |-> IF spc[r] = "ready" /\ Listening THEN [owed[r] EXCEPT ![u] = ver[u] + 1]
                                      ELSE owed[r]]
    /\ UNCHANGED <<up, subscribed, rules, calls, client, listener, flusher, dropped, trouble>>

\* systemd answers the next call.
Process ==
    LET c == Head(calls) IN
    /\ up /\ calls # <<>>
    /\ calls' = Tail(calls)
    /\ subscribed' = (IF c.op \in {"subscribe", "unsubscribe"} THEN c.op = "subscribe" ELSE subscribed)
    /\ rules' = IF c.op = "match" THEN c.n ELSE rules
    /\ wire' = Append(wire, [kind |-> "reply", by |-> c.by, op |-> c.op,
                             v |-> IF c.op = "get" THEN ver[c.n] ELSE 0])
    /\ UNCHANGED <<ver, up, client, listener, flusher, history>>

\* The reading task gives the next message to its stream, for which it waits
\* until there is room, or to its caller.
ReadSignal ==
    LET m == Head(wire) IN
    /\ wire # <<>> /\ m.kind = "signal"
    /\ m.k <= streams => Len(queue[m.k]) < QueueCap
    /\ wire' = Tail(wire)
    /\ queue' = IF m.k <= streams THEN [queue EXCEPT ![m.k] = Append(@, m.u)] ELSE queue
    /\ UNCHANGED <<ver, up, subscribed, rules, calls, streams, waiting, skip, answer,
                   listener, flusher, history>>

ReadReply ==
    LET m == Head(wire) wanted == skip[m.by] = 0 IN
    /\ wire # <<>> /\ m.kind = "reply"
    /\ wire' = Tail(wire)
    /\ skip' = IF wanted THEN skip ELSE [skip EXCEPT ![m.by] = @ - 1]
    /\ waiting' = IF wanted THEN waiting \ {m.by} ELSE waiting
    /\ answer' = IF wanted THEN [answer EXCEPT ![m.by] = [op |-> m.op, v |-> m.v]] ELSE answer
    /\ streams' = IF wanted /\ m.op = "match" THEN streams + 1 ELSE streams
    /\ UNCHANGED <<ver, up, subscribed, rules, calls, queue, listener, flusher, history>>

\* A method call; nothing is sent over a closed connection.
Call(by, op, n) ==
    /\ calls' = IF up THEN Append(calls, [by |-> by, op |-> op, n |-> n]) ELSE calls
    /\ waiting' = waiting \cup {by}

\* A slip: the loop awaits the fetch it has started.
PollingUnlessFetching(t) == lpc[t] = "loop" /\ fpc # "call"

\* The loop of a listener takes signals; nobody else does.
Polling(t) == lpc[t] = "loop"

\* The reading task waits for room that nobody makes.
Wedged ==
    /\ up /\ wire # <<>> /\ Head(wire).kind = "signal"
    /\ Head(wire).k <= streams /\ Len(queue[Head(wire).k]) = QueueCap
    /\ ~\E t \in Subscribers : Polling(t)

Mishap(f) == f \in Faults /\ trouble < MaxTrouble

\* with_timeout gives up: the connection is closed or wedged, or systemd slow.
GivesUp(by) ==
    /\ by \in waiting
    /\ \/ (Wedged \/ ~up) /\ UNCHANGED trouble
       \/ Mishap("slow") /\ trouble' = trouble + 1
    /\ waiting' = waiting \ {by}
    /\ skip' = IF up THEN [skip EXCEPT ![by] = @ + 1] ELSE skip
    /\ UNCHANGED <<bus, answer>>

Answered(by) == by \notin waiting

-----------------------------------------------------------------------------
(* Subscribers. *)

Receivers == {r \in Subscribers : spc[r] # "none"}

\* subscribe takes its receiver before it looks at the flag.
Subscribe(r) ==
    /\ spc[r] = "none"
    /\ spc' = [spc EXCEPT ![r] = "rx"]
    /\ UNCHANGED <<bus, client, flag, lpc, exit, phase, pending, armed, batch, flusher, history>>

\* Somebody else has a listener, or is at it: nothing to wait for.
JoinListener(r) ==
    /\ spc[r] = "rx" /\ flag
    /\ spc' = [spc EXCEPT ![r] = "ready"]
    /\ UNCHANGED <<bus, client, flag, lpc, exit, phase, pending, armed, batch, flusher, history>>

StartListener(r) ==
    /\ spc[r] = "rx" /\ ~flag /\ lpc[r] = "none"
    /\ flag' = TRUE
    /\ spc' = [spc EXCEPT ![r] = "setup"]
    /\ phase' = 0
    /\ Call("listener", "subscribe", 0)
    /\ UNCHANGED <<ver, up, subscribed, rules, wire, streams, queue, skip, answer,
                   lpc, exit, pending, armed, batch, flusher, history>>

Unsubscribe(r) ==
    /\ spc[r] = "ready"
    /\ spc' = [spc EXCEPT ![r] = "none"]
    /\ owed' = [owed EXCEPT ![r] = [u \in Units |-> 0]]
    /\ UNCHANGED <<bus, client, flag, lpc, exit, phase, pending, armed, batch, flusher, dropped, trouble>>

-----------------------------------------------------------------------------
(* Setup, by a subscriber or by a listener that starts again. *)

SettingUp(t) == spc[t] = "setup" \/ lpc[t] = "setup"

\* ListenerStreams::setup: Subscribe (AlreadySubscribed is as good), then one
\* match rule after the other; streams made earlier wait meanwhile.
SetupStep(t) ==
    /\ SettingUp(t) /\ Answered("listener") /\ answer["listener"].op # "none"
    /\ phase < NStreams
    /\ phase' = phase + 1
    /\ answer' = [answer EXCEPT !["listener"] = NoAnswer]
    /\ Call("listener", "match", phase + 1)
    /\ UNCHANGED <<ver, up, subscribed, rules, wire, streams, queue, skip,
                   flag, spc, lpc, exit, pending, armed, batch, flusher, history>>

\* Where a subscriber or a listener continues after its setup.
Settled(t, next) ==
    /\ spc' = IF spc[t] = "setup" THEN [spc EXCEPT ![t] = "ready"] ELSE spc
    /\ lpc' = [lpc EXCEPT ![t] = next]

\* The listener runs, with a flusher of its own.
SetupDone(t) ==
    /\ SettingUp(t) /\ Answered("listener") /\ answer["listener"].op # "none"
    /\ phase = NStreams
    /\ Settled(t, "loop")
    /\ answer' = [answer EXCEPT !["listener"] = NoAnswer]
    /\ fpc' = "recv" /\ todo' = {} /\ got' = <<>>
    /\ pending' = {} /\ armed' = FALSE /\ batch' = None
    /\ phase' = 0
    /\ exit' = [u \in Subscribers |-> "none"]
    /\ UNCHANGED <<bus, streams, queue, waiting, skip, flag, history>>

DropStreams ==
    /\ streams' = 0
    /\ queue' = Empty
    /\ rules' = 0

\* A step fails: the flag is free again, and the receiver stays without events.
SetupFails(t) ==
    /\ SettingUp(t) /\ "listener" \in waiting
    /\ \/ (Wedged \/ ~up) /\ UNCHANGED trouble
       \/ Mishap("slow") /\ trouble' = trouble + 1
    /\ waiting' = waiting \ {"listener"}
    /\ skip' = IF up THEN [skip EXCEPT !["listener"] = @ + 1] ELSE skip
    /\ Settled(t, "none")
    /\ exit' = [exit EXCEPT ![t] = "setup"]
    /\ flag' = FALSE
    /\ phase' = 0
    /\ DropStreams
    /\ UNCHANGED <<ver, up, subscribed, calls, wire, answer, pending, armed, batch,
                   flusher, owed, dropped>>

-----------------------------------------------------------------------------
(* The loop of a listener. *)

\* A slip: a unit that is just being fetched is not marked again.
MarkUnlessFetched(t, k) ==
    LET u == Head(queue[k]) fetched == {got[i].u : i \in 1..Len(got)} IN
    /\ Polling(t) /\ queue[k] # <<>>
    /\ pending' = IF u \in fetched THEN pending ELSE pending \cup {u}
    /\ armed' = (armed \/ u \notin fetched)
    /\ queue' = [queue EXCEPT ![k] = Tail(@)]
    /\ UNCHANGED <<bus, streams, waiting, skip, answer, flag, spc, lpc, exit, phase, batch,
                   flusher, history>>

Mark(t, k) ==
    /\ Polling(t) /\ queue[k] # <<>>
    /\ pending' = pending \cup {Head(queue[k])}
    /\ armed' = TRUE
    /\ queue' = [queue EXCEPT ![k] = Tail(@)]
    /\ UNCHANGED <<bus, streams, waiting, skip, answer, flag, spc, lpc, exit, phase, batch,
                   flusher, history>>

\* The window is over: the units go to the flusher, or wait for the next window
\* when it has a batch already.
Flush(t) ==
    /\ Polling(t) /\ armed /\ fpc # "gone"
    /\ batch' = IF batch = None THEN pending ELSE batch
    /\ pending' = IF batch = None THEN {} ELSE pending
    /\ armed' = (batch # None)
    /\ UNCHANGED <<bus, client, flag, spc, lpc, exit, phase, flusher, history>>

\* The loop ends, and its streams with it.
Exit(t, why) ==
    /\ Polling(t)
    /\ lpc' = [lpc EXCEPT ![t] = "drain"]
    /\ exit' = [exit EXCEPT ![t] = why]
    /\ DropStreams
    /\ pending' = {} /\ armed' = FALSE
    /\ UNCHANGED <<ver, up, subscribed, calls, wire, waiting, skip, answer,
                   flag, spc, phase, batch, flusher, history>>

\* Every IDLE_CHECK: nobody has a receiver.
RetireIdle(t) == up /\ Receivers = {} /\ Exit(t, "idle")

Disconnected(t) == ~up /\ Exit(t, "disconnected")

FlusherGone(t) == armed /\ fpc = "gone" /\ Exit(t, "flusher")

-----------------------------------------------------------------------------
(* After the loop: the flusher finishes first. *)

Drained(t, why) ==
    /\ lpc[t] = "drain" /\ exit[t] = why
    /\ fpc = "gone" \/ (fpc = "recv" /\ batch = None)
    /\ fpc' = "gone"
    /\ exit' = [exit EXCEPT ![t] = "none"]
    /\ UNCHANGED <<todo, got>>

\* A slip: the flag is given back before.
ReleaseThenUnsubscribe(t) ==
    /\ Drained(t, "idle")
    /\ lpc' = [lpc EXCEPT ![t] = "unsub"]
    /\ flag' = FALSE
    /\ Call("listener", "unsubscribe", 0)
    /\ UNCHANGED <<ver, up, subscribed, rules, wire, streams, queue, skip, answer,
                   spc, phase, pending, armed, batch, history>>

\* The flag is kept until the unsubscription is through.
BeginUnsubscribe(t) ==
    /\ Drained(t, "idle")
    /\ lpc' = [lpc EXCEPT ![t] = "unsub"]
    /\ Call("listener", "unsubscribe", 0)
    /\ UNCHANGED <<ver, up, subscribed, rules, wire, streams, queue, skip, answer,
                   flag, spc, phase, pending, armed, batch, history>>

\* A slip: nobody looks whether a receiver has come meanwhile.
RetireForGood(t) ==
    /\ lpc[t] = "unsub" /\ Answered("listener")
    /\ flag' = FALSE
    /\ lpc' = [lpc EXCEPT ![t] = "none"]
    /\ answer' = [answer EXCEPT !["listener"] = NoAnswer]
    /\ UNCHANGED <<bus, streams, queue, waiting, skip, spc, exit, phase, pending, armed, batch,
                   flusher, history>>

\* finish_retire: whoever subscribed meanwhile found the flag set.
FinishRetire(t) ==
    /\ lpc[t] = "unsub" /\ Answered("listener")
    /\ flag' = FALSE
    /\ lpc' = [lpc EXCEPT ![t] = IF Receivers = {} THEN "none" ELSE "regrab"]
    /\ answer' = [answer EXCEPT !["listener"] = NoAnswer]
    /\ UNCHANGED <<bus, streams, queue, waiting, skip, spc, exit, phase, pending, armed, batch,
                   flusher, history>>

UnsubscribeFails(t) ==
    /\ lpc[t] = "unsub"
    /\ GivesUp("listener")
    /\ UNCHANGED <<streams, queue, listener, flusher, owed, dropped>>

\* It takes the flag again for them, unless somebody has.
Regrab(t) ==
    /\ lpc[t] = "regrab" /\ ~flag
    /\ flag' = TRUE
    /\ lpc' = [lpc EXCEPT ![t] = "setup"]
    /\ phase' = 0
    /\ Call("listener", "subscribe", 0)
    /\ UNCHANGED <<ver, up, subscribed, rules, wire, streams, queue, skip, answer,
                   spc, exit, pending, armed, batch, flusher, history>>

StepBack(t) ==
    /\ lpc[t] = "regrab" /\ flag
    /\ lpc' = [lpc EXCEPT ![t] = "none"]
    /\ UNCHANGED <<bus, client, flag, spc, exit, phase, pending, armed, batch, flusher, history>>

EndDisconnected(t) ==
    /\ Drained(t, "disconnected")
    /\ lpc' = [lpc EXCEPT ![t] = "none"]
    /\ flag' = FALSE
    /\ UNCHANGED <<bus, client, spc, phase, pending, armed, batch, history>>

\* The flusher died: the listener sets up again and keeps the subscription.
Rebuild(t) ==
    /\ Drained(t, "flusher")
    /\ lpc' = [lpc EXCEPT ![t] = "setup"]
    /\ phase' = 0
    /\ Call("listener", "subscribe", 0)
    /\ UNCHANGED <<ver, up, subscribed, rules, wire, streams, queue, skip, answer,
                   flag, spc, pending, armed, batch, history>>

-----------------------------------------------------------------------------
(* The flusher: summaries_for, unit by unit, then one event. *)

TakeBatch ==
    /\ fpc = "recv" /\ batch # None
    /\ batch' = None
    /\ todo' = batch /\ got' = <<>>
    /\ fpc' = "call"
    /\ UNCHANGED <<bus, client, flag, spc, lpc, exit, phase, pending, armed, history>>

Fetch(u) ==
    /\ fpc = "call" /\ Answered("flusher") /\ answer["flusher"].op = "none" /\ u \in todo
    /\ Call("flusher", "get", u)
    /\ todo' = todo \ {u}
    /\ got' = Append(got, [u |-> u, v |-> -1])
    /\ UNCHANGED <<ver, up, subscribed, rules, wire, streams, queue, skip, answer, listener, fpc, history>>

Fetched ==
    /\ fpc = "call" /\ Answered("flusher") /\ answer["flusher"].op # "none"
    /\ got' = [got EXCEPT ![Len(got)].v = answer["flusher"].v]
    /\ answer' = [answer EXCEPT !["flusher"] = NoAnswer]
    /\ UNCHANGED <<bus, streams, queue, waiting, skip, listener, fpc, todo, history>>

\* A fetch that takes too long is left out, and the unit not reported as gone; the
\* errors of a closed bus are taken for that, and it is sent as it was put here.
FetchFails ==
    /\ fpc = "call" /\ GivesUp("flusher")
    /\ IF up THEN /\ dropped' = dropped \cup {got[Len(got)].u}
                  /\ got' = SubSeq(got, 1, Len(got) - 1)
       ELSE UNCHANGED <<dropped, got>>
    /\ UNCHANGED <<streams, queue, listener, fpc, todo, owed>>

Send ==
    LET fetched == {got[i].u : i \in 1..Len(got)}
        of(u) == got[CHOOSE i \in 1..Len(got) : got[i].u = u].v IN
    /\ fpc = "call" /\ todo = {} /\ Answered("flusher") /\ answer["flusher"].op = "none"
    /\ fpc' = "recv"
    /\ got' = <<>>
    /\ owed' = [r \in Subscribers |-> [u \in Units |->
                  IF u \in fetched /\ of(u) >= owed[r][u] THEN 0 ELSE owed[r][u]]]
    /\ UNCHANGED <<bus, client, listener, todo, dropped, trouble>>

\* The task of the flusher panics.
Panic ==
    /\ fpc # "gone" /\ Mishap("panic")
    /\ fpc' = "gone" /\ todo' = {} /\ got' = <<>> /\ batch' = None
    /\ waiting' = waiting \ {"flusher"}
    /\ skip' = IF "flusher" \in waiting /\ up THEN [skip EXCEPT !["flusher"] = @ + 1] ELSE skip
    /\ answer' = [answer EXCEPT !["flusher"] = NoAnswer]
    /\ trouble' = trouble + 1
    /\ UNCHANGED <<bus, streams, queue, flag, spc, lpc, exit, phase, pending, armed,
                   owed, dropped>>

\* The bus goes away for good.
Cut ==
    /\ up /\ Mishap("cut")
    /\ up' = FALSE
    /\ subscribed' = FALSE /\ rules' = 0 /\ calls' = <<>> /\ wire' = <<>>
    /\ skip' = [k \in Callers |-> 0]
    /\ trouble' = trouble + 1
    /\ UNCHANGED <<ver, streams, queue, waiting, answer, listener, flusher, owed, dropped>>

-----------------------------------------------------------------------------
Bus == Process \/ ReadSignal \/ ReadReply

Setup(t) == SetupStep(t) \/ SetupDone(t) \/ SetupFails(t)

Loop(t) == Flush(t) \/ (\E k \in Kinds : Mark(t, k)) \/ Disconnected(t) \/ FlusherGone(t)

Retire(t) ==
    \/ BeginUnsubscribe(t) \/ FinishRetire(t) \/ UnsubscribeFails(t)
    \/ Regrab(t) \/ StepBack(t) \/ EndDisconnected(t) \/ Rebuild(t)

Flusher == TakeBatch \/ (\E u \in Units : Fetch(u)) \/ Fetched \/ FetchFails \/ Send

Next ==
    \/ \E u \in Units : Change(u)
    \/ Bus
    \/ \E r \in Subscribers :
        \/ Subscribe(r) \/ JoinListener(r) \/ StartListener(r) \/ Unsubscribe(r)
        \/ Setup(r) \/ Loop(r) \/ RetireIdle(r) \/ Retire(r)
    \/ Flusher
    \/ Panic
    \/ Cut

Spec == Init /\ [][Next]_vars

\* systemd answers, the connection is read and the tasks run, each of which does
\* one thing at a time.  A timeout is no promise of theirs, except where nothing
\* else can happen.
FlusherTask == TakeBatch \/ (\E u \in Units : Fetch(u)) \/ Fetched \/ Send \/ (~up /\ FetchFails)

Returns(r) == JoinListener(r) \/ StartListener(r)

Task(t) ==
    \/ SetupStep(t) \/ SetupDone(t) \/ ((Wedged \/ ~up) /\ SetupFails(t))
    \/ Loop(t) \/ RetireIdle(t)
    \/ BeginUnsubscribe(t) \/ FinishRetire(t) \/ (~up /\ UnsubscribeFails(t))
    \/ Regrab(t) \/ StepBack(t) \/ EndDisconnected(t) \/ Rebuild(t)

Fairness == WF_vars(Bus) /\ WF_vars(FlusherTask) /\ \A r \in Subscribers : WF_vars(Returns(r)) /\ WF_vars(Task(r))

FairSpec == Spec /\ Fairness

-----------------------------------------------------------------------------
TypeOK ==
    /\ ver \in [Units -> 0..MaxVer] /\ up \in BOOLEAN /\ subscribed \in BOOLEAN
    /\ rules \in 0..NStreams /\ streams \in 0..NStreams
    /\ queue \in [Kinds -> Seq(Units)] /\ \A k \in Kinds : Len(queue[k]) <= QueueCap
    /\ waiting \subseteq Callers /\ skip \in [Callers -> Nat]
    /\ flag \in BOOLEAN
    /\ spc \in [Subscribers -> {"none", "rx", "setup", "ready"}]
    /\ lpc \in [Subscribers -> {"none", "loop", "drain", "unsub", "regrab", "setup"}]
    /\ phase \in 0..NStreams
    /\ pending \subseteq Units /\ armed \in BOOLEAN
    /\ batch \in (SUBSET Units) \cup {None}
    /\ fpc \in {"gone", "recv", "call"} /\ todo \subseteq Units
    /\ owed \in [Subscribers -> [Units -> 0..MaxVer]]
    /\ trouble \in 0..MaxTrouble

\* Who holds the flag: a subscriber in its setup, or a listener.
Holders == {r \in Subscribers : spc[r] = "setup"} \cup
           {t \in Subscribers : lpc[t] \notin {"none", "regrab"}}

\* The flag is set exactly while one task listens or is about to: no setup that
\* fails, retires or loses the bus leaves it set, and no two tasks listen at once.
FlagHasOneHolder == (flag <=> Holders # {}) /\ Cardinality(Holders) <= 1

\* The same, with every stream and every queue within its bounds.
ListenerIsSingle == TypeOK /\ FlagHasOneHolder

\* No refresh is given up unless the bus was slow or is gone: signals that fill
\* a queue never keep the reply from the flusher (the incident of 2026-09-25).
FloodLosesNothing == trouble = 0 => dropped = {}

\* Nothing is owed to a receiver, or the bus failed.
IsPaid(r, u) == owed[r][u] = 0 \/ trouble > 0

\* A subscriber is sent every change that a listener was there to hear, or a later
\* state of the unit: not the state of before the change and then silence.
ChangesReachReceivers == \A r \in Subscribers, u \in Units : owed[r][u] # 0 ~> IsPaid(r, u)

SetupFailed == \E t \in Subscribers : exit[t] = "setup"

\* A receiver has a listener, or the setup failed.
IsServed(r) == Listening \/ spc[r] = "none" \/ trouble > 0 \/ SetupFailed

\* Whoever has subscribed is listened for again, if the setup does not fail: also
\* one that subscribes while the listener of the others retires.
ReceiverHasListener == \A r \in Subscribers : spc[r] = "ready" ~> IsServed(r)

-----------------------------------------------------------------------------
(* What the comments say and the code does not do.                         *)

\* bus.rs 484: nothing that happens after subscribe has returned is missed.
SubscribedMissesNothing ==
    [][\A r \in Subscribers : spc[r] = "ready" /\ ver' # ver => Listening]_vars
=============================================================================
