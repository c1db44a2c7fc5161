----------------------------- MODULE WorkerLink -----------------------------
(***************************************************************************)
(* The connection between the main process and a worker:                   *)
(* crates/strixmaid-core/src/session/worker_handle.rs at one end and serve *)
(* of crates/strixmaid-core/src/worker/mod.rs at the other.  Calls and     *)
(* subscriptions share two bounded streams of frames, one reader at each   *)
(* end, and ids that are never used again.                                 *)
(*                                                                         *)
(* A call or subscription is its id.  The parts that run between two       *)
(* awaits are still separate steps where the threads of the runtime can    *)
(* meet: the check of is_alive, the insertion, the end of the reader.      *)
(***************************************************************************)
EXTENDS Integers, Sequences, FiniteSets

CONSTANTS
    Calls,      \* ids of calls
    Subs,       \* ids of subscriptions
    None,       \* no id
    ToCap,      \* frames that fit on their way to the worker
    FromCap,    \* frames that fit on their way back
    QueueCap,   \* SUBSCRIPTION_QUEUE_CAP
    MaxEvents,  \* bound on the events of a stream
    Faults      \* "drop": futures of requests are dropped; "crash": the worker dies

ASSUME ConstantsAssumption ==
    /\ Calls \cap Subs = {} /\ None \notin Calls \cup Subs
    /\ ToCap \in Nat \ {0} /\ FromCap \in Nat \ {0} /\ QueueCap \in Nat \ {0}
    /\ MaxEvents \in Nat
    /\ Faults \subseteq {"drop", "crash"}

VARIABLES
    call,       \* where a call is, see CallPoints
    pending,    \* Inner.pending
    sub,        \* where a subscription is, see SubPoints
    subs,       \* Inner.subs
    watcher,    \* watch_subscription: "none", "watching" or "done"
    queue,      \* events in the channel of a subscription
    seen,       \* history: events the receiver has taken
    unsub,      \* tasks spawned by SubscriptionGuard::drop: ids to unsubscribe
    closed,     \* Inner.closed
    reader,     \* read_loop: "reading", "stalled", "unsub", "ending" or "over"
    held,       \* the subscription the reader is busy with
    closer,     \* shutdown: "no", "send", "grace", "term" or "over"
    toWorker, fromWorker,  \* frames on their way
    worker,     \* "serving", "leaving", "half" (write side closed) or "gone"
    inflight,   \* calls the worker works on
    stream,     \* run_subscription: "none", "run" or "cancelled"
    made        \* events a stream has sent

callVars == <<call, pending>>
subVars == <<sub, subs, watcher, queue, seen, unsub>>
readVars == <<closed, reader, held>>
workVars == <<worker, inflight, stream, made>>
vars == <<callVars, subVars, readVars, closer, toWorker, fromWorker, workVars>>

CallPoints == {"idle", "checked", "sending", "waiting", "answered", "failed",
               "timeout", "dropped"}
SubPoints == {"idle", "checked", "sending", "open", "ended", "gone", "failed", "dropped"}

Frames == ({"call"} \X Calls) \cup ({"subscribe", "unsubscribe"} \X Subs)
              \cup ({"shutdown", "torn"} \X {None})
Replies == ({"result"} \X Calls) \cup ({"event", "end"} \X Subs)

TypeOK ==
    /\ call \in [Calls -> CallPoints] /\ pending \subseteq Calls
    /\ sub \in [Subs -> SubPoints] /\ subs \subseteq Subs
    /\ watcher \in [Subs -> {"none", "watching", "done"}]
    /\ queue \in [Subs -> 0..QueueCap]
    /\ seen \in [Subs -> Nat]
    /\ unsub \subseteq Subs
    /\ closed \in BOOLEAN /\ held \in Subs \cup {None}
    /\ reader \in {"reading", "stalled", "unsub", "ending", "over"}
    /\ closer \in {"no", "send", "grace", "term", "over"}
    /\ toWorker \in Seq(Frames) /\ fromWorker \in Seq(Replies)
    /\ Len(fromWorker) <= FromCap
    /\ worker \in {"serving", "leaving", "half", "gone"}
    /\ inflight \subseteq Calls
    /\ stream \in [Subs -> {"none", "run", "cancelled"}]
    /\ made \in [Subs -> 0..MaxEvents]

Init ==
    /\ call = [c \in Calls |-> "idle"] /\ pending = {}
    /\ sub = [s \in Subs |-> "idle"] /\ subs = {} /\ unsub = {}
    /\ watcher = [s \in Subs |-> "none"]
    /\ queue = [s \in Subs |-> 0] /\ seen = [s \in Subs |-> 0]
    /\ closed = FALSE /\ reader = "reading" /\ held = None
    /\ closer = "no"
    /\ toWorker = <<>> /\ fromWorker = <<>>
    /\ worker = "serving" /\ inflight = {}
    /\ stream = [s \in Subs |-> "none"] /\ made = [s \in Subs |-> 0]

-----------------------------------------------------------------------------
(* Inner::send: one frame at a time, and an error when nobody is there.    *)

Torn == \E i \in 1..Len(toWorker) : toWorker[i][1] = "torn"
Room == Len(toWorker) < ToCap + (IF Torn THEN 1 ELSE 0)
\* Nobody is there, or shutdown has closed the write side (on Unix).
PeerGone == worker = "gone" \/ closer \in {"grace", "term", "over"}

Send(frame) ==
    \/ ~PeerGone /\ Room /\ toWorker' = Append(toWorker, frame)
    \/ PeerGone /\ UNCHANGED toWorker

\* A send that is given up while it waits for room: part of the frame may be in
\* the stream.  One torn frame is enough to end the connection.
GiveUpSend ==
    \/ UNCHANGED toWorker
    \/ /\ ~PeerGone /\ ~Room /\ ~Torn
       /\ toWorker' = Append(toWorker, <<"torn", None>>)

-----------------------------------------------------------------------------
(* call_with_fds.                                                          *)

CallCheck(c) ==
    /\ call[c] = "idle" /\ ~closed
    /\ call' = [call EXCEPT ![c] = "checked"]
    /\ UNCHANGED <<pending, subVars, readVars, closer, toWorker, fromWorker, workVars>>

CallInsert(c) ==
    /\ call[c] = "checked"
    /\ call' = [call EXCEPT ![c] = "sending"]
    /\ pending' = pending \cup {c}
    /\ UNCHANGED <<subVars, readVars, closer, toWorker, fromWorker, workVars>>

\* The answer that fail_all has left meanwhile is found at once.
CallSend(c) ==
    /\ call[c] = "sending"
    /\ Send(<<"call", c>>)
    /\ call' = [call EXCEPT ![c] = IF PeerGone \/ c \notin pending THEN "failed" ELSE "waiting"]
    /\ pending' = IF PeerGone THEN pending \ {c} ELSE pending
    /\ UNCHANGED <<subVars, readVars, closer, fromWorker, workVars>>

\* A slip: the entry of a call that has given up stays.
LeaveEntry(c) == UNCHANGED pending

\* The entry of a call that has given up goes.
CleanUp(c) == pending' = pending \ {c}

\* RPC_TIMEOUT, over the send and the answer.
CallTimeout(c) ==
    /\ \/ call[c] = "sending" /\ GiveUpSend
       \/ call[c] = "waiting" /\ UNCHANGED toWorker
    /\ call' = [call EXCEPT ![c] = "timeout"]
    /\ CleanUp(c)
    /\ UNCHANGED <<subVars, readVars, closer, fromWorker, workVars>>

\* The request is over before its answer: nothing of the function runs on.
CallDropped(c) ==
    /\ "drop" \in Faults
    /\ \/ call[c] = "sending" /\ GiveUpSend
       \/ call[c] = "waiting" /\ UNCHANGED toWorker
    /\ call' = [call EXCEPT ![c] = "dropped"]
    /\ UNCHANGED <<pending, subVars, readVars, closer, fromWorker, workVars>>

-----------------------------------------------------------------------------
(* subscribe, its receiver and its watcher.                                *)

SubCheck(s) ==
    /\ sub[s] = "idle" /\ ~closed
    /\ sub' = [sub EXCEPT ![s] = "checked"]
    /\ UNCHANGED <<callVars, subs, watcher, queue, seen, unsub, readVars, closer,
                   toWorker, fromWorker, workVars>>

SubInsert(s) ==
    /\ sub[s] = "checked"
    /\ sub' = [sub EXCEPT ![s] = "sending"]
    /\ subs' = subs \cup {s}
    /\ UNCHANGED <<callVars, watcher, queue, seen, unsub, readVars, closer, toWorker,
                   fromWorker, workVars>>

SubSend(s) ==
    /\ sub[s] = "sending"
    /\ Send(<<"subscribe", s>>)
    /\ IF PeerGone
       THEN /\ sub' = [sub EXCEPT ![s] = "failed"]
            /\ subs' = subs \ {s}
            /\ UNCHANGED watcher
       ELSE /\ sub' = [sub EXCEPT ![s] = "open"]
            /\ watcher' = [watcher EXCEPT ![s] = "watching"]
            /\ UNCHANGED subs
    /\ UNCHANGED <<callVars, queue, seen, unsub, readVars, closer, fromWorker, workVars>>

SubTimeout(s) ==
    /\ sub[s] = "sending"
    /\ GiveUpSend
    /\ sub' = [sub EXCEPT ![s] = "failed"]
    /\ subs' = subs \ {s}
    /\ UNCHANGED <<callVars, watcher, queue, seen, unsub, readVars, closer, fromWorker,
                   workVars>>

\* There is no guard yet: the entry stays.
SubDropped(s) ==
    /\ "drop" \in Faults
    /\ sub[s] = "sending"
    /\ GiveUpSend
    /\ sub' = [sub EXCEPT ![s] = "dropped"]
    /\ UNCHANGED <<callVars, subs, watcher, queue, seen, unsub, readVars, closer,
                   fromWorker, workVars>>

Consume(s) ==
    /\ sub[s] = "open" /\ queue[s] > 0
    /\ queue' = [queue EXCEPT ![s] = @ - 1]
    /\ seen' = [seen EXCEPT ![s] = @ + 1]
    /\ UNCHANGED <<callVars, sub, subs, watcher, unsub, readVars, closer, toWorker,
                   fromWorker, workVars>>

DropReceiver(s) ==
    /\ sub[s] = "open"
    /\ sub' = [sub EXCEPT ![s] = "gone"]
    /\ queue' = [queue EXCEPT ![s] = 0]
    /\ UNCHANGED <<callVars, subs, watcher, seen, unsub, readVars, closer, toWorker,
                   fromWorker, workVars>>

\* Every sender is gone: that in the table, the watcher's and the reader's.
SeesEnd(s) ==
    /\ sub[s] = "open" /\ queue[s] = 0
    /\ s \notin subs /\ watcher[s] # "watching" /\ ~(reader = "stalled" /\ held = s)
    /\ sub' = [sub EXCEPT ![s] = "ended"]
    /\ UNCHANGED <<callVars, subs, watcher, queue, seen, unsub, readVars, closer,
                   toWorker, fromWorker, workVars>>

\* A slip: a receiver that is gone leaves nothing behind.
DropQuietly(s) == UNCHANGED unsub

\* A receiver that is gone leaves an Unsubscribe to send.
DropArmed(s) == unsub' = unsub \cup {s}

WatchClosed(s) ==
    /\ watcher[s] = "watching" /\ sub[s] = "gone"
    /\ watcher' = [watcher EXCEPT ![s] = "done"]
    /\ subs' = subs \ {s}
    /\ DropArmed(s)
    /\ UNCHANGED <<callVars, sub, queue, seen, readVars, closer, toWorker, fromWorker,
                   workVars>>

WatchEnded(s) ==
    /\ watcher[s] = "watching" /\ s \notin subs
    /\ watcher' = [watcher EXCEPT ![s] = "done"]
    /\ UNCHANGED <<callVars, sub, subs, queue, seen, unsub, readVars, closer, toWorker,
                   fromWorker, workVars>>

\* send_unsubscribe in a task of its own.
SendUnsubscribe(s) ==
    /\ s \in unsub
    /\ unsub' = unsub \ {s}
    /\ IF closed THEN UNCHANGED toWorker ELSE Send(<<"unsubscribe", s>>)
    /\ UNCHANGED <<callVars, sub, subs, watcher, queue, seen, readVars, closer,
                   fromWorker, workVars>>

-----------------------------------------------------------------------------
(* read_loop.                                                              *)

Received(kind, id) ==
    /\ reader = "reading" /\ fromWorker # <<>> /\ Head(fromWorker) = <<kind, id>>
    /\ fromWorker' = Tail(fromWorker)

\* deliver: an answer nobody waits for is dropped.
ReadResult(c) ==
    /\ Received("result", c)
    /\ pending' = pending \ {c}
    /\ call' = IF call[c] = "waiting" THEN [call EXCEPT ![c] = "answered"] ELSE call
    /\ UNCHANGED <<subVars, readVars, closer, toWorker, workVars>>

\* A slip: an event is lost when the queue is full.
LoseEvent(s) == UNCHANGED <<reader, held>>

\* deliver_event when the queue is full: the reader waits.
WaitForRoom(s) == reader' = "stalled" /\ held' = s

ReadEvent(s) ==
    /\ Received("event", s)
    /\ IF s \notin subs \/ sub[s] \in {"gone", "dropped"}
       THEN UNCHANGED <<queue, reader, held>>
       ELSE IF queue[s] < QueueCap
       THEN queue' = [queue EXCEPT ![s] = @ + 1] /\ UNCHANGED <<reader, held>>
       ELSE WaitForRoom(s) /\ UNCHANGED queue
    /\ UNCHANGED <<callVars, sub, subs, watcher, seen, unsub, closed, closer, toWorker,
                   workVars>>

\* The receiver makes room or goes away.
StallEnds ==
    /\ reader = "stalled"
    /\ \/ /\ sub[held] # "gone" /\ queue[held] < QueueCap
          /\ queue' = [queue EXCEPT ![held] = @ + 1]
       \/ sub[held] = "gone" /\ UNCHANGED queue
    /\ reader' = "reading" /\ held' = None
    /\ UNCHANGED <<callVars, sub, subs, watcher, seen, unsub, closed, closer, toWorker,
                   fromWorker, workVars>>

\* A slip: a wait without a limit.
StallWithoutLimit == reader = "stalled" /\ UNCHANGED vars

\* SUBSCRIBER_STALL_LIMIT: the subscription is given up.
StallLimit ==
    /\ reader = "stalled"
    /\ reader' = "unsub"
    /\ subs' = subs \ {held}
    /\ UNCHANGED <<callVars, sub, watcher, queue, seen, unsub, closed, held, closer,
                   toWorker, fromWorker, workVars>>

\* send_unsubscribe in the reader itself, however long the send takes.
ReaderUnsubscribes ==
    /\ reader = "unsub"
    /\ reader' = "reading" /\ held' = None
    /\ IF closed THEN UNCHANGED toWorker ELSE Send(<<"unsubscribe", held>>)
    /\ UNCHANGED <<callVars, subVars, closed, closer, fromWorker, workVars>>

ReadEnd(s) ==
    /\ Received("end", s)
    /\ subs' = subs \ {s}
    /\ UNCHANGED <<callVars, sub, watcher, queue, seen, unsub, readVars, closer, toWorker,
                   workVars>>

ReadEof ==
    /\ reader = "reading" /\ fromWorker = <<>> /\ worker \in {"half", "gone"}
    /\ reader' = "ending" /\ closed' = TRUE
    /\ UNCHANGED <<callVars, subVars, held, closer, toWorker, fromWorker, workVars>>

\* fail_all: a call that is still sending finds its answer afterwards.
FailAll ==
    /\ call' = [c \in Calls |-> IF c \in pending /\ call[c] = "waiting" THEN "failed"
                                ELSE call[c]]
    /\ pending' = {}

ReaderEnds ==
    /\ reader = "ending"
    /\ reader' = "over"
    /\ FailAll
    /\ subs' = {}
    /\ UNCHANGED <<sub, watcher, queue, seen, unsub, closed, held, closer, toWorker,
                   fromWorker, workVars>>

-----------------------------------------------------------------------------
(* shutdown.                                                               *)

ShutdownBegin ==
    /\ closer = "no"
    /\ closer' = "send"
    /\ UNCHANGED <<callVars, subVars, readVars, toWorker, fromWorker, workVars>>

\* No timeout here.
ShutdownSend ==
    /\ closer = "send"
    /\ closer' = "grace"
    /\ Send(<<"shutdown", None>>)
    /\ UNCHANGED <<callVars, subVars, readVars, fromWorker, workVars>>

\* wait_closed(SHUTDOWN_GRACE): the reader ends, or SIGTERM.
ShutdownGrace ==
    /\ closer = "grace"
    /\ closer' = IF reader = "over" THEN "over" ELSE "term"
    /\ UNCHANGED <<callVars, subVars, readVars, toWorker, fromWorker, workVars>>

\* SIGKILL.
KillWorker ==
    /\ worker' = "gone" /\ inflight' = {}
    /\ stream' = [s \in Subs |-> "none"]

\* wait_closed(TERM_GRACE): the handle of the reader was taken by the first
\* wait, so that this one only looks at closed.
ShutdownForce ==
    /\ closer = "term"
    /\ closer' = "over"
    /\ IF closed THEN UNCHANGED <<callVars, closed, worker, inflight, stream>>
       ELSE KillWorker /\ FailAll /\ closed' = TRUE
    /\ UNCHANGED <<subVars, reader, held, toWorker, fromWorker, made>>

-----------------------------------------------------------------------------
(* serve and run_subscription, in the worker.                              *)

Take(kind, id) ==
    /\ worker = "serving" /\ toWorker # <<>> /\ Head(toWorker) = <<kind, id>>
    /\ toWorker' = Tail(toWorker)

\* The writer of the worker waits for room.
Reply(kind, id) ==
    /\ worker \in {"serving", "leaving"}
    /\ Len(fromWorker) < FromCap
    /\ fromWorker' = Append(fromWorker, <<kind, id>>)

ServeCall(c) ==
    /\ Take("call", c)
    /\ inflight' = inflight \cup {c}
    /\ UNCHANGED <<callVars, subVars, readVars, closer, fromWorker, worker, stream, made>>

ServeSubscribe(s) ==
    /\ Take("subscribe", s)
    /\ stream' = [stream EXCEPT ![s] = "run"]
    /\ UNCHANGED <<callVars, subVars, readVars, closer, fromWorker, worker, inflight, made>>

\* A stream that has already ended is not known any more.
ServeUnsubscribe(s) ==
    /\ Take("unsubscribe", s)
    /\ stream' = [stream EXCEPT ![s] = IF @ = "run" THEN "cancelled" ELSE @]
    /\ UNCHANGED <<callVars, subVars, readVars, closer, fromWorker, worker, inflight, made>>

\* The end of the stream, without a frame, is the end of the main process and
\* takes the same way.
ServeShutdown ==
    /\ Take("shutdown", None)
    /\ worker' = "leaving"
    /\ UNCHANGED <<callVars, subVars, readVars, closer, fromWorker, inflight, stream, made>>

Dies ==
    /\ KillWorker
    /\ UNCHANGED <<callVars, subVars, readVars, closer, fromWorker, made>>

\* The rest of a torn frame is taken from the next one, which cannot be decoded
\* then, or missing: serve returns the error.
ServeTorn ==
    /\ worker = "serving" /\ toWorker # <<>> /\ Head(toWorker)[1] = "torn"
    /\ Len(toWorker) > 1 \/ PeerGone
    /\ toWorker' = <<>>
    /\ Dies

CallDone(c) ==
    /\ c \in inflight
    /\ Reply("result", c)
    /\ inflight' = inflight \ {c}
    /\ UNCHANGED <<callVars, subVars, readVars, closer, toWorker, worker, stream, made>>

\* A cancelled stream finishes the event it is writing.
StreamEvent(s) ==
    /\ stream[s] # "none" /\ made[s] < MaxEvents
    /\ Reply("event", s)
    /\ made' = [made EXCEPT ![s] = @ + 1]
    /\ stream' = [stream EXCEPT ![s] = IF @ = "cancelled" THEN "none" ELSE @]
    /\ UNCHANGED <<callVars, subVars, readVars, closer, toWorker, worker, inflight>>

\* A stream that cannot be opened says so even when it was cancelled meanwhile.
StreamEnd(s) ==
    /\ stream[s] # "none"
    /\ Reply("end", s)
    /\ stream' = [stream EXCEPT ![s] = "none"]
    /\ UNCHANGED <<callVars, subVars, readVars, closer, toWorker, worker, inflight, made>>

StreamStops(s) ==
    /\ stream[s] = "cancelled"
    /\ stream' = [stream EXCEPT ![s] = "none"]
    /\ UNCHANGED <<callVars, subVars, readVars, closer, toWorker, fromWorker, worker,
                   inflight, made>>

\* First the calls come to their end, then the streams are cancelled.
CancelStreams ==
    /\ worker = "leaving" /\ inflight = {}
    /\ \E s \in Subs : stream[s] = "run"
    /\ stream' = [s \in Subs |-> IF stream[s] = "run" THEN "cancelled" ELSE stream[s]]
    /\ UNCHANGED <<callVars, subVars, readVars, closer, toWorker, fromWorker, worker,
                   inflight, made>>

CloseWriteSide ==
    /\ worker = "leaving" /\ inflight = {} /\ \A s \in Subs : stream[s] = "none"
    /\ worker' = "half"
    /\ UNCHANGED <<callVars, subVars, readVars, closer, toWorker, fromWorker, inflight,
                   stream, made>>

Exit ==
    /\ worker = "half"
    /\ UNCHANGED toWorker
    /\ Dies

Crash ==
    /\ "crash" \in Faults /\ worker # "gone"
    /\ UNCHANGED toWorker
    /\ Dies

-----------------------------------------------------------------------------
CallStep(c) == CallInsert(c) \/ CallSend(c) \/ CallTimeout(c)

SubStep(s) ==
    SubInsert(s) \/ SubSend(s) \/ SubTimeout(s) \/ WatchClosed(s) \/ WatchEnded(s)
        \/ SendUnsubscribe(s)

ReaderStep ==
    \/ \E c \in Calls : ReadResult(c)
    \/ \E s \in Subs : ReadEvent(s) \/ ReadEnd(s)
    \/ StallEnds \/ StallLimit \/ ReaderUnsubscribes \/ ReadEof \/ ReaderEnds

CloserStep == ShutdownSend \/ ShutdownGrace \/ ShutdownForce

ServeStep ==
    \/ \E c \in Calls : ServeCall(c)
    \/ \E s \in Subs : ServeSubscribe(s) \/ ServeUnsubscribe(s)
    \/ ServeShutdown \/ ServeTorn \/ CancelStreams \/ CloseWriteSide \/ Exit

\* The bound: the worker is gone and everybody knows.
AllOver == (worker = "gone" /\ closer = "over" /\ reader = "over") /\ UNCHANGED vars

Next ==
    \/ \E c \in Calls : CallCheck(c) \/ CallStep(c) \/ CallDropped(c) \/ CallDone(c)
    \/ \E s \in Subs : \/ SubCheck(s) \/ SubStep(s) \/ SubDropped(s) \/ Consume(s)
                       \/ DropReceiver(s) \/ SeesEnd(s)
                       \/ StreamEvent(s) \/ StreamEnd(s) \/ StreamStops(s)
    \/ ReaderStep \/ ShutdownBegin \/ CloserStep
    \/ ServeStep \/ Crash \/ AllOver

Spec == Init /\ [][Next]_vars

\* The tasks of the main process run and its timers fire.  Nobody has to take
\* events, and the worker does not have to do anything.
HostSpec ==
    /\ Spec
    /\ \A c \in Calls : WF_vars(CallStep(c))
    /\ \A s \in Subs : WF_vars(SubStep(s))
    /\ WF_vars(ReaderStep) /\ WF_vars(CloserStep)

\* The worker reads its frames, too, but no call has to come to its end.
FairSpec ==
    /\ HostSpec
    /\ WF_vars(ServeStep)
    /\ \A s \in Subs : WF_vars(StreamStops(s))

-----------------------------------------------------------------------------
(* Safety.                                                                 *)

\* The table of answers does not grow with the calls that fail: an entry
\* belongs to a call under way, or to one whose request was dropped.
PendingIsOwned ==
    \A c \in pending : call[c] \in {"sending", "waiting", "dropped"}

\* The same, and every stream within its bounds.
AnswersAreOwned == TypeOK /\ PendingIsOwned

\* Frames of s of one kind on their way back.
OnTheWay(kind, s) ==
    Cardinality({i \in 1..Len(fromWorker) : fromWorker[i] = <<kind, s>>})

\* Back pressure loses nothing: what a stream has sent to a registered
\* subscriber is on its way, in the hands of the reader, in the queue, or seen.
NoEventIsLost ==
    \A s \in Subs : sub[s] = "open" /\ s \in subs =>
        made[s] = seen[s] + queue[s] + OnTheWay("event", s)
                    + (IF reader = "stalled" /\ held = s THEN 1 ELSE 0)

\* A stream that runs in a worker has a subscription, or its end is on the way,
\* however the end of the stream, the drop of the receiver, the stall limit and
\* the end of the connection meet.
StreamIsWatched ==
    \A s \in Subs : stream[s] = "run" /\ worker = "serving" /\ ~closed /\ ~PeerGone =>
        \/ s \in subs
        \/ s \in unsub
        \/ reader = "unsub" /\ held = s
        \/ \E i \in 1..Len(toWorker) : toWorker[i] = <<"unsubscribe", s>>

-----------------------------------------------------------------------------
(* Liveness.                                                               *)

\* RPC_TIMEOUT: no call waits for ever, whatever the worker and the subscribers
\* of the same connection do.
CallsEnd == \A c \in Calls : (call[c] \in {"sending", "waiting"})
                                ~> (call[c] \notin {"sending", "waiting"})

\* SUBSCRIBER_STALL_LIMIT: a receiver that takes nothing does not hold up the
\* connection.
StallIsBounded == (reader = "stalled") ~> (reader \in {"reading", "over"})

\* "Once the Receiver is dropped, the journalctl of the worker dies, too."
StreamsEnd == \A s \in Subs : (stream[s] = "run" /\ sub[s] = "gone") ~> (stream[s] # "run")

\* shutdown: "first a frame, then politely, then by force".
ShutdownEnds == (closer # "no") ~> (worker = "gone")

\* Every wait on a worker that reads comes to its end: a call, the reader before a
\* full queue, a stream nobody listens to and the shutdown, although they all
\* share one connection.
EveryWaitEnds == CallsEnd /\ StallIsBounded /\ StreamsEnd /\ ShutdownEnds

-----------------------------------------------------------------------------
(* What the comments say and the code does not do.                         *)

\* RPC_TIMEOUT: a timeout "does not touch the connection and fails this call
\* only".  A frame that is given up halfway ends the connection.
TimeoutIsHarmless == ~Torn
=============================================================================
