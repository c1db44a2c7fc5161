-------------------------------- MODULE Hub --------------------------------
(***************************************************************************)
(* The control connections of browsers.  One task per connection takes the *)
(* next inbound frame or the next event of a subscribed channel, whichever *)
(* is there, and sends what comes of it before it takes another.  The      *)
(* sources never wait for it: a receiver that falls behind by more than    *)
(* the depth of the queue loses the oldest frames and is told how many.    *)
(*                                                                         *)
(* The n-th frame of a channel is n.  A stream is one subscription in the  *)
(* SelectAll of its connection, with its position in the channel.          *)
(***************************************************************************)
EXTENDS Integers, FiniteSets

CONSTANTS
    Conns,
    Channels,
    Watched,    \* channels over tokio::sync::watch; the others are broadcasts
    Subs,       \* streams; at most so many at a time
    Depth,      \* frames a broadcast keeps for a slow receiver
    SockCap,    \* frames the socket takes while the browser does not read
    MaxPub,     \* bound of the frames of a channel
    None

ASSUME ConstantsAssumption ==
    /\ Watched \subseteq Channels
    /\ {Depth, SockCap} \subseteq Nat \ {0}
    /\ MaxPub \in Nat
    /\ None \notin Channels \cup Subs \cup Conns

VARIABLES
    tail,       \* frames the source of a channel has sent
    current,    \* the frame its snapshot shows: stored before it is sent
    closed,     \* the source has ended

    pc,         \* of a connection: loop, subscribe, reply, event, down
    final,      \* the connection ends after its reply
    event,      \* what it is sending
    out,        \* frames in the socket
    handles,    \* Subscriptions.handles

    state,      \* of a stream: free, making, on, aborted
    conn, chan, \* its connection and channel
    first,      \* the snapshot it begins with, 0 without one
    pos,        \* its position

    seen, told  \* history: what the browser was given last

source == <<tail, current, closed>>
link   == <<pc, final, event, out, handles>>
stream == <<state, conn, chan, first, pos>>
vars   == <<source, link, stream, seen, told>>

Nothing == [kind |-> "nothing", n |-> 0]
NoEvent == [sub |-> None, kind |-> "none", n |-> 0]

Init ==
    /\ tail = [ch \in Channels |-> 0]
    /\ current = [ch \in Channels |-> 0]
    /\ closed = [ch \in Channels |-> FALSE]
    /\ pc = [c \in Conns |-> "loop"]
    /\ final = [c \in Conns |-> FALSE]
    /\ event = [c \in Conns |-> NoEvent]
    /\ out = [c \in Conns |-> 0]
    /\ handles = [c \in Conns |-> [ch \in Channels |-> None]]
    /\ state = [s \in Subs |-> "free"]
    /\ conn = [s \in Subs |-> None]
    /\ chan = [s \in Subs |-> None]
    /\ first = [s \in Subs |-> 0]
    /\ pos = [s \in Subs |-> 0]
    /\ seen = [s \in Subs |-> 0]
    /\ told = [s \in Subs |-> Nothing]

-----------------------------------------------------------------------------
(* Sources. *)

\* The snapshot of the next frame is stored.
Store(ch) ==
    /\ ch \notin Watched /\ ~closed[ch] /\ current[ch] = tail[ch] /\ tail[ch] < MaxPub
    /\ current' = [current EXCEPT ![ch] = @ + 1]
    /\ UNCHANGED <<tail, closed, link, stream, seen, told>>

\* It is sent to the receivers; nobody is waited for.
Broadcast(ch) ==
    /\ current[ch] > tail[ch]
    /\ tail' = [tail EXCEPT ![ch] = @ + 1]
    /\ UNCHANGED <<current, closed, link, stream, seen, told>>

\* A watch stores and sends in one step.
Replace(ch) ==
    /\ ch \in Watched /\ ~closed[ch] /\ tail[ch] < MaxPub
    /\ tail' = [tail EXCEPT ![ch] = @ + 1]
    /\ current' = [current EXCEPT ![ch] = @ + 1]
    /\ UNCHANGED <<closed, link, stream, seen, told>>

Close(ch) ==
    /\ ~closed[ch] /\ current[ch] = tail[ch]
    /\ closed' = [closed EXCEPT ![ch] = TRUE]
    /\ UNCHANGED <<tail, current, link, stream, seen, told>>

-----------------------------------------------------------------------------
(* Subscriptions of a connection. *)

Free == {s \in Subs : state[s] = "free"}
Fresh == CHOOSE s \in Free : TRUE

\* A slip: the handle goes, its stream stays in the SelectAll.
KeepStream(c, ch) == state

\* detach: the handle goes, its stream is aborted.
Detached(c, ch) ==
    IF handles[c][ch] = None THEN state
    ELSE [state EXCEPT ![handles[c][ch]] = "aborted"]

\* Streams are dropped, with their receivers.
Freed(S) ==
    /\ state' = [s \in Subs |-> IF s \in S THEN "free" ELSE state[s]]
    /\ conn' = [s \in Subs |-> IF s \in S THEN None ELSE conn[s]]
    /\ chan' = [s \in Subs |-> IF s \in S THEN None ELSE chan[s]]
    /\ first' = [s \in Subs |-> IF s \in S THEN 0 ELSE first[s]]
    /\ pos' = [s \in Subs |-> IF s \in S THEN 0 ELSE pos[s]]
    /\ seen' = [s \in Subs |-> IF s \in S THEN 0 ELSE seen[s]]
    /\ told' = [s \in Subs |-> IF s \in S THEN Nothing ELSE told[s]]

\* The connection is over: every stream is dropped.
Drop(c) ==
    /\ Freed({s \in Subs : conn[s] = c})
    /\ handles' = [handles EXCEPT ![c] = [ch \in Channels |-> None]]
    /\ pc' = [pc EXCEPT ![c] = "down"]
    /\ final' = [final EXCEPT ![c] = FALSE]
    /\ event' = [event EXCEPT ![c] = NoEvent]
    /\ out' = [out EXCEPT ![c] = 0]
    /\ UNCHANGED source

-----------------------------------------------------------------------------
(* The loop of a connection: inbound frames. *)

\* A ping, a request, a frame that makes no sense, a sub with bad parameters or
\* without a worker: one reply, and what is subscribed stays.  With a wrong
\* version the connection ends after it.
TakeAsk(c, version) ==
    /\ pc[c] = "loop"
    /\ pc' = [pc EXCEPT ![c] = "reply"]
    /\ final' = [final EXCEPT ![c] = version]
    /\ UNCHANGED <<source, event, out, handles, stream, seen, told>>

\* subscribe reads the snapshot first ...
TakeSub(c, ch) ==
    LET s == Fresh IN
    /\ pc[c] = "loop" /\ Free # {}
    /\ pc' = [pc EXCEPT ![c] = "subscribe"]
    /\ state' = [state EXCEPT ![s] = "making"]
    /\ conn' = [conn EXCEPT ![s] = c]
    /\ chan' = [chan EXCEPT ![s] = ch]
    /\ first' = [first EXCEPT ![s] = current[ch]]
    /\ UNCHANGED <<source, final, event, out, handles, pos, seen, told>>

\* ... and then takes its receiver; the stream replaces that of the channel.
\* Only a sub with an id is acknowledged.
Attach(c, s) ==
    LET ch == chan[s] IN
    /\ pc[c] = "subscribe" /\ state[s] = "making" /\ conn[s] = c
    /\ first' = IF ch \in Watched THEN [first EXCEPT ![s] = tail[ch]] ELSE first
    /\ pos' = [pos EXCEPT ![s] = tail[ch]]
    /\ state' = [Detached(c, ch) EXCEPT ![s] = "on"]
    /\ handles' = [handles EXCEPT ![c][ch] = s]
    /\ seen' = [seen EXCEPT ![s] = tail[ch]]
    /\ told' = [told EXCEPT ![s] = Nothing]
    /\ \E id \in BOOLEAN : pc' = [pc EXCEPT ![c] = IF id THEN "reply" ELSE "loop"]
    /\ UNCHANGED <<source, final, event, out, conn, chan>>

TakeUnsub(c, ch) ==
    /\ pc[c] = "loop"
    /\ state' = Detached(c, ch)
    /\ handles' = [handles EXCEPT ![c][ch] = None]
    /\ \E id \in BOOLEAN : pc' = [pc EXCEPT ![c] = IF id THEN "reply" ELSE "loop"]
    /\ UNCHANGED <<source, final, event, out, conn, chan, first, pos, seen, told>>

\* The browser closes or is gone: the loop reads the end, or the send fails.
Gone(c) == pc[c] \in {"loop", "reply", "event"} /\ Drop(c)

-----------------------------------------------------------------------------
(* The loop of a connection: events of its streams. *)

\* An aborted stream ends without a word.
Reap(c, s) ==
    /\ pc[c] = "loop" /\ conn[s] = c /\ state[s] = "aborted"
    /\ Freed({s})
    /\ UNCHANGED <<source, link>>

Emit(c, s, kind, n) ==
    /\ pc' = [pc EXCEPT ![c] = "event"]
    /\ event' = [event EXCEPT ![c] = [sub |-> s, kind |-> kind, n |-> n]]
    /\ UNCHANGED <<source, final, out, conn, chan, seen, told>>

Polled(c, s) == pc[c] = "loop" /\ conn[s] = c /\ state[s] = "on"

\* The snapshot the stream begins with.
EmitFirst(c, s) ==
    /\ Polled(c, s) /\ first[s] # 0
    /\ first' = [first EXCEPT ![s] = 0]
    /\ Emit(c, s, "first", first[s])
    /\ UNCHANGED <<handles, state, pos>>

Behind(s) == first[s] = 0 /\ pos[s] < tail[chan[s]]
Overrun(s) == chan[s] \notin Watched /\ tail[chan[s]] - pos[s] > Depth

\* The next frame of a broadcast, the last one of a watch.
EmitData(c, s) ==
    LET n == IF chan[s] \in Watched THEN tail[chan[s]] ELSE pos[s] + 1 IN
    /\ Polled(c, s) /\ Behind(s) /\ ~Overrun(s)
    /\ pos' = [pos EXCEPT ![s] = n]
    /\ Emit(c, s, "data", n)
    /\ UNCHANGED <<handles, state, first>>

\* A slip: the error is filtered out like a frame of no interest.
SkipLagged(c, s) ==
    /\ Polled(c, s) /\ Behind(s) /\ Overrun(s)
    /\ pos' = [pos EXCEPT ![s] = tail[chan[s]] - Depth]
    /\ UNCHANGED <<source, link, state, conn, chan, first, seen, told>>

\* Lagged: the queue no longer holds the next frame.
EmitLagged(c, s) ==
    LET n == tail[chan[s]] - Depth - pos[s] IN
    /\ Polled(c, s) /\ Behind(s) /\ Overrun(s)
    /\ pos' = [pos EXCEPT ![s] = @ + n]
    /\ Emit(c, s, "lost", n)
    /\ UNCHANGED <<handles, state, first>>

\* The source has ended: the subscription goes, and the browser is told.
EmitEnded(c, s) ==
    /\ Polled(c, s) /\ first[s] = 0 /\ pos[s] = tail[chan[s]] /\ closed[chan[s]]
    /\ handles' = [handles EXCEPT ![c][chan[s]] = None]
    /\ Freed({s})
    /\ pc' = [pc EXCEPT ![c] = "reply"]
    /\ UNCHANGED <<source, final, event, out>>

-----------------------------------------------------------------------------
(* Sending, with SEND_TIMEOUT. *)

SendReply(c) ==
    /\ pc[c] = "reply" /\ ~final[c] /\ out[c] < SockCap
    /\ out' = [out EXCEPT ![c] = @ + 1]
    /\ pc' = [pc EXCEPT ![c] = "loop"]
    /\ UNCHANGED <<source, final, event, handles, stream, seen, told>>

\* What the browser knows after an event.
After(e) == CASE e.kind = "data" -> e.n
              [] e.kind = "lost" -> seen[e.sub] + e.n
              [] OTHER -> seen[e.sub]

SendEvent(c) ==
    LET e == event[c] IN
    /\ pc[c] = "event" /\ out[c] < SockCap
    /\ out' = [out EXCEPT ![c] = @ + 1]
    /\ pc' = [pc EXCEPT ![c] = "loop"]
    /\ event' = [event EXCEPT ![c] = NoEvent]
    /\ seen' = [seen EXCEPT ![e.sub] = After(e)]
    /\ told' = IF e.kind = "first" THEN told
               ELSE [told EXCEPT ![e.sub] = [kind |-> e.kind, n |-> e.n]]
    /\ UNCHANGED <<source, final, handles, stream>>

\* After a wrong version the connection ends with the reply.
SendLast(c) == pc[c] = "reply" /\ final[c] /\ Drop(c)

\* A slip: only replies are sent with a timeout.
ReplyTimeout(c) == pc[c] = "reply" /\ out[c] = SockCap /\ Drop(c)

\* The browser reads nothing for SEND_TIMEOUT.
SendTimeout(c) == pc[c] \in {"reply", "event"} /\ out[c] = SockCap /\ Drop(c)

Read(c) ==
    /\ out[c] > 0
    /\ out' = [out EXCEPT ![c] = @ - 1]
    /\ UNCHANGED <<source, pc, final, event, handles, stream, seen, told>>

Connect(c) ==
    /\ pc[c] = "down"
    /\ pc' = [pc EXCEPT ![c] = "loop"]
    /\ UNCHANGED <<source, final, event, out, handles, stream, seen, told>>

-----------------------------------------------------------------------------
Source(ch) == Store(ch) \/ Broadcast(ch) \/ Replace(ch) \/ Close(ch)

Poll(c, s) ==
    Reap(c, s) \/ EmitFirst(c, s) \/ EmitData(c, s) \/ EmitLagged(c, s) \/ EmitEnded(c, s)

Take(c) ==
    \/ \E version \in BOOLEAN : TakeAsk(c, version)
    \/ \E ch \in Channels : TakeSub(c, ch) \/ TakeUnsub(c, ch)

Send(c) == SendReply(c) \/ SendEvent(c) \/ SendLast(c) \/ SendTimeout(c)

Next ==
    \/ \E ch \in Channels : Source(ch)
    \/ \E c \in Conns :
        \/ Take(c)
        \/ \E s \in Subs : Attach(c, s) \/ Poll(c, s)
        \/ Send(c)
        \/ Read(c)
        \/ Gone(c)
        \/ Connect(c)

Spec == Init /\ [][Next]_vars

\* The task of a connection runs; its select! takes either branch at random and
\* the ready streams in turn, so none is passed over for ever.  Nothing is
\* assumed of the browser: it may never read.
Fairness ==
    /\ \A c \in Conns :
        /\ WF_vars(Send(c))
        /\ \A s \in Subs : WF_vars(Attach(c, s)) /\ SF_vars(Poll(c, s))
    /\ \A ch \in Channels : WF_vars(Broadcast(ch))

FairSpec == Spec /\ Fairness

-----------------------------------------------------------------------------
TypeOK ==
    /\ tail \in [Channels -> Nat] /\ current \in [Channels -> Nat]
    /\ closed \in [Channels -> BOOLEAN]
    /\ pc \in [Conns -> {"loop", "subscribe", "reply", "event", "down"}]
    /\ final \in [Conns -> BOOLEAN]
    /\ event \in [Conns -> [sub : Subs \cup {None}, kind : {"none", "first", "data", "lost"}, n : Nat]]
    /\ out \in [Conns -> 0..SockCap]
    /\ handles \in [Conns -> [Channels -> Subs \cup {None}]]
    /\ state \in [Subs -> {"free", "making", "on", "aborted"}]
    /\ conn \in [Subs -> Conns \cup {None}] /\ chan \in [Subs -> Channels \cup {None}]
    /\ first \in [Subs -> Nat] /\ pos \in [Subs -> Nat] /\ seen \in [Subs -> Nat]
    /\ told \in [Subs -> [kind : {"nothing", "data", "lost"}, n : Nat]]

\* A live stream is the one its handle aborts ...
LiveHasHandle == \A s \in Subs : state[s] = "on" => handles[conn[s]][chan[s]] = s

\* ... a handle has a live stream ...
HandleHasStream ==
    \A c \in Conns, ch \in Channels :
        handles[c][ch] # None =>
            state[handles[c][ch]] = "on" /\ conn[handles[c][ch]] = c /\ chan[handles[c][ch]] = ch

\* ... and so has what is being sent.
EventHasStream ==
    \A c \in Conns :
        pc[c] = "event" => event[c].sub \in Subs /\ state[event[c].sub] = "on" /\ conn[event[c].sub] = c

\* A channel of a connection has at most one live stream, which a handle aborts: a
\* sub that replaces another, an unsub and the end of a source leave none behind
\* that still sends and none the browser can no longer end.  Subscriptions and
\* events are well formed.
StreamsAreOwned == TypeOK /\ LiveHasHandle /\ HandleHasStream /\ EventHasStream

\* The abstract channel: streams that are on are its subscriptions.
OnChan == [s \in Subs |-> IF state[s] = "on" THEN chan[s] ELSE None]
OnSeen == [s \in Subs |-> IF state[s] = "on" THEN seen[s] ELSE 0]
OnTold == [s \in Subs |-> IF state[s] = "on" THEN told[s] ELSE Nothing]

Promise == INSTANCE LiveStream WITH
    published <- tail, chan <- OnChan, seen <- OnSeen, told <- OnTold

\* What a browser is sent of a channel has no gap it was not told of, no frame
\* twice and none out of order, however far it falls behind and however its
\* subscriptions come and go (broadcast_stream and the loop implement LiveStream).
GapsAreTold == Promise!Spec

\* A live subscription is served to the end, or its connection ends: a browser
\* that stops reading cannot hold either for ever, nor can other frames.
SubscriberCatchesUp ==
    \A s \in Subs :
        (state[s] = "on" /\ seen[s] < tail[chan[s]])
            ~> (state[s] # "on" \/ seen[s] = tail[chan[s]])
=============================================================================
