-------------------------- MODULE WorkerLinkProofs --------------------------
(***************************************************************************)
(* The table of answers of a worker handle, for any number of calls and    *)
(* subscriptions, any capacity of the streams and every fault; and its     *)
(* streams: a subscription the worker serves has somebody watching it      *)
(* here, and every event the worker sent is on the wire, with the          *)
(* demultiplexer, in the receiver's queue, delivered or counted as         *)
(* dropped.                                                                *)
(***************************************************************************)
EXTENDS WorkerLink, FiniteSetTheorems, FunctionTheorems, TLAPS

\* What the calls alone need: their types, and that every entry has an owner.
CallInv ==
    /\ call \in [Calls -> CallPoints]
    /\ pending \subseteq Calls
    /\ PendingIsOwned

\* A new handle has no entry.
LEMMA InitCallInv == Init => CallInv
  BY DEF Init, CallInv, CallPoints, PendingIsOwned

\* A step of a call takes its own entry along with it, and no other.
LEMMA CallKeepsCallInv ==
    ASSUME CallInv, NEW c \in Calls, CallCheck(c) \/ CallStep(c) \/ CallDropped(c) \/ CallDone(c)
    PROVE  CallInv'
  <1> USE DEF CallInv, CallPoints, PendingIsOwned
  <1>1. CASE CallCheck(c)
    BY <1>1 DEF CallCheck
  <1>2. CASE CallInsert(c)
    BY <1>2 DEF CallInsert
  <1>3. CASE CallSend(c)
    BY <1>3 DEF CallSend
  <1>4. CASE CallTimeout(c)
    BY <1>4 DEF CallTimeout, CleanUp
  <1>5. CASE CallDropped(c)
    BY <1>5 DEF CallDropped
  <1>6. CASE CallDone(c)
    BY <1>6 DEF CallDone, callVars
  <1> QED
    BY <1>1, <1>2, <1>3, <1>4, <1>5, <1>6 DEF CallStep

\* Subscriptions share the connection with the calls but not their table.
LEMMA SubKeepsCallInv ==
    ASSUME CallInv, NEW s \in Subs,
           \/ SubCheck(s) \/ SubStep(s) \/ SubDropped(s) \/ Consume(s)
           \/ DropReceiver(s) \/ SeesEnd(s) \/ StreamEvent(s) \/ StreamEnd(s) \/ StreamStops(s)
    PROVE  CallInv'
  <1>1. UNCHANGED callVars
    BY DEF SubCheck, SubStep, SubInsert, SubSend, SubTimeout, WatchClosed, WatchEnded,
           SendUnsubscribe, SubDropped, Consume, DropReceiver, SeesEnd, StreamEvent,
           StreamEnd, StreamStops
  <1> QED
    BY <1>1 DEF CallInv, PendingIsOwned, callVars

\* The end of the connection leaves no entry.
LEMMA FailAllKeepsCallInv ==
    ASSUME CallInv, FailAll
    PROVE  CallInv'
  BY DEF CallInv, CallPoints, PendingIsOwned, FailAll

\* The reader removes the entries it answers, and all of them when it ends.
LEMMA ReaderKeepsCallInv ==
    ASSUME CallInv, ReaderStep
    PROVE  CallInv'
  <1>1. CASE \E c \in Calls : ReadResult(c)
    BY <1>1 DEF CallInv, CallPoints, PendingIsOwned, ReadResult
  <1>2. CASE (\E s \in Subs : ReadEvent(s) \/ ReadEnd(s)) \/ StallEnds \/ StallLimit
                \/ ReaderUnsubscribes \/ ReadEof
    <2>1. UNCHANGED callVars
      BY <1>2 DEF ReadEvent, ReadEnd, StallEnds, StallLimit, ReaderUnsubscribes, ReadEof
    <2> QED
      BY <2>1 DEF CallInv, PendingIsOwned, callVars
  <1>3. CASE ReaderEnds
    BY <1>3, FailAllKeepsCallInv DEF ReaderEnds
  <1> QED
    BY <1>1, <1>2, <1>3 DEF ReaderStep

\* shutdown, the worker, and the end of both.
LEMMA OthersKeepCallInv ==
    ASSUME CallInv, ShutdownBegin \/ CloserStep \/ ServeStep \/ Crash \/ AllOver
    PROVE  CallInv'
  <1>1. CASE FailAll
    BY <1>1, FailAllKeepsCallInv
  <1>2. CASE UNCHANGED callVars
    BY <1>2 DEF CallInv, PendingIsOwned, callVars
  <1>3. FailAll \/ UNCHANGED callVars
    <2>1. ShutdownForce => FailAll \/ UNCHANGED callVars
      BY DEF ShutdownForce, callVars
    <2> QED
      BY <2>1 DEF ShutdownBegin, CloserStep, ShutdownSend, ShutdownGrace, ServeStep,
             ServeCall, ServeSubscribe, ServeUnsubscribe, ServeShutdown, ServeTorn, Dies,
             CancelStreams, CloseWriteSide, Exit, Crash, AllOver, vars
  <1> QED
    BY <1>1, <1>2, <1>3

\* Every step of the specification preserves the invariant.
LEMMA NextCallInv == CallInv /\ [Next]_vars => CallInv'
  <1> SUFFICES ASSUME CallInv, [Next]_vars
               PROVE  CallInv'
    OBVIOUS
  <1>1. CASE UNCHANGED vars
    BY <1>1 DEF vars, callVars, CallInv, PendingIsOwned
  <1>2. CASE Next
    BY <1>2, CallKeepsCallInv, SubKeepsCallInv, ReaderKeepsCallInv, OthersKeepCallInv DEF Next
  <1> QED
    BY <1>1, <1>2

\* The table of answers does not grow with calls that fail, time out, or race
\* the end of the connection: an entry is that of a call under way or of one
\* whose request was dropped (call_with_fds removes it on every other path).
THEOREM PendingAnswersAreOwned == Spec => []PendingIsOwned
  <1>1. CallInv => PendingIsOwned
    BY DEF CallInv
  <1> QED
    BY <1>1, InitCallInv, NextCallInv, PTL DEF Spec
-----------------------------------------------------------------------------
(* Types.  The reader sends Unsubscribe for the subscription it was stalled *)
(* over, which must be one.                                                *)

TypeInv == TypeOK /\ (reader \in {"stalled", "unsub"} => held \in Subs)

\* What is sent to the worker is a frame.
LEMMA FramesAreTyped ==
    /\ \A c \in Calls : <<"call", c>> \in Frames
    /\ \A s \in Subs : <<"subscribe", s>> \in Frames /\ <<"unsubscribe", s>> \in Frames
    /\ <<"shutdown", None>> \in Frames /\ <<"torn", None>> \in Frames
  BY DEF Frames

\* What the worker sends is a reply.
LEMMA RepliesAreTyped ==
    /\ \A c \in Calls : <<"result", c>> \in Replies
    /\ \A s \in Subs : <<"event", s>> \in Replies /\ <<"end", s>> \in Replies
  BY DEF Replies

\* Sequences of one kind stay of that kind.
LEMMA SequencesAreTyped ==
    ASSUME NEW S, NEW q \in Seq(S)
    PROVE  /\ <<>> \in Seq(S)
           /\ q # <<>> => Tail(q) \in Seq(S) /\ Len(Tail(q)) = Len(q) - 1
           /\ \A e \in S : Append(q, e) \in Seq(S) /\ Len(Append(q, e)) = Len(q) + 1
  OBVIOUS

\* A handle that has just been made.
LEMMA InitTypeInv == Init => TypeInv
  <1> SUFFICES ASSUME Init PROVE TypeInv
    OBVIOUS
  <1>1. toWorker \in Seq(Frames) /\ fromWorker \in Seq(Replies) /\ Len(fromWorker) <= FromCap
    BY ConstantsAssumption DEF Init
  <1> QED
    <2>1. /\ call \in [Calls -> CallPoints] /\ sub \in [Subs -> SubPoints]
          /\ watcher \in [Subs -> {"none", "watching", "done"}]
          /\ queue \in [Subs -> 0..QueueCap] /\ seen \in [Subs -> Nat]
          /\ stream \in [Subs -> {"none", "run", "cancelled"}]
          /\ made \in [Subs -> 0..MaxEvents]
      BY ConstantsAssumption DEF Init, CallPoints, SubPoints
    <2> QED
      BY <1>1, <2>1 DEF Init, TypeInv, TypeOK

\* A frame that is sent, or given up, leaves a sequence of frames.
LEMMA SendType ==
    ASSUME toWorker \in Seq(Frames),
           (\E f \in Frames : Send(f)) \/ GiveUpSend \/ UNCHANGED toWorker
    PROVE  toWorker' \in Seq(Frames)
  <1>1. CASE \E f \in Frames : Send(f)
    BY <1>1 DEF Send
  <1>2. CASE GiveUpSend
    BY <1>2, FramesAreTyped, SequencesAreTyped DEF GiveUpSend
  <1> QED
    BY <1>1, <1>2

\* Calls.
LEMMA CallKeepsTypes ==
    ASSUME TypeInv, NEW c \in Calls, CallCheck(c) \/ CallStep(c) \/ CallDropped(c) \/ CallDone(c)
    PROVE  TypeInv'
  <1>1. CASE CallDone(c)
    <2>1. fromWorker' \in Seq(Replies) /\ Len(fromWorker') <= FromCap
      BY <1>1, RepliesAreTyped, ConstantsAssumption DEF CallDone, Reply, TypeInv, TypeOK
    <2> QED
      BY <1>1, <2>1 DEF CallDone, Reply, TypeInv, TypeOK, callVars, subVars, readVars
  <1>2. CASE CallCheck(c) \/ CallStep(c) \/ CallDropped(c)
    <2>1. toWorker' \in Seq(Frames)
      BY <1>2, SendType, FramesAreTyped
         DEF CallCheck, CallStep, CallInsert, CallSend, CallTimeout, CallDropped, TypeInv, TypeOK
    <2>2. call' \in [Calls -> CallPoints] /\ pending' \subseteq Calls
      BY <1>2 DEF CallCheck, CallStep, CallInsert, CallSend, CallTimeout, CallDropped, CleanUp,
                  TypeInv, TypeOK, CallPoints
    <2>3. UNCHANGED <<subVars, readVars, closer, fromWorker, workVars>>
      BY <1>2 DEF CallCheck, CallStep, CallInsert, CallSend, CallTimeout, CallDropped
    <2> QED
      BY <2>1, <2>2, <2>3 DEF TypeInv, TypeOK, subVars, readVars, workVars
  <1> QED
    BY <1>1, <1>2

\* Subscriptions, in the main process.
LEMMA SubKeepsTypes ==
    ASSUME TypeInv, NEW s \in Subs,
           SubCheck(s) \/ SubStep(s) \/ SubDropped(s) \/ Consume(s) \/ DropReceiver(s) \/ SeesEnd(s)
    PROVE  TypeInv'
  <1> USE DEF SubStep
  <1>1. toWorker' \in Seq(Frames)
    BY SendType, FramesAreTyped
       DEF SubCheck, SubInsert, SubSend, SubTimeout, SubDropped, Consume, DropReceiver, SeesEnd,
           WatchClosed, WatchEnded, SendUnsubscribe, TypeInv, TypeOK
  <1>2. /\ sub' \in [Subs -> SubPoints] /\ subs' \subseteq Subs /\ unsub' \subseteq Subs
        /\ watcher' \in [Subs -> {"none", "watching", "done"}]
    BY DEF SubCheck, SubInsert, SubSend, SubTimeout, SubDropped, Consume, DropReceiver, SeesEnd,
           WatchClosed, WatchEnded, SendUnsubscribe, DropArmed, TypeInv, TypeOK, SubPoints
  <1>3. queue' \in [Subs -> 0..QueueCap] /\ seen' \in [Subs -> Nat]
    <2>1. CASE Consume(s)
      <3>1. /\ queue \in [Subs -> 0..QueueCap] /\ seen \in [Subs -> Nat] /\ QueueCap \in Nat
            /\ queue[s] > 0
            /\ queue' = [queue EXCEPT ![s] = @ - 1] /\ seen' = [seen EXCEPT ![s] = @ + 1]
        BY <2>1, ConstantsAssumption DEF Consume, TypeInv, TypeOK
      <3>2. queue[s] - 1 \in 0..QueueCap /\ seen[s] + 1 \in Nat
        BY <3>1
      <3> QED
        BY <3>1, <3>2
    <2>2. CASE DropReceiver(s)
      BY <2>2, ConstantsAssumption DEF DropReceiver, TypeInv, TypeOK
    <2>3. CASE UNCHANGED <<queue, seen>>
      BY <2>3 DEF TypeInv, TypeOK
    <2>4. CASE SubCheck(s) \/ SubInsert(s) \/ SubSend(s)
      BY <2>3, <2>4 DEF SubCheck, SubInsert, SubSend
    <2>5. CASE SubTimeout(s) \/ SubDropped(s) \/ SeesEnd(s)
      BY <2>3, <2>5 DEF SubTimeout, SubDropped, SeesEnd
    <2>6. CASE WatchClosed(s) \/ WatchEnded(s) \/ SendUnsubscribe(s)
      BY <2>3, <2>6 DEF WatchClosed, WatchEnded, SendUnsubscribe
    <2> QED
      BY <2>1, <2>2, <2>4, <2>5, <2>6
  <1>4. UNCHANGED <<callVars, readVars, closer, fromWorker, workVars>>
    BY DEF SubCheck, SubInsert, SubSend, SubTimeout, SubDropped, Consume, DropReceiver, SeesEnd,
           WatchClosed, WatchEnded, SendUnsubscribe
  <1> QED
    BY <1>1, <1>2, <1>3, <1>4 DEF TypeInv, TypeOK, callVars, readVars, workVars

\* The streams in the worker.
LEMMA StreamKeepsTypes ==
    ASSUME TypeInv, NEW s \in Subs, StreamEvent(s) \/ StreamEnd(s) \/ StreamStops(s)
    PROVE  TypeInv'
  <1>1. fromWorker' \in Seq(Replies) /\ Len(fromWorker') <= FromCap
    <2>1. ASSUME NEW r \in Replies, Len(fromWorker) < FromCap, fromWorker' = Append(fromWorker, r)
          PROVE  fromWorker' \in Seq(Replies) /\ Len(fromWorker') <= FromCap
      BY <2>1, SequencesAreTyped, ConstantsAssumption DEF TypeInv, TypeOK
    <2> QED
      BY <2>1, RepliesAreTyped DEF StreamEvent, StreamEnd, StreamStops, Reply, TypeInv, TypeOK
  <1>2. /\ stream' \in [Subs -> {"none", "run", "cancelled"}]
        /\ made' \in [Subs -> 0..MaxEvents]
    <2>1. CASE StreamEvent(s)
      BY <2>1, ConstantsAssumption, SMTT(30) DEF StreamEvent, TypeInv, TypeOK
    <2>2. CASE StreamEnd(s) \/ StreamStops(s)
      BY <2>2 DEF StreamEnd, StreamStops, TypeInv, TypeOK
    <2> QED
      BY <2>1, <2>2
  <1>3. UNCHANGED <<callVars, subVars, readVars, closer, toWorker, worker, inflight>>
    BY DEF StreamEvent, StreamEnd, StreamStops
  <1> QED
    BY <1>1, <1>2, <1>3 DEF TypeInv, TypeOK, callVars, subVars, readVars

\* The reader takes a reply, waits with it, or ends.
LEMMA ReaderKeepsTypes ==
    ASSUME TypeInv, ReaderStep
    PROVE  TypeInv'
  <1>1. ASSUME NEW kind, NEW id, Received(kind, id)
        PROVE  fromWorker' \in Seq(Replies) /\ Len(fromWorker') <= FromCap
    BY <1>1, ConstantsAssumption DEF Received, TypeInv, TypeOK
  <1>2. ASSUME NEW c \in Calls, ReadResult(c)
        PROVE  TypeInv'
    <2>1. call' \in [Calls -> CallPoints] /\ pending' \subseteq Calls
      BY <1>2 DEF ReadResult, TypeInv, TypeOK, CallPoints
    <2> QED
      BY <1>1, <1>2, <2>1 DEF ReadResult, TypeInv, TypeOK, subVars, readVars, workVars
  <1>3. ASSUME NEW s \in Subs, ReadEvent(s)
        PROVE  TypeInv'
    <2>1. /\ queue' \in [Subs -> 0..QueueCap]
          /\ (reader' = reader /\ held' = held) \/ (reader' = "stalled" /\ held' = s)
      BY <1>3, ConstantsAssumption, SMTT(30) DEF ReadEvent, WaitForRoom, TypeInv, TypeOK
    <2>2. fromWorker' \in Seq(Replies) /\ Len(fromWorker') <= FromCap
      BY <1>1, <1>3 DEF ReadEvent
    <2> QED
      BY <1>3, <2>1, <2>2 DEF ReadEvent, TypeInv, TypeOK, callVars, workVars
  <1>4. ASSUME NEW s \in Subs, ReadEnd(s)
        PROVE  TypeInv'
    BY <1>1, <1>4 DEF ReadEnd, TypeInv, TypeOK, callVars, readVars, workVars
  <1>5. CASE StallEnds
    <2>1. queue' \in [Subs -> 0..QueueCap]
      <3>1. held \in Subs /\ queue \in [Subs -> 0..QueueCap]
        BY <1>5 DEF StallEnds, TypeInv, TypeOK
      <3>2. \/ queue[held] < QueueCap /\ queue' = [queue EXCEPT ![held] = @ + 1]
            \/ UNCHANGED queue
        BY <1>5 DEF StallEnds
      <3> QED
        BY <3>1, <3>2, ConstantsAssumption
    <2> QED
      BY <1>5, <2>1 DEF StallEnds, TypeInv, TypeOK, callVars, workVars
  <1>6. CASE StallLimit
    BY <1>6 DEF StallLimit, TypeInv, TypeOK, callVars, workVars
  <1>7. CASE ReaderUnsubscribes
    <2>1. toWorker' \in Seq(Frames)
      BY <1>7, SendType, FramesAreTyped DEF ReaderUnsubscribes, TypeInv, TypeOK
    <2> QED
      BY <1>7, <2>1 DEF ReaderUnsubscribes, TypeInv, TypeOK, callVars, subVars, workVars
  <1>8. CASE ReadEof
    BY <1>8 DEF ReadEof, TypeInv, TypeOK, callVars, subVars, workVars
  <1>9. CASE ReaderEnds
    BY <1>9 DEF ReaderEnds, FailAll, TypeInv, TypeOK, CallPoints, workVars
  <1> QED
    BY <1>2, <1>3, <1>4, <1>5, <1>6, <1>7, <1>8, <1>9 DEF ReaderStep

\* shutdown.
LEMMA CloserKeepsTypes ==
    ASSUME TypeInv, ShutdownBegin \/ CloserStep
    PROVE  TypeInv'
  <1>1. CASE ShutdownBegin \/ ShutdownGrace
    BY <1>1 DEF ShutdownBegin, ShutdownGrace, TypeInv, TypeOK, callVars, subVars, readVars, workVars
  <1>2. CASE ShutdownSend
    <2>1. toWorker' \in Seq(Frames)
      BY <1>2, SendType, FramesAreTyped DEF ShutdownSend, TypeInv, TypeOK
    <2> QED
      BY <1>2, <2>1 DEF ShutdownSend, TypeInv, TypeOK, callVars, subVars, readVars, workVars
  <1>3. CASE ShutdownForce
    <2>1. /\ call' \in [Calls -> CallPoints] /\ pending' \subseteq Calls
          /\ stream' \in [Subs -> {"none", "run", "cancelled"}]
          /\ inflight' \subseteq Calls /\ closed' \in BOOLEAN
          /\ worker' \in {"serving", "leaving", "half", "gone"}
      BY <1>3 DEF ShutdownForce, KillWorker, FailAll, TypeInv, TypeOK, CallPoints, callVars
    <2> QED
      BY <1>3, <2>1 DEF ShutdownForce, TypeInv, TypeOK, subVars
  <1> QED
    BY <1>1, <1>2, <1>3 DEF CloserStep

\* The worker.
LEMMA ServeKeepsTypes ==
    ASSUME TypeInv, ServeStep \/ Crash \/ AllOver
    PROVE  TypeInv'
  <1> USE DEF ServeStep
  <1>1. toWorker' \in Seq(Frames)
    <2>1. \/ toWorker # <<>> /\ toWorker' = Tail(toWorker)
          \/ toWorker' = <<>>
          \/ UNCHANGED toWorker
      BY DEF ServeCall, ServeSubscribe, ServeUnsubscribe, ServeShutdown, ServeTorn, Take,
             CancelStreams, CloseWriteSide, Exit, Crash, AllOver, vars
    <2> QED
      BY <2>1, SequencesAreTyped DEF TypeInv, TypeOK
  <1>2. /\ worker' \in {"serving", "leaving", "half", "gone"}
        /\ inflight' \subseteq Calls
        /\ stream' \in [Subs -> {"none", "run", "cancelled"}]
    BY DEF ServeCall, ServeSubscribe, ServeUnsubscribe, ServeShutdown, ServeTorn, Dies,
           KillWorker, CancelStreams, CloseWriteSide, Exit, Crash, AllOver, vars, workVars,
           TypeInv, TypeOK
  <1>3. UNCHANGED <<callVars, subVars, readVars, closer, fromWorker, made>>
    BY DEF ServeCall, ServeSubscribe, ServeUnsubscribe, ServeShutdown, ServeTorn, Dies,
           CancelStreams, CloseWriteSide, Exit, Crash, AllOver, vars, workVars
  <1> QED
    BY <1>1, <1>2, <1>3 DEF TypeInv, TypeOK, callVars, subVars, readVars

\* Every step keeps the types.
LEMMA NextTypeInv == TypeInv /\ [Next]_vars => TypeInv'
  <1> SUFFICES ASSUME TypeInv, [Next]_vars
               PROVE  TypeInv'
    OBVIOUS
  <1>1. CASE UNCHANGED vars
    BY <1>1 DEF vars, callVars, subVars, readVars, workVars, TypeInv, TypeOK
  <1>2. CASE Next
    BY <1>2, CallKeepsTypes, SubKeepsTypes, StreamKeepsTypes, ReaderKeepsTypes, CloserKeepsTypes,
       ServeKeepsTypes DEF Next
  <1> QED
    BY <1>1, <1>2

\* What the run worker_link checks of answers: types, within the bounds of every
\* queue, and an owner for every entry of the table.
THEOREM AnswersStayOwned == Spec => []AnswersAreOwned
  <1>1. TypeInv /\ CallInv => AnswersAreOwned
    BY DEF TypeInv, CallInv, AnswersAreOwned
  <1> QED
    BY <1>1, InitTypeInv, NextTypeInv, InitCallInv, NextCallInv, PTL DEF Spec

-----------------------------------------------------------------------------
(* Subscriptions: the frames of one on their way, and who is left to end it.*)

\* What a queue of frames holds.
Carries(q, frame) == \E i \in 1..Len(q) : q[i] = frame

\* A Subscribe is the first frame of its subscription and there is no other.
SubscribesFirst(q, s) ==
    \A i, j \in 1..Len(q) :
        q[i] = <<"subscribe", s>> /\ q[j] \in {<<"subscribe", s>>, <<"unsubscribe", s>>} => i <= j

\* Both ends are there and take part.
Serving == worker = "serving" /\ ~closed /\ ~PeerGone

\* A subscription the worker has not been told of: of such a subscription there
\* is nothing, no watcher, no stream, no frame.
Fresh(s) == sub[s] \in {"idle", "checked", "sending", "failed", "dropped"}

Untouched(s) ==
    Fresh(s) =>
        /\ watcher[s] = "none" /\ s \notin unsub /\ held # s
        /\ queue[s] = 0 /\ seen[s] = 0
        /\ stream[s] = "none" /\ made[s] = 0
        /\ ~Carries(toWorker, <<"subscribe", s>>) /\ ~Carries(toWorker, <<"unsubscribe", s>>)
        /\ ~Carries(fromWorker, <<"event", s>>) /\ ~Carries(fromWorker, <<"end", s>>)

\* A stream starts once: not before its Subscribe is taken, nor after its end.
StartsOnce(s) ==
    /\ SubscribesFirst(toWorker, s)
    /\ Carries(toWorker, <<"subscribe", s>>) =>
            stream[s] = "none" /\ ~Carries(fromWorker, <<"end", s>>)
    /\ Carries(fromWorker, <<"end", s>>) => stream[s] = "none"

\* StreamIsWatched, already of a stream whose Subscribe is being sent or is on
\* its way.
Watched(s) ==
    /\ Serving
    /\ stream[s] = "run" \/ Carries(toWorker, <<"subscribe", s>>) \/ sub[s] = "sending"
    =>
        \/ s \in subs
        \/ s \in unsub
        \/ reader = "unsub" /\ held = s
        \/ Carries(toWorker, <<"unsubscribe", s>>)

\* closed is set before the reader clears the table.
ClosedFirst == reader \in {"ending", "over"} => closed

StreamInv ==
    /\ TypeInv /\ ClosedFirst
    /\ \A s \in Subs : Untouched(s) /\ StartsOnce(s) /\ Watched(s)

\* A frame put on a wire is the only one that becomes carried.
LEMMA CarriesAppended ==
    ASSUME NEW S, NEW q \in Seq(S), NEW e \in S
    PROVE  \A f : Carries(Append(q, e), f) <=> Carries(q, f) \/ f = e
  <1>1. Len(q) \in Nat /\ Len(Append(q, e)) = Len(q) + 1
    OBVIOUS
  <1>2. \A i \in 1..(Len(q) + 1) : Append(q, e)[i] = IF i = Len(q) + 1 THEN e ELSE q[i]
    OBVIOUS
  <1>3. /\ Len(q) + 1 \in 1..(Len(q) + 1)
        /\ \A i \in 1..Len(q) : i \in 1..(Len(q) + 1) /\ i # Len(q) + 1
        /\ \A i \in 1..(Len(q) + 1) : i # Len(q) + 1 => i \in 1..Len(q)
    BY <1>1
  <1> QED
    BY <1>1, <1>2, <1>3 DEF Carries

\* A frame taken off a wire was its head, the rest are still carried.
LEMMA CarriesTaken ==
    ASSUME NEW S, NEW q \in Seq(S), q # <<>>
    PROVE  \A f : Carries(q, f) <=> f = Head(q) \/ Carries(Tail(q), f)
  <1>1. Len(q) \in Nat \ {0} /\ Len(Tail(q)) = Len(q) - 1 /\ Head(q) = q[1]
    OBVIOUS
  <1>2. \A i \in 1..(Len(q) - 1) : Tail(q)[i] = q[i + 1]
    OBVIOUS
  <1>3. ASSUME NEW f, Carries(q, f), f # Head(q)
        PROVE  Carries(Tail(q), f)
    <2>1. PICK i \in 1..Len(q) : q[i] = f
      BY <1>3 DEF Carries
    <2>2. i - 1 \in 1..(Len(q) - 1) /\ (i - 1) + 1 = i
      BY <1>1, <1>3, <2>1
    <2> QED
      BY <1>1, <1>2, <2>1, <2>2 DEF Carries
  <1>4. ASSUME NEW f, Carries(Tail(q), f)
        PROVE  Carries(q, f)
    <2>1. PICK i \in 1..(Len(q) - 1) : Tail(q)[i] = f
      BY <1>1, <1>4 DEF Carries
    <2>2. i + 1 \in 1..Len(q)
      BY <1>1, <2>1
    <2> QED
      BY <1>2, <2>1, <2>2 DEF Carries
  <1>5. 1 \in 1..Len(q)
    BY <1>1
  <1> QED
    BY <1>1, <1>3, <1>4, <1>5 DEF Carries

\* A new subscription is put behind whatever the wire carries: its subscribe stays
\* ahead of its unsubscribe.
LEMMA FirstAppended ==
    ASSUME NEW S, NEW q \in Seq(S), NEW e \in S, NEW s, SubscribesFirst(q, s),
           e = <<"subscribe", s>> =>
               ~Carries(q, <<"subscribe", s>>) /\ ~Carries(q, <<"unsubscribe", s>>)
    PROVE  SubscribesFirst(Append(q, e), s)
  <1>1. Len(q) \in Nat /\ Len(Append(q, e)) = Len(q) + 1
    OBVIOUS
  <1>2. \A i \in 1..(Len(q) + 1) : Append(q, e)[i] = IF i = Len(q) + 1 THEN e ELSE q[i]
    OBVIOUS
  <1>3. SUFFICES ASSUME NEW i \in 1..(Len(q) + 1), NEW j \in 1..(Len(q) + 1),
                        Append(q, e)[i] = <<"subscribe", s>>,
                        Append(q, e)[j] \in {<<"subscribe", s>>, <<"unsubscribe", s>>}
                 PROVE  i <= j
    BY <1>1 DEF SubscribesFirst
  <1>4. CASE j = Len(q) + 1
    BY <1>1, <1>4
  <1>5. CASE i # Len(q) + 1 /\ j # Len(q) + 1
    <2>1. i \in 1..Len(q) /\ j \in 1..Len(q)
      BY <1>1, <1>5
    <2> QED
      BY <1>2, <1>3, <1>5, <2>1 DEF SubscribesFirst
  <1>6. CASE i = Len(q) + 1 /\ j # Len(q) + 1
    <2>1. j \in 1..Len(q)
      BY <1>1, <1>6
    <2>2. e = <<"subscribe", s>> /\ q[j] \in {<<"subscribe", s>>, <<"unsubscribe", s>>}
      BY <1>2, <1>3, <1>6
    <2> QED
      BY <2>1, <2>2 DEF Carries
  <1> QED
    BY <1>4, <1>5, <1>6

\* Taking the head of a wire leaves the two frames of a subscription in order, and an
\* unsubscribe at the head has no subscribe behind it.
LEMMA FirstTaken ==
    ASSUME NEW S, NEW q \in Seq(S), q # <<>>, NEW s, SubscribesFirst(q, s)
    PROVE  /\ SubscribesFirst(Tail(q), s)
           /\ Head(q) = <<"unsubscribe", s>> => ~Carries(q, <<"subscribe", s>>)
           /\ Head(q) = <<"subscribe", s>> => ~Carries(Tail(q), <<"subscribe", s>>)
  <1>1. Len(q) \in Nat \ {0} /\ Len(Tail(q)) = Len(q) - 1 /\ Head(q) = q[1]
    OBVIOUS
  <1>2. \A i \in 1..(Len(q) - 1) : Tail(q)[i] = q[i + 1]
    OBVIOUS
  <1>3. \A i \in 1..(Len(q) - 1) : i + 1 \in 1..Len(q)
    BY <1>1
  <1>4. 1 \in 1..Len(q)
    BY <1>1
  <1>5. SubscribesFirst(Tail(q), s)
    <2>1. SUFFICES ASSUME NEW i \in 1..(Len(q) - 1), NEW j \in 1..(Len(q) - 1),
                          Tail(q)[i] = <<"subscribe", s>>,
                          Tail(q)[j] \in {<<"subscribe", s>>, <<"unsubscribe", s>>}
                   PROVE  i <= j
      BY <1>1 DEF SubscribesFirst
    <2>2. i + 1 <= j + 1
      BY <1>2, <1>3, <2>1 DEF SubscribesFirst
    <2> QED
      BY <2>2
  <1>6. ASSUME Head(q) = <<"unsubscribe", s>>, Carries(q, <<"subscribe", s>>)
        PROVE  FALSE
    <2>1. PICK i \in 1..Len(q) : q[i] = <<"subscribe", s>>
      BY <1>6 DEF Carries
    <2>2. i <= 1
      BY <1>1, <1>4, <1>6, <2>1 DEF SubscribesFirst
    <2>3. q[1] = <<"subscribe", s>>
      BY <2>1, <2>2
    <2> QED
      BY <1>1, <1>6, <2>3
  <1>7. ASSUME Head(q) = <<"subscribe", s>>, Carries(Tail(q), <<"subscribe", s>>)
        PROVE  FALSE
    <2>1. PICK i \in 1..(Len(q) - 1) : Tail(q)[i] = <<"subscribe", s>>
      BY <1>1, <1>7 DEF Carries
    <2>2. q[i + 1] = <<"subscribe", s>> /\ i + 1 \in 1..Len(q)
      BY <1>2, <1>3, <2>1
    <2>3. i + 1 <= 1
      BY <1>1, <1>4, <1>7, <2>2 DEF SubscribesFirst
    <2> QED
      BY <2>1, <2>3
  <1> QED
    BY <1>5, <1>6, <1>7


\* What a send leaves in the stream: its frame, or nothing when nobody is there.
LEMMA SendEffect ==
    ASSUME TypeOK, NEW f \in Frames, Send(f)
    PROVE  /\ \A g : Carries(toWorker', g) => Carries(toWorker, g) \/ (g = f /\ ~PeerGone)
           /\ \A g : Carries(toWorker, g) => Carries(toWorker', g)
           /\ ~PeerGone => Carries(toWorker', f)
           /\ \A s : /\ SubscribesFirst(toWorker, s)
                     /\ f = <<"subscribe", s>> => ~Carries(toWorker, <<"subscribe", s>>)
                                                    /\ ~Carries(toWorker, <<"unsubscribe", s>>)
                     => SubscribesFirst(toWorker', s)
  <1>1. toWorker \in Seq(Frames)
    BY DEF TypeOK
  <1>2. CASE ~PeerGone /\ toWorker' = Append(toWorker, f)
    <2>1. \A g : Carries(toWorker', g) <=> Carries(toWorker, g) \/ g = f
      BY <1>1, <1>2, CarriesAppended
    <2>2. ASSUME NEW s, SubscribesFirst(toWorker, s),
                 f = <<"subscribe", s>> => ~Carries(toWorker, <<"subscribe", s>>)
                                            /\ ~Carries(toWorker, <<"unsubscribe", s>>)
          PROVE  SubscribesFirst(toWorker', s)
      BY <1>1, <1>2, <2>2, FirstAppended
    <2> QED
      BY <1>2, <2>1, <2>2
  <1>3. CASE PeerGone /\ UNCHANGED toWorker
    BY <1>3
  <1> QED
    BY <1>2, <1>3 DEF Send

\* A send that is given up leaves nothing of a subscription behind.
LEMMA GiveUpEffect ==
    ASSUME TypeOK, GiveUpSend
    PROVE  /\ \A g : Carries(toWorker', g) => Carries(toWorker, g) \/ g = <<"torn", None>>
           /\ \A g : Carries(toWorker, g) => Carries(toWorker', g)
           /\ \A s : SubscribesFirst(toWorker, s) => SubscribesFirst(toWorker', s)
  <1>1. toWorker \in Seq(Frames) /\ <<"torn", None>> \in Frames
    BY FramesAreTyped DEF TypeOK
  <1>2. CASE toWorker' = Append(toWorker, <<"torn", None>>)
    <2>1. \A g : Carries(toWorker', g) <=> Carries(toWorker, g) \/ g = <<"torn", None>>
      BY <1>1, <1>2, CarriesAppended
    <2>2. ASSUME NEW s, SubscribesFirst(toWorker, s)
          PROVE  SubscribesFirst(toWorker', s)
      <3>1. <<"torn", None>> # <<"subscribe", s>>
        OBVIOUS
      <3> QED
        BY <1>1, <1>2, <2>2, <3>1, FirstAppended
    <2> QED
      BY <2>1, <2>2
  <1>3. CASE UNCHANGED toWorker
    BY <1>3
  <1> QED
    BY <1>2, <1>3 DEF GiveUpSend

\* What serve takes out of the stream, and what that says of the rest.
LEMMA TakeEffect ==
    ASSUME TypeOK, NEW kind, NEW id, Take(kind, id)
    PROVE  /\ \A g : Carries(toWorker, g) <=> g = <<kind, id>> \/ Carries(toWorker', g)
           /\ \A s : SubscribesFirst(toWorker, s) =>
                /\ SubscribesFirst(toWorker', s)
                /\ <<kind, id>> = <<"unsubscribe", s>> => ~Carries(toWorker, <<"subscribe", s>>)
                /\ <<kind, id>> = <<"subscribe", s>> => ~Carries(toWorker', <<"subscribe", s>>)
  <1>1. /\ toWorker \in Seq(Frames) /\ toWorker # <<>>
        /\ Head(toWorker) = <<kind, id>> /\ toWorker' = Tail(toWorker)
    BY DEF Take, TypeOK
  <1>2. \A g : Carries(toWorker, g) <=> g = <<kind, id>> \/ Carries(toWorker', g)
    BY <1>1, CarriesTaken
  <1>3. ASSUME NEW s, SubscribesFirst(toWorker, s)
        PROVE  /\ SubscribesFirst(toWorker', s)
               /\ <<kind, id>> = <<"unsubscribe", s>> => ~Carries(toWorker, <<"subscribe", s>>)
               /\ <<kind, id>> = <<"subscribe", s>> => ~Carries(toWorker', <<"subscribe", s>>)
    BY <1>1, <1>3, FirstTaken
  <1> QED
    BY <1>2, <1>3

\* What the worker answers is carried on, behind the rest.
LEMMA ReplyEffect ==
    ASSUME TypeOK, NEW kind, NEW id, <<kind, id>> \in Replies, Reply(kind, id)
    PROVE  \A g : Carries(fromWorker', g) <=> Carries(fromWorker, g) \/ g = <<kind, id>>
  <1>1. fromWorker \in Seq(Replies) /\ fromWorker' = Append(fromWorker, <<kind, id>>)
    BY DEF Reply, TypeOK
  <1> QED
    BY <1>1, CarriesAppended

\* What the demultiplexer takes was carried, and nothing else leaves the wire.
LEMMA ReceivedEffect ==
    ASSUME TypeOK, NEW kind, NEW id, Received(kind, id)
    PROVE  \A g : Carries(fromWorker, g) <=> g = <<kind, id>> \/ Carries(fromWorker', g)
  <1>1. /\ fromWorker \in Seq(Replies) /\ fromWorker # <<>>
        /\ Head(fromWorker) = <<kind, id>> /\ fromWorker' = Tail(fromWorker)
    BY DEF Received, TypeOK
  <1> QED
    BY <1>1, CarriesTaken

\* Nobody comes back.
LEMMA ServingEnds ==
    ASSUME TypeOK, Next, Serving'
    PROVE  Serving
  <1> USE DEF Serving, PeerGone, TypeOK
  <1>1. ASSUME NEW c \in Calls, CallCheck(c) \/ CallStep(c) \/ CallDropped(c) \/ CallDone(c)
        PROVE  Serving
    BY <1>1 DEF CallCheck, CallStep, CallInsert, CallSend, CallTimeout, CallDropped, CallDone,
         readVars, workVars
  <1>2. ASSUME NEW s \in Subs,
               \/ SubCheck(s) \/ SubStep(s) \/ SubDropped(s) \/ Consume(s)
               \/ DropReceiver(s) \/ SeesEnd(s)
               \/ StreamEvent(s) \/ StreamEnd(s) \/ StreamStops(s)
        PROVE  Serving
    <2>1. UNCHANGED <<closed, closer, worker>>
      BY <1>2 DEF SubCheck, SubStep, SubInsert, SubSend, SubTimeout, WatchClosed, WatchEnded,
           SendUnsubscribe, SubDropped, Consume, DropReceiver, SeesEnd, StreamEvent, StreamEnd,
           StreamStops, readVars, workVars
    <2> QED
      BY <2>1
  <1>3. CASE ReaderStep
    BY <1>3 DEF ReaderStep, ReadResult, ReadEvent, ReadEnd, StallEnds, StallLimit,
         ReaderUnsubscribes, ReadEof, ReaderEnds, readVars, workVars
  <1>4. CASE ShutdownBegin \/ CloserStep
    BY <1>4 DEF ShutdownBegin, CloserStep, ShutdownSend, ShutdownGrace, ShutdownForce, KillWorker,
         readVars, workVars
  <1>5. CASE ServeStep \/ Crash \/ AllOver
    BY <1>5 DEF ServeStep, ServeCall, ServeSubscribe, ServeUnsubscribe, ServeShutdown, ServeTorn,
         Take, Dies, KillWorker, CancelStreams, CloseWriteSide, Exit, Crash, AllOver, vars,
         readVars, workVars
  <1> QED
    BY <1>1, <1>2, <1>3, <1>4, <1>5 DEF Next

\* On a new connection no subscription has started.
LEMMA InitStreamInv == Init => StreamInv
  <1> SUFFICES ASSUME Init PROVE StreamInv
    OBVIOUS
  <1>1. toWorker = <<>> /\ fromWorker = <<>>
    BY DEF Init
  <1>2. \A g : ~Carries(toWorker, g) /\ ~Carries(fromWorker, g)
    BY <1>1 DEF Carries
  <1>3. \A s : SubscribesFirst(toWorker, s)
    BY <1>1 DEF SubscribesFirst
  <1> QED
    BY <1>2, <1>3, InitTypeInv, ConstantsAssumption
       DEF Init, StreamInv, ClosedFirst, Untouched, StartsOnce, Watched


\* The rest of an invariant that a step leaves alone: no frame of a subscription
\* comes or goes, and nothing is noted of any.
LEMMA OthersKeepStreamInv ==
    ASSUME StreamInv, TypeInv', Serving' => Serving,
           UNCHANGED <<subVars, reader, held, stream, made>>,
           closed' \in {closed, TRUE},
           \A s \in Subs : SubscribesFirst(toWorker, s) => SubscribesFirst(toWorker', s),
           \A s \in Subs :
               /\ Carries(toWorker', <<"subscribe", s>>) <=> Carries(toWorker, <<"subscribe", s>>)
               /\ Carries(toWorker', <<"unsubscribe", s>>) <=> Carries(toWorker, <<"unsubscribe", s>>)
               /\ Carries(fromWorker', <<"event", s>>) <=> Carries(fromWorker, <<"event", s>>)
               /\ Carries(fromWorker', <<"end", s>>) <=> Carries(fromWorker, <<"end", s>>)
    PROVE  StreamInv'
  BY DEF StreamInv, ClosedFirst, Untouched, Fresh, StartsOnce, Watched, subVars

\* Calls share the connection, and that is all.
LEMMA CallKeepsStreamInv ==
    ASSUME StreamInv, TypeInv', Serving' => Serving, NEW c \in Calls,
           CallCheck(c) \/ CallStep(c) \/ CallDropped(c) \/ CallDone(c)
    PROVE  StreamInv'
  <1>1. TypeOK
    BY DEF StreamInv, TypeInv
  <1>2. CASE CallSend(c)
    <2>1. <<"call", c>> \in Frames /\ Send(<<"call", c>>)
      BY <1>2, FramesAreTyped DEF CallSend
    <2>2. /\ \A g : Carries(toWorker', g) => Carries(toWorker, g) \/ g = <<"call", c>>
          /\ \A g : Carries(toWorker, g) => Carries(toWorker', g)
          /\ \A s \in Subs : SubscribesFirst(toWorker, s) => SubscribesFirst(toWorker', s)
      BY <1>1, <2>1, SendEffect
    <2>3. /\ UNCHANGED <<subVars, reader, held, stream, made, fromWorker, closed>>
      BY <1>2 DEF CallSend, readVars, workVars
    <2> QED
      BY <2>2, <2>3, OthersKeepStreamInv
  <1>3. CASE (CallTimeout(c) \/ CallDropped(c)) /\ GiveUpSend
    <2>1. /\ \A g : Carries(toWorker', g) => Carries(toWorker, g) \/ g = <<"torn", None>>
          /\ \A g : Carries(toWorker, g) => Carries(toWorker', g)
          /\ \A s \in Subs : SubscribesFirst(toWorker, s) => SubscribesFirst(toWorker', s)
      BY <1>1, <1>3, GiveUpEffect
    <2>2. /\ UNCHANGED <<subVars, reader, held, stream, made, fromWorker, closed>>
      BY <1>3 DEF CallTimeout, CallDropped, readVars, workVars
    <2> QED
      BY <2>1, <2>2, OthersKeepStreamInv
  <1>4. CASE CallDone(c)
    <2>1. <<"result", c>> \in Replies /\ Reply("result", c)
      BY <1>4, RepliesAreTyped DEF CallDone
    <2>2. \A g : Carries(fromWorker', g) <=> Carries(fromWorker, g) \/ g = <<"result", c>>
      BY <1>1, <2>1, ReplyEffect
    <2>3. UNCHANGED <<subVars, reader, held, stream, made, toWorker, closed>>
      BY <1>4 DEF CallDone, readVars
    <2> QED
      BY <2>2, <2>3, OthersKeepStreamInv
  <1>5. CASE UNCHANGED <<subVars, reader, held, stream, made, closed, toWorker, fromWorker>>
    BY <1>5, OthersKeepStreamInv
  <1> QED
    BY <1>2, <1>3, <1>4, <1>5
       DEF CallStep, CallCheck, CallInsert, CallTimeout, CallDropped, readVars, workVars

\* A step of the subscription s in the main process.
LEMMA SubKeepsStreamInv ==
    ASSUME StreamInv, TypeInv', Serving' => Serving, NEW s \in Subs,
           SubCheck(s) \/ SubStep(s) \/ SubDropped(s) \/ Consume(s) \/ DropReceiver(s) \/ SeesEnd(s)
    PROVE  StreamInv'
  <1>0. TypeOK /\ TypeOK'
    BY DEF StreamInv, TypeInv
  <1>1. /\ <<"subscribe", s>> \in Frames /\ <<"unsubscribe", s>> \in Frames
    BY FramesAreTyped
  <1>2. SUFFICES ASSUME NEW x \in Subs
                 PROVE  ClosedFirst' /\ Untouched(x)' /\ StartsOnce(x)' /\ Watched(x)'
    BY DEF StreamInv
  <1>9. <<"unsubscribe", s>> # <<"subscribe", x>>
    OBVIOUS
  <1> USE DEF StreamInv, ClosedFirst, Untouched, Fresh, StartsOnce, Watched, TypeOK,
              callVars, readVars, workVars
  <1>3. CASE SubCheck(s) \/ SubInsert(s)
    BY <1>0, <1>3, SMTT(60) DEF SubCheck, SubInsert
  <1>4. CASE SubSend(s)
    <2>1. /\ \A g : Carries(toWorker', g) => Carries(toWorker, g) \/ (g = <<"subscribe", s>> /\ ~PeerGone)
          /\ \A g : Carries(toWorker, g) => Carries(toWorker', g)
          /\ SubscribesFirst(toWorker', x)
      BY <1>0, <1>1, <1>4, SendEffect DEF SubSend
    <2>2. Serving => ~PeerGone
      BY DEF Serving
    <2>3. sub'[s] \in {"open", "failed"} /\ \A y \in Subs \ {s} : sub'[y] = sub[y]
      BY <1>0, <1>4, SMTT(30) DEF SubSend
    <2>4. \A y \in Subs \ {s} : watcher'[y] = watcher[y] /\ (y \in subs' <=> y \in subs)
      BY <1>0, <1>4 DEF SubSend
    <2>5. UNCHANGED <<queue, seen, unsub, reader, held, closed, fromWorker, stream, made>>
      BY <1>4 DEF SubSend
    <2>6. CASE x # s
      BY <2>1, <2>2, <2>3, <2>4, <2>5, <2>6, SMTT(60)
    <2>7. CASE x = s /\ PeerGone
      BY <1>0, <1>4, <2>1, <2>2, <2>3, <2>5, <2>7, SMTT(60) DEF SubSend
    <2>8. CASE x = s /\ ~PeerGone
      <3>1. sub[s] = "sending" /\ sub'[s] = "open" /\ subs' = subs
        BY <1>0, <1>4, <2>8 DEF SubSend
      <3>2. /\ stream[s] = "none" /\ ~Carries(fromWorker, <<"end", s>>)
            /\ Serving => s \in subs
        BY <3>1
      <3>3. Untouched(x)'
        BY <2>8, <3>1
      <3>4. StartsOnce(x)' /\ Watched(x)'
        BY <2>1, <2>5, <2>8, <3>1, <3>2
      <3> QED
        BY <2>5, <3>3, <3>4
    <2> QED
      BY <2>6, <2>7, <2>8
  <1>5. CASE SubTimeout(s) \/ SubDropped(s)
    <2>1. /\ \A g : Carries(toWorker', g) => Carries(toWorker, g) \/ g = <<"torn", None>>
          /\ \A g : Carries(toWorker, g) => Carries(toWorker', g)
          /\ SubscribesFirst(toWorker', x)
      BY <1>0, <1>5, GiveUpEffect DEF SubTimeout, SubDropped
    <2> QED
      BY <1>0, <1>5, <2>1, SMTT(60) DEF SubTimeout, SubDropped
  <1>6. CASE Consume(s) \/ DropReceiver(s) \/ SeesEnd(s)
    BY <1>0, <1>6, SMTT(60) DEF Consume, DropReceiver, SeesEnd
  <1>7. CASE WatchClosed(s) \/ WatchEnded(s)
    BY <1>0, <1>7, SMTT(60) DEF WatchClosed, WatchEnded, DropArmed
  <1>8. CASE SendUnsubscribe(s)
    <2>1. CASE closed /\ UNCHANGED toWorker
      BY <1>0, <1>8, <2>1, SMTT(60) DEF SendUnsubscribe, Serving
    <2>2. CASE Send(<<"unsubscribe", s>>)
      <3>1. /\ \A g : Carries(toWorker', g) => Carries(toWorker, g) \/ (g = <<"unsubscribe", s>> /\ ~PeerGone)
            /\ \A g : Carries(toWorker, g) => Carries(toWorker', g)
            /\ ~PeerGone => Carries(toWorker', <<"unsubscribe", s>>)
            /\ SubscribesFirst(toWorker', x)
        BY <1>0, <1>1, <1>9, <2>2, SendEffect
      <3>2. Serving => ~PeerGone
        BY DEF Serving
      <3> QED
        <4>1. s \in unsub /\ unsub' = unsub \ {s}
          BY <1>8 DEF SendUnsubscribe
        <4>2. UNCHANGED <<sub, subs, watcher, queue, seen, closed, reader, held, fromWorker, stream, made>>
          BY <1>8 DEF SendUnsubscribe
        <4>3. Carries(toWorker', <<"subscribe", x>>) => Carries(toWorker, <<"subscribe", x>>)
          BY <1>9, <3>1
        <4>4. CASE x = s
          <5>1. ~Fresh(x)
            BY <4>1, <4>4
          <5>2. Serving => Carries(toWorker', <<"unsubscribe", x>>)
            BY <3>1, <3>2, <4>4
          <5> QED
            BY <3>1, <4>2, <4>3, <5>1, <5>2
        <4>5. CASE x # s
          <5>1. Carries(toWorker', <<"unsubscribe", x>>) <=> Carries(toWorker, <<"unsubscribe", x>>)
            BY <3>1, <4>5
          <5>2. x \in unsub' <=> x \in unsub
            BY <4>1, <4>5
          <5> QED
            BY <3>1, <4>2, <4>3, <5>1, <5>2
        <4> QED
          BY <4>4, <4>5
    <2> QED
      BY <1>8, <2>1, <2>2 DEF SendUnsubscribe
  <1> QED
    BY <1>3, <1>4, <1>5, <1>6, <1>7, <1>8 DEF SubStep

\* A step of the stream s in the worker.
LEMMA StreamKeepsStreamInv ==
    ASSUME StreamInv, TypeInv', Serving' => Serving, NEW s \in Subs,
           StreamEvent(s) \/ StreamEnd(s) \/ StreamStops(s)
    PROVE  StreamInv'
  <1>0. TypeOK /\ TypeOK'
    BY DEF StreamInv, TypeInv
  <1>1. /\ <<"event", s>> \in Replies /\ <<"end", s>> \in Replies
    BY RepliesAreTyped
  <1>2. SUFFICES ASSUME NEW x \in Subs
                 PROVE  ClosedFirst' /\ Untouched(x)' /\ StartsOnce(x)' /\ Watched(x)'
    BY DEF StreamInv
  <1> USE DEF StreamInv, ClosedFirst, Untouched, Fresh, StartsOnce, Watched, TypeOK,
              callVars, subVars, readVars
  <1>3. CASE StreamEvent(s)
    <2>1. \A g : Carries(fromWorker', g) <=> Carries(fromWorker, g) \/ g = <<"event", s>>
      BY <1>0, <1>1, <1>3, ReplyEffect DEF StreamEvent
    <2> QED
      BY <1>0, <1>3, <2>1, SMTT(60) DEF StreamEvent
  <1>4. CASE StreamEnd(s)
    <2>1. \A g : Carries(fromWorker', g) <=> Carries(fromWorker, g) \/ g = <<"end", s>>
      BY <1>0, <1>1, <1>4, ReplyEffect DEF StreamEnd
    <2> QED
      BY <1>0, <1>4, <2>1, SMTT(60) DEF StreamEnd
  <1>5. CASE StreamStops(s)
    BY <1>0, <1>5, SMTT(60) DEF StreamStops
  <1> QED
    BY <1>3, <1>4, <1>5

\* A step of the reader.
LEMMA ReaderKeepsStreamInv ==
    ASSUME StreamInv, TypeInv', Serving' => Serving, ReaderStep
    PROVE  StreamInv'
  <1>0. TypeOK /\ TypeOK' /\ (reader \in {"stalled", "unsub"} => held \in Subs)
    BY DEF StreamInv, TypeInv
  <1>1. ASSUME NEW kind, NEW id, Received(kind, id)
        PROVE  \A g : Carries(fromWorker, g) <=> g = <<kind, id>> \/ Carries(fromWorker', g)
    BY <1>0, <1>1, ReceivedEffect
  <1>a. ClosedFirst'
    BY DEF StreamInv, ClosedFirst, ReaderStep, ReadResult, ReadEvent, WaitForRoom, ReadEnd,
           StallEnds, StallLimit, ReaderUnsubscribes, ReadEof, ReaderEnds, readVars
  <1>2. SUFFICES ASSUME NEW x \in Subs
                 PROVE  Untouched(x)' /\ StartsOnce(x)' /\ Watched(x)'
    BY <1>a DEF StreamInv
  <1> USE DEF StreamInv, Untouched, Fresh, StartsOnce, Watched, TypeOK,
              callVars, subVars, readVars, workVars
  <1>3. ASSUME NEW c \in Calls, ReadResult(c)
        PROVE  Untouched(x)' /\ StartsOnce(x)' /\ Watched(x)'
    <2>1. \A g : Carries(fromWorker, g) <=> g = <<"result", c>> \/ Carries(fromWorker', g)
      BY <1>1, <1>3 DEF ReadResult
    <2> QED
      BY <1>0, <1>3, <2>1, SMTT(60) DEF ReadResult
  <1>4. ASSUME NEW s \in Subs, ReadEvent(s)
        PROVE  Untouched(x)' /\ StartsOnce(x)' /\ Watched(x)'
    <2>1. \A g : Carries(fromWorker, g) <=> g = <<"event", s>> \/ Carries(fromWorker', g)
      BY <1>1, <1>4 DEF ReadEvent
    <2>2. reader = "reading"
      BY <1>4 DEF ReadEvent, Received
    <2> QED
      BY <1>0, <1>4, <2>1, <2>2, SMTT(60) DEF ReadEvent, WaitForRoom
  <1>5. ASSUME NEW s \in Subs, ReadEnd(s)
        PROVE  Untouched(x)' /\ StartsOnce(x)' /\ Watched(x)'
    <2>1. \A g : Carries(fromWorker, g) <=> g = <<"end", s>> \/ Carries(fromWorker', g)
      BY <1>1, <1>5 DEF ReadEnd
    <2> QED
      BY <1>0, <1>5, <2>1, SMTT(60) DEF ReadEnd
  <1>6. CASE StallEnds
    <2>1. held \in Subs /\ held # None
      BY <1>0, <1>6, ConstantsAssumption DEF StallEnds
    <2>2. Fresh(x) => queue'[x] = queue[x] /\ held' # x
      <3>1. held' = None /\ (queue' = queue \/ queue' = [queue EXCEPT ![held] = @ + 1])
        BY <1>6 DEF StallEnds
      <3>2. x # None
        BY ConstantsAssumption
      <3>3. Fresh(x) => x # held
        OBVIOUS
      <3> QED
        BY <1>0, <3>1, <3>2, <3>3
    <2>3. /\ UNCHANGED <<sub, subs, watcher, seen, unsub, closed, toWorker, fromWorker, stream, made>>
          /\ reader # "unsub"
      BY <1>6 DEF StallEnds
    <2>4. Untouched(x)'
      BY <1>2, <2>2, <2>3
    <2>5. StartsOnce(x)' /\ Watched(x)'
      BY <1>2, <2>3
    <2> QED
      BY <2>4, <2>5
  <1>7. CASE StallLimit
    BY <1>0, <1>7, SMTT(60) DEF StallLimit
  <1>8. CASE ReaderUnsubscribes
    <2>0. held \in Subs /\ held' \notin Subs
      BY <1>0, <1>8, ConstantsAssumption DEF ReaderUnsubscribes
    <2>1. CASE closed /\ UNCHANGED toWorker
      BY <1>0, <1>8, <2>0, <2>1, SMTT(60) DEF ReaderUnsubscribes, Serving
    <2>2. CASE Send(<<"unsubscribe", held>>)
      <3>1. <<"unsubscribe", held>> \in Frames
        BY <2>0, FramesAreTyped
      <3>2. /\ \A g : Carries(toWorker', g) => Carries(toWorker, g) \/ (g = <<"unsubscribe", held>> /\ ~PeerGone)
            /\ \A g : Carries(toWorker, g) => Carries(toWorker', g)
            /\ ~PeerGone => Carries(toWorker', <<"unsubscribe", held>>)
            /\ SubscribesFirst(toWorker', x)
        <4>1. <<"unsubscribe", held>> # <<"subscribe", x>>
          OBVIOUS
        <4>2. TypeOK /\ SubscribesFirst(toWorker, x)
          BY <1>0, <1>2
        <4> HIDE DEF StreamInv, Untouched, StartsOnce, Watched, TypeOK
        <4> QED
          BY <2>2, <3>1, <4>1, <4>2, SendEffect
      <3>3. Serving => ~PeerGone
        BY DEF Serving
      <3> QED
        <4>1. reader = "unsub" /\ reader' = "reading"
          BY <1>8 DEF ReaderUnsubscribes
        <4>2. UNCHANGED <<sub, subs, watcher, queue, seen, unsub, closed, fromWorker, stream, made>>
          BY <1>8 DEF ReaderUnsubscribes
        <4>3. Carries(toWorker', <<"subscribe", x>>) => Carries(toWorker, <<"subscribe", x>>)
          BY <3>2
        <4>4. CASE x = held
          <5>1. ~Fresh(x)
            BY <4>4
          <5>2. Serving => Carries(toWorker', <<"unsubscribe", x>>)
            BY <3>2, <3>3, <4>4
          <5> QED
            BY <3>2, <4>2, <4>3, <5>1, <5>2
        <4>5. CASE x # held
          <5>1. Carries(toWorker', <<"unsubscribe", x>>) <=> Carries(toWorker, <<"unsubscribe", x>>)
            BY <3>2, <4>5
          <5>2. x # held'
            BY <2>0
          <5> QED
            BY <3>2, <4>1, <4>2, <4>3, <4>5, <5>1, <5>2
        <4> QED
          BY <4>4, <4>5
    <2> QED
      BY <1>8, <2>1, <2>2 DEF ReaderUnsubscribes
  <1>9. CASE ReadEof
    BY <1>0, <1>9, SMTT(60) DEF ReadEof
  <1>10. CASE ReaderEnds
    BY <1>0, <1>10, SMTT(60) DEF ReaderEnds, Serving, ClosedFirst
  <1> QED
    BY <1>3, <1>4, <1>5, <1>6, <1>7, <1>8, <1>9, <1>10 DEF ReaderStep

\* The worker is gone, and its streams with it.
LEMMA KillKeepsStreamInv ==
    ASSUME StreamInv, TypeInv', KillWorker, toWorker' \in {toWorker, <<>>}, closed' \in {closed, TRUE},
           UNCHANGED <<subVars, reader, held, fromWorker, made>>
    PROVE  StreamInv'
  <1>1. \A g : Carries(toWorker', g) => Carries(toWorker, g)
    BY DEF Carries
  <1>2. \A s \in Subs : SubscribesFirst(toWorker', s)
    <2>1. CASE toWorker' = <<>>
      BY <2>1 DEF SubscribesFirst
    <2>2. CASE UNCHANGED toWorker
      BY <2>2 DEF StreamInv, StartsOnce
    <2> QED
      BY <2>1, <2>2
  <1>3. ~Serving'
    BY DEF KillWorker, Serving
  <1> QED
    BY <1>1, <1>2, <1>3
       DEF StreamInv, ClosedFirst, Untouched, Fresh, StartsOnce, Watched, KillWorker, subVars

\* shutdown.
LEMMA CloserKeepsStreamInv ==
    ASSUME StreamInv, TypeInv', Serving' => Serving, ShutdownBegin \/ CloserStep
    PROVE  StreamInv'
  <1>0. TypeOK
    BY DEF StreamInv, TypeInv
  <1>1. CASE ShutdownBegin \/ ShutdownGrace
    BY <1>1, OthersKeepStreamInv DEF ShutdownBegin, ShutdownGrace, readVars, workVars
  <1>2. CASE ShutdownSend
    <2>1. <<"shutdown", None>> \in Frames /\ Send(<<"shutdown", None>>)
      BY <1>2, FramesAreTyped DEF ShutdownSend
    <2>2. /\ \A g : Carries(toWorker', g) => Carries(toWorker, g) \/ g = <<"shutdown", None>>
          /\ \A g : Carries(toWorker, g) => Carries(toWorker', g)
          /\ \A s \in Subs : SubscribesFirst(toWorker, s) => SubscribesFirst(toWorker', s)
      BY <1>0, <2>1, SendEffect
    <2>3. UNCHANGED <<subVars, reader, held, stream, made, fromWorker, closed>>
      BY <1>2 DEF ShutdownSend, readVars, workVars
    <2> QED
      BY <2>2, <2>3, OthersKeepStreamInv
  <1>3. CASE ShutdownForce
    <2>1. CASE closed
      BY <1>3, <2>1, OthersKeepStreamInv DEF ShutdownForce
    <2>2. CASE ~closed
      BY <1>3, <2>2, KillKeepsStreamInv DEF ShutdownForce
    <2> QED
      BY <2>1, <2>2
  <1> QED
    BY <1>1, <1>2, <1>3 DEF CloserStep

\* The worker.
LEMMA ServeKeepsStreamInv ==
    ASSUME StreamInv, TypeInv', Serving' => Serving, ServeStep \/ Crash \/ AllOver
    PROVE  StreamInv'
  <1>0. TypeOK /\ TypeOK'
    BY DEF StreamInv, TypeInv
  <1>1. ASSUME NEW c \in Calls, ServeCall(c)
        PROVE  StreamInv'
    <2>1. /\ \A g : Carries(toWorker, g) <=> g = <<"call", c>> \/ Carries(toWorker', g)
          /\ \A s \in Subs : SubscribesFirst(toWorker, s) => SubscribesFirst(toWorker', s)
      BY <1>0, <1>1, TakeEffect DEF ServeCall
    <2>2. UNCHANGED <<subVars, reader, held, stream, made, fromWorker, closed>>
      BY <1>1 DEF ServeCall, readVars
    <2> QED
      BY <2>1, <2>2, OthersKeepStreamInv
  <1>2. CASE ServeShutdown
    <2>1. /\ \A g : Carries(toWorker, g) <=> g = <<"shutdown", None>> \/ Carries(toWorker', g)
          /\ \A s \in Subs : SubscribesFirst(toWorker, s) => SubscribesFirst(toWorker', s)
      BY <1>0, <1>2, TakeEffect DEF ServeShutdown
    <2>2. UNCHANGED <<subVars, reader, held, stream, made, fromWorker, closed>>
      BY <1>2 DEF ServeShutdown, readVars
    <2> QED
      BY <2>1, <2>2, OthersKeepStreamInv
  <1>3. CASE CloseWriteSide \/ AllOver
    BY <1>3, OthersKeepStreamInv DEF CloseWriteSide, AllOver, readVars, workVars, vars
  <1>4. CASE ServeTorn \/ Exit \/ Crash
    BY <1>4, KillKeepsStreamInv DEF ServeTorn, Exit, Crash, Dies, readVars
  <1>5. ASSUME NEW s \in Subs, ServeSubscribe(s) \/ ServeUnsubscribe(s) \/ CancelStreams
        PROVE  StreamInv'
    <2>1. SUFFICES ASSUME NEW x \in Subs
                   PROVE  ClosedFirst' /\ Untouched(x)' /\ StartsOnce(x)' /\ Watched(x)'
      BY DEF StreamInv
    <2>5. SubscribesFirst(toWorker, x)
      BY DEF StreamInv, StartsOnce
    <2>6. ASSUME Take("unsubscribe", s)
          PROVE  /\ \A g : Carries(toWorker, g) <=> g = <<"unsubscribe", s>> \/ Carries(toWorker', g)
                 /\ SubscribesFirst(toWorker', x)
                 /\ x = s => ~Carries(toWorker, <<"subscribe", x>>)
      BY <1>0, <2>5, <2>6, TakeEffect
    <2> USE DEF StreamInv, ClosedFirst, Untouched, Fresh, StartsOnce, Watched, TypeOK,
                callVars, subVars, readVars
    <2>2. CASE ServeSubscribe(s)
      <3>1. /\ \A g : Carries(toWorker, g) <=> g = <<"subscribe", s>> \/ Carries(toWorker', g)
            /\ SubscribesFirst(toWorker', x)
            /\ x = s => ~Carries(toWorker', <<"subscribe", x>>)
        BY <1>0, <2>2, TakeEffect DEF ServeSubscribe
      <3> QED
        BY <1>0, <2>2, <3>1, SMTT(60) DEF ServeSubscribe
    <2>3. CASE ServeUnsubscribe(s)
      <3>1. /\ \A g : Carries(toWorker, g) <=> g = <<"unsubscribe", s>> \/ Carries(toWorker', g)
            /\ SubscribesFirst(toWorker', x)
            /\ x = s => ~Carries(toWorker, <<"subscribe", x>>)
        BY <2>3, <2>6 DEF ServeUnsubscribe
      <3> QED
        BY <1>0, <2>3, <3>1, SMTT(60) DEF ServeUnsubscribe
    <2>4. CASE CancelStreams
      BY <1>0, <2>4, SMTT(60) DEF CancelStreams
    <2> QED
      BY <1>5, <2>2, <2>3, <2>4
  <1>6. CASE CancelStreams
    BY <1>5, <1>6 DEF CancelStreams
  <1> QED
    BY <1>1, <1>2, <1>3, <1>4, <1>5, <1>6 DEF ServeStep

\* Every step of the handle, the worker or the wires keeps the streams watched.
LEMMA NextStreamInv == StreamInv /\ [Next]_vars => StreamInv'
  <1> SUFFICES ASSUME StreamInv, [Next]_vars
               PROVE  StreamInv'
    OBVIOUS
  <1>0. TypeInv'
    BY NextTypeInv DEF StreamInv
  <1>1. CASE UNCHANGED vars
    BY <1>0, <1>1 DEF vars, subVars, readVars, workVars, StreamInv, ClosedFirst, Untouched, Fresh,
         StartsOnce, Watched, Serving, PeerGone
  <1>2. CASE Next
    <2>1. Serving' => Serving
      BY <1>2, ServingEnds DEF StreamInv, TypeInv
    <2> QED
      BY <1>0, <1>2, <2>1, CallKeepsStreamInv, SubKeepsStreamInv, StreamKeepsStreamInv,
         ReaderKeepsStreamInv, CloserKeepsStreamInv, ServeKeepsStreamInv DEF Next
  <1> QED
    BY <1>1, <1>2

\* However the end of a stream, the drop of its receiver, the stall limit and
\* the end of the connection meet: while both ends take part, a stream that runs
\* in the worker has its entry in the table, or its Unsubscribe is on the way.
THEOREM StreamsAreWatched == Spec => []StreamIsWatched
  <1>1. StreamInv => StreamIsWatched
    BY DEF StreamInv, Watched, Serving, Carries, StreamIsWatched
  <1> QED
    BY <1>1, InitStreamInv, NextStreamInv, PTL DEF Spec

-----------------------------------------------------------------------------
(* The events of a stream, counted.                                        *)

Places(q, f) == {i \in 1..Len(q) : q[i] = f}
Count(q, f) == Cardinality(Places(q, f))

\* The copies of a frame on a wire are finitely many, and none is carried when there are
\* none.
LEMMA CountIsNat ==
    ASSUME NEW S, NEW q \in Seq(S), NEW f
    PROVE  /\ IsFiniteSet(Places(q, f)) /\ Count(q, f) \in Nat
           /\ ~Carries(q, f) => Count(q, f) = 0
  <1>1. IsFiniteSet(1..Len(q))
    <2>1. 1 \in Int /\ Len(q) \in Int
      OBVIOUS
    <2> QED
      BY <2>1, FS_Interval
  <1>2. Places(q, f) \subseteq 1..Len(q)
    BY DEF Places
  <1>3. IsFiniteSet(Places(q, f))
    BY <1>1, <1>2, FS_Subset
  <1>4. ~Carries(q, f) => Places(q, f) = {}
    BY DEF Places, Carries
  <1> QED
    BY <1>3, <1>4, FS_CardinalityType, FS_EmptySet DEF Count

\* Putting a frame on a wire adds one copy of it.
LEMMA CountAppended ==
    ASSUME NEW S, NEW q \in Seq(S), NEW e \in S, NEW f
    PROVE  Count(Append(q, e), f) = IF f = e THEN Count(q, f) + 1 ELSE Count(q, f)
  <1>1. Len(q) \in Nat /\ Len(Append(q, e)) = Len(q) + 1
    OBVIOUS
  <1>2. \A i \in 1..(Len(q) + 1) : Append(q, e)[i] = IF i = Len(q) + 1 THEN e ELSE q[i]
    OBVIOUS
  <1>3. \A i : i \in 1..(Len(q) + 1) <=> i \in 1..Len(q) \/ i = Len(q) + 1
    BY <1>1
  <1>4. Len(q) + 1 \notin Places(q, f)
    BY <1>1 DEF Places
  <1>5. CASE f = e
    <2>1. Places(Append(q, e), f) = Places(q, f) \cup {Len(q) + 1}
      BY <1>1, <1>2, <1>3, <1>5 DEF Places
    <2> QED
      BY <1>4, <1>5, <2>1, CountIsNat, FS_AddElement DEF Count
  <1>6. CASE f # e
    <2>1. Places(Append(q, e), f) = Places(q, f)
      BY <1>1, <1>2, <1>3, <1>6 DEF Places
    <2> QED
      BY <1>6, <2>1 DEF Count
  <1> QED
    BY <1>5, <1>6

\* Taking the head of a wire removes one copy of it.
LEMMA CountTaken ==
    ASSUME NEW S, NEW q \in Seq(S), q # <<>>, NEW f
    PROVE  Count(q, f) = IF f = Head(q) THEN Count(Tail(q), f) + 1 ELSE Count(Tail(q), f)
  <1>1. Len(q) \in Nat \ {0} /\ Len(Tail(q)) = Len(q) - 1 /\ Head(q) = q[1]
    OBVIOUS
  <1>2. \A i \in 1..(Len(q) - 1) : Tail(q)[i] = q[i + 1]
    OBVIOUS
  <1> DEFINE Rest == {i \in 2..Len(q) : q[i] = f}
             next == [i \in Places(Tail(q), f) |-> i + 1]
  <1>3. next \in Bijection(Places(Tail(q), f), Rest)
    <2>1. \A i \in Places(Tail(q), f) : i \in Nat /\ i + 1 \in Rest
      BY <1>1, <1>2 DEF Places
    <2>2. \A i, j \in Places(Tail(q), f) : next[i] = next[j] => i = j
      BY <2>1
    <2>3. ASSUME NEW j \in Rest
          PROVE  \E i \in Places(Tail(q), f) : next[i] = j
      <3>1. j - 1 \in 1..(Len(q) - 1) /\ (j - 1) + 1 = j /\ q[j] = f
        BY <1>1
      <3>2. j - 1 \in Places(Tail(q), f)
        BY <1>1, <1>2, <3>1 DEF Places
      <3> QED
        BY <3>1, <3>2
    <2> QED
      BY <2>1, <2>2, <2>3, Fun_IsBij
  <1>4. Tail(q) \in Seq(S)
    OBVIOUS
  <1>5. IsFiniteSet(Places(Tail(q), f))
    BY <1>4, CountIsNat
  <1>6. IsFiniteSet(Rest) /\ Cardinality(Rest) = Count(Tail(q), f)
    <2> HIDE DEF Rest, next
    <2> QED
      BY <1>3, <1>5, FS_Bijection DEF Count, ExistsBijection
  <1>7. 1 \notin Rest
    OBVIOUS
  <1>8. \A i : i \in 1..Len(q) <=> i = 1 \/ i \in 2..Len(q)
    BY <1>1
  <1>9. CASE f = Head(q)
    <2>1. Places(q, f) = Rest \cup {1}
      BY <1>1, <1>8, <1>9 DEF Places
    <2> HIDE DEF Rest
    <2> QED
      BY <1>6, <1>7, <1>9, <2>1, FS_AddElement DEF Count
  <1>10. CASE f # Head(q)
    <2>1. Places(q, f) = Rest
      BY <1>1, <1>8, <1>10 DEF Places
    <2> HIDE DEF Rest
    <2> QED
      BY <1>6, <1>10, <2>1 DEF Count
  <1> QED
    BY <1>9, <1>10


\* NoEventIsLost for one subscription.
Kept(s) ==
    sub[s] = "open" /\ s \in subs =>
        made[s] = seen[s] + queue[s] + Count(fromWorker, <<"event", s>>)
                    + (IF reader = "stalled" /\ held = s THEN 1 ELSE 0)

\* What the worker sends that is no event of s, and what the reader takes that
\* is none, leave the count alone.
LEMMA ReplyCounts ==
    ASSUME TypeOK, NEW kind, NEW id, <<kind, id>> \in Replies, Reply(kind, id), NEW f
    PROVE  Count(fromWorker', f) = IF f = <<kind, id>> THEN Count(fromWorker, f) + 1
                                                       ELSE Count(fromWorker, f)
  <1>1. fromWorker \in Seq(Replies) /\ fromWorker' = Append(fromWorker, <<kind, id>>)
    BY DEF Reply, TypeOK
  <1> QED
    BY <1>1, CountAppended

\* The demultiplexer takes one copy of the frame it handles, and of no other.
LEMMA ReceivedCounts ==
    ASSUME TypeOK, NEW kind, NEW id, Received(kind, id), NEW f
    PROVE  Count(fromWorker, f) = IF f = <<kind, id>> THEN Count(fromWorker', f) + 1
                                                      ELSE Count(fromWorker', f)
  <1>1. /\ fromWorker \in Seq(Replies) /\ fromWorker # <<>>
        /\ Head(fromWorker) = <<kind, id>> /\ fromWorker' = Tail(fromWorker)
    BY DEF Received, TypeOK
  <1> QED
    BY <1>1, CountTaken

\* A step that moves no event of x and does not make x a new subscriber.
LEMMA OthersKeepEvents ==
    ASSUME NEW x \in Subs, Kept(x), UNCHANGED <<made, seen, queue>>,
           Count(fromWorker', <<"event", x>>) = Count(fromWorker, <<"event", x>>),
           sub'[x] = "open" /\ x \in subs' =>
               /\ sub[x] = "open" /\ x \in subs
               /\ (reader' = "stalled" /\ held' = x) <=> (reader = "stalled" /\ held = x)
    PROVE  Kept(x)'
  BY DEF Kept

\* No step loses an event of a subscription between its worker and its receiver.
LEMMA NextKept ==
    ASSUME StreamInv, \A s \in Subs : Kept(s), Next, NEW x \in Subs
    PROVE  Kept(x)'
  <1>0. TypeOK /\ (reader \in {"stalled", "unsub"} => held \in Subs) /\ Kept(x) /\ None \notin Subs
    BY ConstantsAssumption DEF StreamInv, TypeInv
  <1>1. Count(fromWorker, <<"event", x>>) \in Nat
    BY <1>0, CountIsNat DEF TypeOK
  <1>2. ASSUME NEW c \in Calls, CallCheck(c) \/ CallStep(c) \/ CallDropped(c) \/ CallDone(c)
        PROVE  Kept(x)'
    <2>1. UNCHANGED <<made, seen, queue, sub, subs, reader, held>>
      BY <1>2 DEF CallCheck, CallStep, CallInsert, CallSend, CallTimeout, CallDropped, CallDone,
           subVars, readVars, workVars
    <2>2. CASE CallDone(c)
      <3>1. <<"result", c>> \in Replies /\ Reply("result", c)
        BY <2>2, RepliesAreTyped DEF CallDone
      <3>2. <<"event", x>> # <<"result", c>>
        OBVIOUS
      <3>3. Count(fromWorker', <<"event", x>>) = Count(fromWorker, <<"event", x>>)
        BY <1>0, <3>1, <3>2, ReplyCounts
      <3> QED
        BY <1>0, <2>1, <3>3, OthersKeepEvents
    <2>3. CASE UNCHANGED fromWorker
      BY <1>0, <2>1, <2>3, OthersKeepEvents
    <2> QED
      BY <1>2, <2>2, <2>3 DEF CallCheck, CallStep, CallInsert, CallSend, CallTimeout, CallDropped
  <1>3. ASSUME NEW s \in Subs,
               \/ SubCheck(s) \/ SubInsert(s) \/ SubTimeout(s) \/ SubDropped(s) \/ SeesEnd(s)
               \/ WatchClosed(s) \/ WatchEnded(s) \/ SendUnsubscribe(s)
        PROVE  Kept(x)'
    <2>1. UNCHANGED <<made, seen, queue, reader, held, fromWorker>>
      BY <1>3 DEF SubCheck, SubInsert, SubTimeout, SubDropped, SeesEnd, WatchClosed, WatchEnded,
           SendUnsubscribe, readVars, workVars
    <2>2. sub'[x] = "open" /\ x \in subs' => sub[x] = "open" /\ x \in subs
      BY <1>0, <1>3 DEF SubCheck, SubInsert, SubTimeout, SubDropped, SeesEnd, WatchClosed,
           WatchEnded, SendUnsubscribe, TypeOK
    <2> QED
      BY <1>0, <2>1, <2>2, OthersKeepEvents
  <1>4. ASSUME NEW s \in Subs, SubSend(s)
        PROVE  Kept(x)'
    <2>1. UNCHANGED <<made, seen, queue, reader, held, fromWorker>>
      BY <1>4 DEF SubSend, readVars, workVars
    <2>2. CASE x # s
      <3>1. sub'[x] = sub[x] /\ (x \in subs' <=> x \in subs)
        BY <1>0, <1>4, <2>2 DEF SubSend, TypeOK
      <3> QED
        BY <1>0, <2>1, <3>1, OthersKeepEvents
    <2>3. CASE x = s
      <3>1. /\ seen[x] = 0 /\ queue[x] = 0 /\ made[x] = 0 /\ held # x
            /\ ~Carries(fromWorker, <<"event", x>>)
        BY <1>4, <2>3 DEF SubSend, StreamInv, Untouched, Fresh
      <3>2. Count(fromWorker, <<"event", x>>) = 0
        BY <1>0, <3>1, CountIsNat DEF TypeOK
      <3> QED
        BY <2>1, <3>1, <3>2 DEF Kept
    <2> QED
      BY <2>2, <2>3
  <1>5. ASSUME NEW s \in Subs, Consume(s)
        PROVE  Kept(x)'
    <2>1. UNCHANGED <<made, sub, subs, reader, held, fromWorker>>
      BY <1>5 DEF Consume, readVars, workVars
    <2>2. /\ x # s => queue'[x] = queue[x] /\ seen'[x] = seen[x]
          /\ x = s => queue'[x] = queue[x] - 1 /\ seen'[x] = seen[x] + 1
          /\ queue[x] \in Nat /\ seen[x] \in Nat
      BY <1>0, <1>5, ConstantsAssumption DEF Consume, TypeOK
    <2> QED
      BY <1>0, <1>1, <2>1, <2>2 DEF Kept
  <1>6. ASSUME NEW s \in Subs, DropReceiver(s)
        PROVE  Kept(x)'
    <2>1. UNCHANGED <<made, seen, subs, reader, held, fromWorker>>
      BY <1>6 DEF DropReceiver, readVars, workVars
    <2>2. /\ x # s => queue'[x] = queue[x] /\ sub'[x] = sub[x]
          /\ x = s => sub'[x] = "gone"
      BY <1>0, <1>6 DEF DropReceiver, TypeOK
    <2> QED
      BY <1>0, <2>1, <2>2 DEF Kept
  <1>7. ASSUME NEW s \in Subs, StreamEvent(s)
        PROVE  Kept(x)'
    <2>1. UNCHANGED <<seen, queue, sub, subs, reader, held>>
      BY <1>7 DEF StreamEvent, subVars, readVars
    <2>2. <<"event", s>> \in Replies /\ Reply("event", s)
      BY <1>7, RepliesAreTyped DEF StreamEvent
    <2>3. Count(fromWorker', <<"event", x>>) = IF x = s THEN Count(fromWorker, <<"event", x>>) + 1
                                                       ELSE Count(fromWorker, <<"event", x>>)
      <3>1. <<"event", x>> = <<"event", s>> <=> x = s
        OBVIOUS
      <3> QED
        BY <1>0, <2>2, <3>1, ReplyCounts
    <2>4. made'[x] = IF x = s THEN made[x] + 1 ELSE made[x]
      BY <1>0, <1>7 DEF StreamEvent, TypeOK
    <2>5. made[x] \in Nat /\ seen[x] \in Nat /\ queue[x] \in Nat
      BY <1>0, ConstantsAssumption DEF TypeOK
    <2> QED
      <3>1. CASE x # s
        BY <1>0, <2>1, <2>3, <2>4, <3>1 DEF Kept
      <3>2. CASE x = s
        <4>1. PICK n \in Nat : n = Count(fromWorker, <<"event", x>>)
          BY <1>1
        <4>2. Count(fromWorker', <<"event", x>>) = n + 1 /\ made'[x] = made[x] + 1
          BY <2>3, <2>4, <3>2, <4>1
        <4> QED
          BY <1>0, <2>1, <2>5, <4>1, <4>2 DEF Kept
      <3> QED
        BY <3>1, <3>2
  <1>8. ASSUME NEW s \in Subs, StreamEnd(s) \/ StreamStops(s)
        PROVE  Kept(x)'
    <2>1. UNCHANGED <<made, seen, queue, sub, subs, reader, held>>
      BY <1>8 DEF StreamEnd, StreamStops, subVars, readVars
    <2>2. CASE StreamEnd(s)
      <3>1. <<"end", s>> \in Replies /\ Reply("end", s)
        BY <2>2, RepliesAreTyped DEF StreamEnd
      <3>2. <<"event", x>> # <<"end", s>>
        OBVIOUS
      <3>3. Count(fromWorker', <<"event", x>>) = Count(fromWorker, <<"event", x>>)
        BY <1>0, <3>1, <3>2, ReplyCounts
      <3> QED
        BY <1>0, <2>1, <3>3, OthersKeepEvents
    <2>3. CASE StreamStops(s)
      BY <1>0, <2>1, <2>3, OthersKeepEvents DEF StreamStops
    <2> QED
      BY <1>8, <2>2, <2>3
  <1>9. CASE ReaderStep
    <2>1. ASSUME NEW c \in Calls, ReadResult(c)
          PROVE  Kept(x)'
      <3>1. <<"event", x>> # <<"result", c>>
        OBVIOUS
      <3>2. Count(fromWorker', <<"event", x>>) = Count(fromWorker, <<"event", x>>)
        BY <1>0, <2>1, <3>1, ReceivedCounts DEF ReadResult
      <3>3. UNCHANGED <<made, seen, queue, sub, subs, reader, held>>
        BY <2>1 DEF ReadResult, subVars, readVars, workVars
      <3> QED
        BY <1>0, <3>2, <3>3, OthersKeepEvents
    <2>2. ASSUME NEW s \in Subs, ReadEvent(s)
          PROVE  Kept(x)'
      <3>1. UNCHANGED <<made, seen, sub, subs>> /\ reader = "reading"
        BY <2>2 DEF ReadEvent, Received, workVars
      <3>2. Count(fromWorker, <<"event", x>>) = IF x = s THEN Count(fromWorker', <<"event", x>>) + 1
                                                        ELSE Count(fromWorker', <<"event", x>>)
        <4>1. <<"event", x>> = <<"event", s>> <=> x = s
          OBVIOUS
        <4> QED
          BY <1>0, <2>2, <4>1, ReceivedCounts DEF ReadEvent
      <3>3. Count(fromWorker', <<"event", x>>) \in Nat
        <4>1. fromWorker' \in Seq(Replies)
          BY <1>0, <2>2 DEF ReadEvent, Received, TypeOK
        <4> QED
          BY <4>1, CountIsNat
      <3>4. made[x] \in Nat /\ seen[x] \in Nat /\ queue[x] \in Nat
        BY <1>0, ConstantsAssumption DEF TypeOK
      <3>5. CASE x # s
        <4>1. queue'[x] = queue[x] /\ ~(reader' = "stalled" /\ held' = x)
          BY <1>0, <2>2, <3>1, <3>5 DEF ReadEvent, WaitForRoom, TypeOK
        <4> QED
          BY <1>0, <3>1, <3>2, <3>5, <4>1 DEF Kept
      <3>6. CASE x = s /\ sub[x] = "open" /\ x \in subs
        <4>1. \/ queue'[x] = queue[x] + 1 /\ ~(reader' = "stalled" /\ held' = x)
              \/ queue'[x] = queue[x] /\ reader' = "stalled" /\ held' = x
          BY <1>0, <2>2, <3>1, <3>6 DEF ReadEvent, WaitForRoom, TypeOK
        <4> QED
          BY <1>0, <3>1, <3>2, <3>3, <3>4, <3>6, <4>1 DEF Kept
      <3>7. CASE ~(sub[x] = "open" /\ x \in subs)
        BY <3>1, <3>7 DEF Kept
      <3> QED
        BY <3>5, <3>6, <3>7
    <2>3. ASSUME NEW s \in Subs, ReadEnd(s)
          PROVE  Kept(x)'
      <3>1. <<"event", x>> # <<"end", s>>
        OBVIOUS
      <3>2. Count(fromWorker', <<"event", x>>) = Count(fromWorker, <<"event", x>>)
        BY <1>0, <2>3, <3>1, ReceivedCounts DEF ReadEnd
      <3>3. UNCHANGED <<made, seen, queue, sub, reader, held>> /\ subs' \subseteq subs
        BY <2>3 DEF ReadEnd, readVars, workVars
      <3> QED
        BY <1>0, <3>2, <3>3, OthersKeepEvents
    <2>4. CASE StallEnds
      <3>1. UNCHANGED <<made, seen, sub, subs, fromWorker>> /\ reader = "stalled" /\ reader' = "reading"
        BY <2>4 DEF StallEnds, workVars
      <3>2. /\ x # held => queue'[x] = queue[x]
            /\ x = held /\ sub[x] # "gone" => queue'[x] = queue[x] + 1
        BY <1>0, <2>4 DEF StallEnds, TypeOK
      <3>3. made[x] \in Nat /\ seen[x] \in Nat /\ queue[x] \in Nat
        BY <1>0, ConstantsAssumption DEF TypeOK
      <3> QED
        BY <1>0, <1>1, <3>1, <3>2, <3>3 DEF Kept
    <2>5. CASE StallLimit
      <3>1. /\ UNCHANGED <<made, seen, queue, sub, fromWorker, held>>
            /\ reader = "stalled" /\ reader' = "unsub" /\ subs' = subs \ {held}
        BY <2>5 DEF StallLimit, workVars
      <3> QED
        BY <1>0, <3>1, OthersKeepEvents
    <2>6. CASE ReaderUnsubscribes \/ ReadEof \/ ReaderEnds
      <3>1. /\ UNCHANGED <<made, seen, queue, sub, fromWorker>> /\ subs' \subseteq subs
            /\ reader # "stalled" /\ reader' # "stalled"
        BY <2>6 DEF ReaderUnsubscribes, ReadEof, ReaderEnds, subVars, workVars
      <3> QED
        BY <1>0, <3>1, OthersKeepEvents
    <2> QED
      BY <1>9, <2>1, <2>2, <2>3, <2>4, <2>5, <2>6 DEF ReaderStep
  <1>10. CASE ShutdownBegin \/ CloserStep \/ ServeStep \/ Crash \/ AllOver
    <2>1. UNCHANGED <<made, seen, queue, sub, subs, reader, held, fromWorker>>
      BY <1>10 DEF ShutdownBegin, CloserStep, ShutdownSend, ShutdownGrace, ShutdownForce, ServeStep,
           ServeCall, ServeSubscribe, ServeUnsubscribe, ServeShutdown, ServeTorn, Dies,
           CancelStreams, CloseWriteSide, Exit, Crash, AllOver, vars, subVars, readVars, workVars
    <2> QED
      BY <1>0, <2>1, OthersKeepEvents
  <1> QED
    BY <1>2, <1>3, <1>4, <1>5, <1>6, <1>7, <1>8, <1>9, <1>10 DEF Next, SubStep

\* Back pressure loses nothing: whatever the queue, the stall of the reader and
\* the speed of the receiver, an event of a registered subscriber is on its way,
\* in the hands of the reader, in the queue, or seen.
THEOREM EventsAreKept == Spec => []NoEventIsLost
  <1> DEFINE AllKept == \A s \in Subs : Kept(s)
  <1>1. Init => AllKept
    BY DEF Init, Kept
  <1>2. StreamInv /\ AllKept /\ [Next]_vars => AllKept'
    <2> SUFFICES ASSUME StreamInv, AllKept, [Next]_vars
                 PROVE  AllKept'
      OBVIOUS
    <2>1. CASE UNCHANGED vars
      BY <2>1 DEF vars, subVars, readVars, workVars, Kept
    <2>2. CASE Next
      BY <2>2, NextKept
    <2> QED
      BY <2>1, <2>2
  <1>3. AllKept => NoEventIsLost
    BY DEF Kept, Count, Places, NoEventIsLost, OnTheWay
  <1> HIDE DEF AllKept
  <1> QED
    BY <1>1, <1>2, <1>3, InitStreamInv, NextStreamInv, PTL DEF Spec
=============================================================================
