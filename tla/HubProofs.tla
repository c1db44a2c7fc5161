------------------------------ MODULE HubProofs ------------------------------
(***************************************************************************)
(* The hub for any number of connections, channels and streams, any depth  *)
(* of the queues and any number of frames: its streams are owned, and it   *)
(* implements LiveStream.                                                  *)
(*                                                                         *)
(* That a handle and its stream agree is inductive once one knows what     *)
(* subscribe leaves between its two steps (MakingIsAlone).  The refinement *)
(* rests on where a frame is that was taken from the queue and is not yet  *)
(* sent: the browser is one event behind the position, and no more         *)
(* (OneEventBehind).                                                       *)
(***************************************************************************)
EXTENDS Hub, TLAPS

\* Streams have a connection and a channel; the only one a connection is making
\* belongs to the subscribe it is in.
MakingIsAlone ==
    /\ \A s \in Subs : state[s] # "free" => conn[s] \in Conns /\ chan[s] \in Channels
    /\ \A s \in Subs : state[s] = "making" => pc[conn[s]] = "subscribe"
    /\ \A s, r \in Subs :
        state[s] = "making" /\ state[r] = "making" /\ conn[s] = conn[r] => s = r

\* The event that is being sent, if it is one of s.
Sending(s) == pc[conn[s]] = "event" /\ event[conn[s]].sub = s

\* The event takes the browser from what it has seen to the position of the stream.
Advances(s, e) ==
    \/ e.kind = "first" /\ pos[s] = seen[s]
    \/ e.kind = "data" /\ e.n = pos[s] /\ seen[s] < e.n /\ (chan[s] \in Watched \/ e.n = seen[s] + 1)
    \/ e.kind = "lost" /\ e.n > 0 /\ pos[s] = seen[s] + e.n

\* The browser has seen what is before the position, but for that event.
OneEventBehind ==
    \A s \in Subs : state[s] = "on" =>
        /\ pos[s] <= tail[chan[s]]
        /\ IF Sending(s) THEN Advances(s, event[conn[s]]) ELSE seen[s] = pos[s]

IInv == StreamsAreOwned /\ MakingIsAlone /\ OneEventBehind

\* Nobody is subscribed yet.
LEMMA InitIInv == Init => IInv
  BY ConstantsAssumption
     DEF Init, IInv, StreamsAreOwned, TypeOK, LiveHasHandle, HandleHasStream, EventHasStream,
         MakingIsAlone, OneEventBehind, Nothing, NoEvent

\* The sources move nothing but their own counters, forwards.
LEMMA SourceIInv ==
    ASSUME IInv, NEW ch \in Channels, Source(ch)
    PROVE  IInv'
  <1> USE DEF IInv, StreamsAreOwned
  <1>1. UNCHANGED <<link, stream, seen, told>>
    BY DEF Source, Store, Broadcast, Replace, Close
  <1>2. /\ tail' \in [Channels -> Nat] /\ current' \in [Channels -> Nat]
        /\ closed' \in [Channels -> BOOLEAN]
        /\ \A h \in Channels : tail[h] <= tail'[h]
    <2>1. /\ tail \in [Channels -> Nat] /\ current \in [Channels -> Nat]
          /\ closed \in [Channels -> BOOLEAN]
      BY DEF TypeOK
    <2>2. CASE Store(ch)
      BY <2>1, <2>2 DEF Store
    <2>3. CASE Broadcast(ch)
      BY <2>1, <2>3 DEF Broadcast
    <2>4. CASE Replace(ch)
      BY <2>1, <2>4 DEF Replace
    <2>5. CASE Close(ch)
      BY <2>1, <2>5 DEF Close
    <2> QED
      BY <2>2, <2>3, <2>4, <2>5 DEF Source
  <1>3. StreamsAreOwned' /\ MakingIsAlone'
    BY <1>1, <1>2
       DEF TypeOK, LiveHasHandle, HandleHasStream, EventHasStream, MakingIsAlone, link, stream
  <1>4. OneEventBehind'
    BY <1>1, <1>2 DEF TypeOK, MakingIsAlone, OneEventBehind, Sending, Advances, link, stream
  <1> QED
    BY <1>3, <1>4

\* A connection that ends takes its streams along, and none of another.
LEMMA DropIInv ==
    ASSUME IInv, NEW c \in Conns, Drop(c)
    PROVE  IInv'
  <1> USE DEF IInv, StreamsAreOwned, Drop, Freed, source
  <1>1. TypeOK'
    BY ConstantsAssumption DEF TypeOK, Nothing, NoEvent
  <1>2. LiveHasHandle'
    BY DEF TypeOK, LiveHasHandle, MakingIsAlone
  <1>3. HandleHasStream'
    <2> SUFFICES ASSUME NEW d \in Conns, NEW ch \in Channels, handles'[d][ch] # None
                 PROVE  /\ state'[handles'[d][ch]] = "on"
                        /\ conn'[handles'[d][ch]] = d /\ chan'[handles'[d][ch]] = ch
      BY DEF HandleHasStream
    <2>1. d # c /\ handles'[d][ch] = handles[d][ch]
      BY DEF TypeOK
    <2> DEFINE r == handles[d][ch]
    <2>2. r \in Subs /\ state[r] = "on" /\ conn[r] = d /\ chan[r] = ch
      BY <2>1 DEF TypeOK, HandleHasStream
    <2>3. state'[r] = state[r] /\ conn'[r] = conn[r] /\ chan'[r] = chan[r]
      BY <2>1, <2>2
    <2> QED
      BY <2>1, <2>2, <2>3
  <1>4. EventHasStream'
    BY DEF TypeOK, EventHasStream
  <1>5. MakingIsAlone'
    BY DEF TypeOK, MakingIsAlone
  <1>6. OneEventBehind'
    BY DEF TypeOK, MakingIsAlone, OneEventBehind, Sending, Advances
  <1> QED
    BY <1>1, <1>2, <1>3, <1>4, <1>5, <1>6

\* A frame that changes no subscription.
LEMMA AskIInv ==
    ASSUME IInv, NEW c \in Conns,
           (\E version \in BOOLEAN : TakeAsk(c, version)) \/ SendReply(c) \/ Read(c) \/ Connect(c)
    PROVE  IInv'
  <1> USE DEF IInv, StreamsAreOwned
  <1>1. UNCHANGED <<source, event, handles, stream, seen, told>>
    BY DEF TakeAsk, SendReply, Read, Connect
  <1>2. /\ pc' \in [Conns -> {"loop", "subscribe", "reply", "event", "down"}]
        /\ final' \in [Conns -> BOOLEAN] /\ out' \in [Conns -> 0..SockCap]
        /\ \A d \in Conns : pc'[d] = "event" <=> pc[d] = "event"
        /\ \A d \in Conns : pc[d] = "subscribe" => pc'[d] = "subscribe"
    <2>1. /\ pc \in [Conns -> {"loop", "subscribe", "reply", "event", "down"}]
          /\ final \in [Conns -> BOOLEAN] /\ out \in [Conns -> 0..SockCap]
      BY DEF TypeOK
    <2>2. CASE \E version \in BOOLEAN : TakeAsk(c, version)
      BY <2>1, <2>2 DEF TakeAsk
    <2>3. CASE SendReply(c)
      BY <2>1, <2>3, ConstantsAssumption DEF SendReply
    <2>4. CASE Read(c)
      BY <2>1, <2>4, ConstantsAssumption DEF Read
    <2>5. CASE Connect(c)
      BY <2>1, <2>5 DEF Connect
    <2> QED
      BY <2>2, <2>3, <2>4, <2>5
  <1>3. TypeOK'
    BY <1>1, <1>2 DEF TypeOK, source, stream
  <1>4. LiveHasHandle' /\ HandleHasStream' /\ EventHasStream' /\ MakingIsAlone'
    BY <1>1, <1>2 DEF TypeOK, LiveHasHandle, HandleHasStream, EventHasStream, MakingIsAlone, stream
  <1>5. OneEventBehind'
    BY <1>1, <1>2 DEF TypeOK, MakingIsAlone, OneEventBehind, Sending, Advances, stream, source
  <1> QED
    BY <1>3, <1>4, <1>5

\* A new stream: it is made first, ...
LEMMA TakeSubIInv ==
    ASSUME IInv, NEW c \in Conns, NEW ch \in Channels, TakeSub(c, ch)
    PROVE  IInv'
  <1> DEFINE s == Fresh
  <1> USE DEF IInv, StreamsAreOwned
  <1>1. s \in Subs /\ state[s] = "free"
    BY DEF TakeSub, Free, Fresh
  <1> HIDE DEF s
  <1>2. /\ pc[c] = "loop" /\ pc' = [pc EXCEPT ![c] = "subscribe"]
        /\ state' = [state EXCEPT ![s] = "making"]
        /\ conn' = [conn EXCEPT ![s] = c] /\ chan' = [chan EXCEPT ![s] = ch]
        /\ first' = [first EXCEPT ![s] = current[ch]]
        /\ UNCHANGED <<source, final, event, out, handles, pos, seen, told>>
    BY DEF TakeSub, s
  <1>3. TypeOK'
    BY <1>1, <1>2 DEF TypeOK, source
  <1>4. LiveHasHandle' /\ EventHasStream'
    BY <1>1, <1>2 DEF TypeOK, LiveHasHandle, EventHasStream
  <1>5. HandleHasStream'
    BY <1>1, <1>2 DEF TypeOK, HandleHasStream
  <1>6. MakingIsAlone'
    BY <1>1, <1>2 DEF TypeOK, MakingIsAlone
  <1>7. OneEventBehind'
    BY <1>1, <1>2 DEF TypeOK, MakingIsAlone, OneEventBehind, Sending, Advances, source
  <1> QED
    BY <1>3, <1>4, <1>5, <1>6, <1>7

\* ... and takes the place of the one its channel had.
LEMMA AttachIInv ==
    ASSUME IInv, NEW c \in Conns, NEW s \in Subs, Attach(c, s)
    PROVE  IInv'
  <1> DEFINE ch == chan[s]
             old == handles[c][ch]
  <1> USE DEF IInv, StreamsAreOwned
  <1>1. ch \in Channels /\ old \in Subs \cup {None} /\ conn[s] = c /\ state[s] = "making"
        /\ pc[c] = "subscribe"
    BY DEF Attach, TypeOK, MakingIsAlone
  <1>2. old # None => old # s /\ state[old] = "on" /\ conn[old] = c /\ chan[old] = ch
    BY <1>1 DEF TypeOK, HandleHasStream
  <1>3. \A r \in Subs :
           state'[r] = IF r = s THEN "on" ELSE IF r = old THEN "aborted" ELSE state[r]
    BY <1>1, <1>2, ConstantsAssumption DEF Attach, Detached, TypeOK
  <1>4. state' \in [Subs -> {"free", "making", "on", "aborted"}]
    BY <1>1 DEF Attach, Detached, TypeOK
  <1>5. /\ first' \in [Subs -> Nat] /\ pos' = [pos EXCEPT ![s] = tail[ch]]
        /\ handles' = [handles EXCEPT ![c][ch] = s]
        /\ seen' = [seen EXCEPT ![s] = tail[ch]] /\ told' = [told EXCEPT ![s] = Nothing]
        /\ \E p \in {"reply", "loop"} : pc' = [pc EXCEPT ![c] = p]
        /\ UNCHANGED <<source, final, event, out, conn, chan>>
    BY <1>1 DEF Attach, TypeOK
  <1> HIDE DEF ch, old
  <1>6. TypeOK'
    BY <1>1, <1>4, <1>5 DEF TypeOK, source, Nothing
  <1>12. \A d \in Conns, h \in Channels :
           handles'[d][h] = IF d = c /\ h = ch THEN s ELSE handles[d][h]
    BY <1>1, <1>5 DEF TypeOK
  <1>7. LiveHasHandle'
    <2> SUFFICES ASSUME NEW r \in Subs, state'[r] = "on"
                 PROVE  handles'[conn'[r]][chan'[r]] = r
      BY DEF LiveHasHandle
    <2>1. CASE r = s
      BY <1>1, <1>5, <1>12, <2>1 DEF ch
    <2>2. CASE r # s
      <3>1. r # old /\ state[r] = "on" /\ handles[conn[r]][chan[r]] = r
        BY <1>3, <2>2 DEF LiveHasHandle
      <3>2. conn[r] \in Conns /\ chan[r] \in Channels
        BY <3>1 DEF MakingIsAlone
      <3>3. ~(conn[r] = c /\ chan[r] = ch)
        BY <3>1 DEF old
      <3> QED
        BY <1>5, <1>12, <3>1, <3>2, <3>3
    <2> QED
      BY <2>1, <2>2
  <1>8. HandleHasStream'
    <2> SUFFICES ASSUME NEW d \in Conns, NEW h \in Channels, handles'[d][h] # None
                 PROVE  /\ state'[handles'[d][h]] = "on"
                        /\ conn'[handles'[d][h]] = d /\ chan'[handles'[d][h]] = h
      BY DEF HandleHasStream
    <2>1. CASE d = c /\ h = ch
      BY <1>1, <1>3, <1>5, <1>12, <2>1 DEF ch
    <2>2. CASE ~(d = c /\ h = ch)
      <3> DEFINE r == handles[d][h]
      <3>1. handles'[d][h] = r
        BY <1>12, <2>2
      <3>2. r \in Subs /\ state[r] = "on" /\ conn[r] = d /\ chan[r] = h
        BY <3>1 DEF TypeOK, HandleHasStream
      <3>3. r # s /\ r # old
        BY <1>1, <1>2, <2>2, <3>2, ConstantsAssumption
      <3> QED
        BY <1>3, <1>5, <3>1, <3>2, <3>3
    <2> QED
      BY <2>1, <2>2
  <1>13. \A r \in Subs :
            /\ state'[r] = "making" => state[r] = "making" /\ r # s
            /\ state'[r] # "free" => state[r] # "free"
            /\ state[r] = "on" /\ conn[r] # c => state'[r] = "on" /\ r # s
    BY <1>1, <1>2, <1>3, ConstantsAssumption
  <1>9. EventHasStream'
    BY <1>1, <1>5, <1>13 DEF TypeOK, EventHasStream
  <1>10. MakingIsAlone'
    <2>1. \A r \in Subs : state'[r] = "making" => conn[r] # c
      BY <1>1, <1>13 DEF MakingIsAlone
    <2> QED
      BY <1>5, <1>13, <2>1 DEF TypeOK, MakingIsAlone
  <1>11. OneEventBehind'
    BY <1>1, <1>2, <1>3, <1>5
       DEF TypeOK, MakingIsAlone, OneEventBehind, Sending, Advances, source, ch
  <1> QED
    BY <1>6, <1>7, <1>8, <1>9, <1>10, <1>11
\* A stream that is detached is sent no more.
LEMMA TakeUnsubIInv ==
    ASSUME IInv, NEW c \in Conns, NEW ch \in Channels, TakeUnsub(c, ch)
    PROVE  IInv'
  <1> DEFINE old == handles[c][ch]
  <1> USE DEF IInv, StreamsAreOwned
  <1>1. /\ pc[c] = "loop" /\ old \in Subs \cup {None}
        /\ old # None => state[old] = "on" /\ conn[old] = c /\ chan[old] = ch
    BY DEF TakeUnsub, TypeOK, HandleHasStream
  <1>2. /\ state' \in [Subs -> {"free", "making", "on", "aborted"}]
        /\ \A r \in Subs : state'[r] = IF r = old THEN "aborted" ELSE state[r]
    BY <1>1, ConstantsAssumption DEF TakeUnsub, Detached, TypeOK
  <1>3. /\ handles' \in [Conns -> [Channels -> Subs \cup {None}]]
        /\ \A d \in Conns, h \in Channels :
             handles'[d][h] = IF d = c /\ h = ch THEN None ELSE handles[d][h]
    BY DEF TakeUnsub, TypeOK
  <1>4. /\ pc' \in [Conns -> {"loop", "subscribe", "reply", "event", "down"}]
        /\ \A d \in Conns : pc'[d] = "event" <=> pc[d] = "event"
        /\ \A d \in Conns : pc[d] = "subscribe" => pc'[d] = "subscribe"
        /\ UNCHANGED <<source, final, event, out, conn, chan, first, pos, seen, told>>
    BY DEF TakeUnsub, TypeOK
  <1> HIDE DEF old
  <1>5. TypeOK'
    BY <1>2, <1>3, <1>4 DEF TypeOK, source
  <1>6. LiveHasHandle'
    <2> SUFFICES ASSUME NEW r \in Subs, state'[r] = "on"
                 PROVE  handles'[conn'[r]][chan'[r]] = r
      BY DEF LiveHasHandle
    <2>1. r # old /\ state[r] = "on" /\ handles[conn[r]][chan[r]] = r
      BY <1>2 DEF LiveHasHandle
    <2>2. conn[r] \in Conns /\ chan[r] \in Channels
      BY <2>1 DEF MakingIsAlone
    <2>3. ~(conn[r] = c /\ chan[r] = ch)
      BY <2>1 DEF old
    <2> QED
      BY <1>3, <1>4, <2>1, <2>2, <2>3
  <1>7. HandleHasStream'
    <2> SUFFICES ASSUME NEW d \in Conns, NEW h \in Channels, handles'[d][h] # None
                 PROVE  /\ state'[handles'[d][h]] = "on"
                        /\ conn'[handles'[d][h]] = d /\ chan'[handles'[d][h]] = h
      BY DEF HandleHasStream
    <2> DEFINE r == handles[d][h]
    <2>1. handles'[d][h] = r /\ ~(d = c /\ h = ch)
      BY <1>3
    <2>2. r \in Subs /\ state[r] = "on" /\ conn[r] = d /\ chan[r] = h
      BY <2>1 DEF TypeOK, HandleHasStream
    <2>3. r # old
      BY <1>1, <2>1, <2>2, ConstantsAssumption
    <2> QED
      BY <1>2, <1>4, <2>1, <2>2, <2>3
  <1>8. EventHasStream'
    BY <1>1, <1>2, <1>4, ConstantsAssumption DEF TypeOK, EventHasStream
  <1>9. MakingIsAlone'
    <2>1. \A r \in Subs :
            /\ state'[r] = "making" => state[r] = "making"
            /\ state'[r] # "free" => state[r] # "free"
      BY <1>1, <1>2, ConstantsAssumption
    <2>2. UNCHANGED <<conn, chan>>
      BY <1>4
    <2>3. \A r \in Subs : state'[r] = "making" => pc'[conn[r]] = "subscribe"
      BY <1>4, <2>1 DEF MakingIsAlone
    <2> QED
      BY <2>1, <2>2, <2>3 DEF MakingIsAlone
  <1>10. OneEventBehind'
    BY <1>1, <1>2, <1>4 DEF TypeOK, MakingIsAlone, OneEventBehind, Sending, Advances, source
  <1> QED
    BY <1>5, <1>6, <1>7, <1>8, <1>9, <1>10

\* An aborted stream is reaped; one whose source has ended goes with its handle.
LEMMA EndIInv ==
    ASSUME IInv, NEW c \in Conns, NEW s \in Subs, Reap(c, s) \/ EmitEnded(c, s)
    PROVE  IInv'
  <1> USE DEF IInv, StreamsAreOwned
  <1>1. /\ pc[c] = "loop" /\ conn[s] = c /\ state[s] \in {"on", "aborted"} /\ chan[s] \in Channels
        /\ Freed({s}) /\ UNCHANGED <<source, final, event, out>>
    BY DEF Reap, EmitEnded, Polled, MakingIsAlone, link
  <1>2. /\ handles' \in [Conns -> [Channels -> Subs \cup {None}]]
        /\ \A d \in Conns, h \in Channels :
             handles'[d][h] = IF state[s] = "on" /\ d = c /\ h = chan[s] THEN None ELSE handles[d][h]
    <2>1. CASE Reap(c, s)
      BY <2>1 DEF Reap, TypeOK, link
    <2>2. CASE EmitEnded(c, s)
      BY <1>1, <2>2 DEF EmitEnded, Polled, TypeOK
    <2> QED
      BY <2>1, <2>2
  <1>3. /\ pc' \in [Conns -> {"loop", "subscribe", "reply", "event", "down"}]
        /\ \A d \in Conns : pc'[d] = "event" <=> pc[d] = "event"
        /\ \A d \in Conns : pc[d] = "subscribe" => pc'[d] = "subscribe"
    BY <1>1 DEF Reap, EmitEnded, TypeOK, link
  <1>4. TypeOK'
    BY <1>1, <1>2, <1>3 DEF TypeOK, source, Freed, Nothing
  <1>5. \A r \in Subs :
           /\ r = s => state'[r] = "free"
           /\ r # s => /\ state'[r] = state[r] /\ conn'[r] = conn[r] /\ chan'[r] = chan[r]
                       /\ pos'[r] = pos[r] /\ seen'[r] = seen[r]
    BY <1>1 DEF Freed
  <1>6. LiveHasHandle'
    <2> SUFFICES ASSUME NEW r \in Subs, state'[r] = "on"
                 PROVE  handles'[conn'[r]][chan'[r]] = r
      BY DEF LiveHasHandle
    <2>1. r # s /\ state[r] = "on" /\ handles[conn[r]][chan[r]] = r
      BY <1>5 DEF LiveHasHandle
    <2>2. conn[r] \in Conns /\ chan[r] \in Channels
      BY <2>1 DEF MakingIsAlone
    <2>3. state[s] = "on" => ~(conn[r] = c /\ chan[r] = chan[s])
      BY <1>1, <2>1 DEF LiveHasHandle
    <2> QED
      BY <1>2, <1>5, <2>1, <2>2, <2>3
  <1>7. HandleHasStream'
    <2> SUFFICES ASSUME NEW d \in Conns, NEW h \in Channels, handles'[d][h] # None
                 PROVE  /\ state'[handles'[d][h]] = "on"
                        /\ conn'[handles'[d][h]] = d /\ chan'[handles'[d][h]] = h
      BY DEF HandleHasStream
    <2> DEFINE r == handles[d][h]
    <2>1. handles'[d][h] = r /\ ~(state[s] = "on" /\ d = c /\ h = chan[s])
      BY <1>2
    <2>2. r \in Subs /\ state[r] = "on" /\ conn[r] = d /\ chan[r] = h
      BY <2>1 DEF TypeOK, HandleHasStream
    <2>3. r # s
      BY <1>1, <2>1, <2>2
    <2> QED
      BY <1>5, <2>1, <2>2, <2>3
  <1>8. EventHasStream'
    BY <1>1, <1>3, <1>5 DEF TypeOK, EventHasStream
  <1>9. MakingIsAlone'
    <2>1. \A r \in Subs : state'[r] # "free" => r # s
      BY <1>5
    <2> QED
      BY <1>3, <1>5, <2>1 DEF MakingIsAlone
  <1>10. OneEventBehind'
    <2> SUFFICES ASSUME NEW r \in Subs, state'[r] = "on"
                 PROVE  /\ pos'[r] <= tail'[chan'[r]]
                        /\ IF Sending(r)' THEN Advances(r, event[conn[r]])' ELSE seen'[r] = pos'[r]
      BY DEF OneEventBehind
    <2>1. r # s /\ state[r] = "on" /\ conn[r] \in Conns
      BY <1>5 DEF MakingIsAlone
    <2> QED
      BY <1>1, <1>3, <1>5, <2>1 DEF OneEventBehind, Sending, Advances, source
  <1> QED
    BY <1>4, <1>6, <1>7, <1>8, <1>9, <1>10

\* A frame, or a gap, on its way: the browser is one event behind.
LEMMA EmitIInv ==
    ASSUME IInv, NEW c \in Conns, NEW s \in Subs, EmitFirst(c, s) \/ EmitData(c, s) \/ EmitLagged(c, s)
    PROVE  IInv'
  <1> USE DEF IInv, StreamsAreOwned
  <1>1. /\ pc[c] = "loop" /\ conn[s] = c /\ state[s] = "on" /\ chan[s] \in Channels
        /\ seen[s] = pos[s] /\ pos[s] <= tail[chan[s]]
        /\ tail[chan[s]] \in Nat /\ pos[s] \in Nat
    BY DEF EmitFirst, EmitData, EmitLagged, Polled, MakingIsAlone, OneEventBehind, Sending, TypeOK
  <1>2. PICK kind \in {"first", "data", "lost"}, n \in Nat, p \in Nat :
           /\ Emit(c, s, kind, n) /\ UNCHANGED <<handles, state>>
           /\ first' \in [Subs -> Nat]
           /\ pos' = [pos EXCEPT ![s] = p] /\ p <= tail[chan[s]]
           /\ \/ kind = "first" /\ p = seen[s]
              \/ kind = "data" /\ n = p /\ seen[s] < n /\ (chan[s] \in Watched \/ n = seen[s] + 1)
              \/ kind = "lost" /\ n > 0 /\ p = seen[s] + n
    <2>1. CASE EmitFirst(c, s)
      <3>1. first[s] \in Nat /\ first' \in [Subs -> Nat] /\ pos' = [pos EXCEPT ![s] = seen[s]]
        BY <1>1, <2>1 DEF EmitFirst, TypeOK
      <3> QED
        BY <1>1, <2>1, <3>1 DEF EmitFirst
    <2>2. CASE EmitData(c, s)
      <3> DEFINE m == IF chan[s] \in Watched THEN tail[chan[s]] ELSE pos[s] + 1
      <3>1. m \in Nat /\ m <= tail[chan[s]] /\ seen[s] < m /\ (chan[s] \in Watched \/ m = seen[s] + 1)
        BY <1>1, <2>2 DEF EmitData, Behind
      <3>2. first' \in [Subs -> Nat] /\ pos' = [pos EXCEPT ![s] = m] /\ Emit(c, s, "data", m)
        BY <2>2 DEF EmitData, TypeOK
      <3> QED
        BY <2>2, <3>1, <3>2 DEF EmitData
    <2>3. CASE EmitLagged(c, s)
      <3> DEFINE m == tail[chan[s]] - Depth - pos[s]
      <3>1. m \in Nat /\ m > 0 /\ pos[s] + m \in Nat /\ pos[s] + m <= tail[chan[s]]
        BY <1>1, <2>3, ConstantsAssumption DEF EmitLagged, Overrun
      <3>2. /\ first' \in [Subs -> Nat] /\ pos' = [pos EXCEPT ![s] = pos[s] + m]
            /\ Emit(c, s, "lost", m)
        BY <2>3 DEF EmitLagged, TypeOK
      <3> QED
        BY <1>1, <2>3, <3>1, <3>2 DEF EmitLagged
    <2> QED
      BY <2>1, <2>2, <2>3
  <1>3. /\ pc' = [pc EXCEPT ![c] = "event"]
        /\ event' = [event EXCEPT ![c] = [sub |-> s, kind |-> kind, n |-> n]]
        /\ UNCHANGED <<source, final, out, conn, chan, seen, told>>
    BY <1>2 DEF Emit
  <1>4. TypeOK'
    BY <1>1, <1>2, <1>3 DEF TypeOK, source
  <1>5. LiveHasHandle' /\ HandleHasStream' /\ MakingIsAlone'
    BY <1>1, <1>2, <1>3 DEF TypeOK, LiveHasHandle, HandleHasStream, MakingIsAlone
  <1>6. EventHasStream'
    BY <1>1, <1>2, <1>3 DEF TypeOK, EventHasStream
  <1>7. OneEventBehind'
    <2> SUFFICES ASSUME NEW r \in Subs, state[r] = "on"
                 PROVE  /\ pos'[r] <= tail'[chan'[r]]
                        /\ IF Sending(r)' THEN Advances(r, event[conn[r]])' ELSE seen'[r] = pos'[r]
      BY <1>2 DEF OneEventBehind
    <2>1. CASE r = s
      BY <1>1, <1>2, <1>3, <2>1 DEF TypeOK, Sending, Advances, source
    <2>2. CASE r # s /\ conn[r] = c
      BY <1>1, <1>2, <1>3, <2>2 DEF TypeOK, OneEventBehind, Sending, Advances, source
    <2>3. CASE conn[r] # c
      BY <1>1, <1>2, <1>3, <2>3 DEF TypeOK, MakingIsAlone, OneEventBehind, Sending, Advances, source
    <2> QED
      BY <2>1, <2>2, <2>3
  <1> QED
    BY <1>4, <1>5, <1>6, <1>7

\* It arrives: the browser has seen what is before the position.
LEMMA SendEventIInv ==
    ASSUME IInv, NEW c \in Conns, SendEvent(c)
    PROVE  IInv'
  <1> DEFINE e == event[c]
             s == event[c].sub
  <1> USE DEF IInv, StreamsAreOwned
  <1>1. /\ s \in Subs /\ state[s] = "on" /\ conn[s] = c /\ chan[s] \in Channels
        /\ e.n \in Nat /\ seen[s] \in Nat /\ pos[s] \in Nat /\ pc[c] = "event"
    BY DEF SendEvent, TypeOK, EventHasStream, MakingIsAlone
  <1>2. Advances(s, e)
    BY <1>1 DEF OneEventBehind, Sending
  <1>3. After(e) = pos[s]
    BY <1>1, <1>2 DEF After, Advances
  <1>4. /\ seen' = [seen EXCEPT ![s] = pos[s]]
        /\ pc' = [pc EXCEPT ![c] = "loop"] /\ event' = [event EXCEPT ![c] = NoEvent]
        /\ UNCHANGED <<source, final, handles, stream>>
    BY <1>3 DEF SendEvent
  <1>5. told' \in [Subs -> [kind : {"nothing", "data", "lost"}, n : Nat]] /\ out' \in [Conns -> 0..SockCap]
    BY <1>1, <1>2, ConstantsAssumption DEF SendEvent, TypeOK, Advances
  <1> HIDE DEF e, s
  <1>6. TypeOK'
    BY <1>1, <1>4, <1>5 DEF TypeOK, source, stream, NoEvent
  <1>7. LiveHasHandle' /\ HandleHasStream' /\ EventHasStream' /\ MakingIsAlone'
    BY <1>1, <1>4 DEF TypeOK, LiveHasHandle, HandleHasStream, EventHasStream, MakingIsAlone, stream
  <1>8. OneEventBehind'
    BY <1>1, <1>4 DEF TypeOK, MakingIsAlone, OneEventBehind, Sending, Advances, stream, source, s
  <1> QED
    BY <1>6, <1>7, <1>8

\* Every step preserves the invariant.
LEMMA NextIInv == IInv /\ [Next]_vars => IInv'
  <1> SUFFICES ASSUME IInv, [Next]_vars
               PROVE  IInv'
    OBVIOUS
  <1>1. CASE UNCHANGED vars
    BY <1>1 DEF vars, source, link, stream, IInv, StreamsAreOwned, TypeOK, LiveHasHandle,
                HandleHasStream, EventHasStream, MakingIsAlone, OneEventBehind, Sending, Advances
  <1>2. ASSUME NEW ch \in Channels, Source(ch)
        PROVE  IInv'
    BY <1>2, SourceIInv
  <1>3. ASSUME NEW c \in Conns, Take(c)
        PROVE  IInv'
    BY <1>3, AskIInv, TakeSubIInv, TakeUnsubIInv DEF Take
  <1>4. ASSUME NEW c \in Conns, NEW s \in Subs, Attach(c, s) \/ Poll(c, s)
        PROVE  IInv'
    BY <1>4, AttachIInv, EndIInv, EmitIInv DEF Poll
  <1>5. ASSUME NEW c \in Conns, Send(c) \/ Read(c) \/ Gone(c) \/ Connect(c)
        PROVE  IInv'
    BY <1>5, AskIInv, SendEventIInv, DropIInv DEF Send, SendLast, SendTimeout, Gone
  <1> QED
    BY <1>1, <1>2, <1>3, <1>4, <1>5 DEF Next

\* The parts of the invariant hold together in every reachable state.
LEMMA Inductive == Spec => []IInv
  BY InitIInv, NextIInv, PTL DEF Spec

\* A channel of a connection has at most one live stream, and it is the one that
\* unsub, a second sub and the end of the connection find.
THEOREM StreamsStayOwned == Spec => []StreamsAreOwned
  <1>1. IInv => StreamsAreOwned
    BY DEF IInv
  <1> QED
    BY <1>1, Inductive, PTL
-----------------------------------------------------------------------------
(* The refinement.                                                         *)

\* Nobody is subscribed.
LEMMA InitRefines == Init => Promise!Init
  BY DEF Init, Promise!Init, OnChan, OnSeen, OnTold, Nothing, Promise!Nothing

\* A step that publishes nothing and ends the subscriptions S, the others staying
\* as they are, is Leave(S); with nobody in S it changes nothing.
LEMMA LeaveRefines ==
    ASSUME NEW S \in SUBSET Subs, UNCHANGED tail,
           \A s \in Subs :
               /\ s \in S => state'[s] # "on"
               /\ s \notin S => /\ state'[s] = "on" <=> state[s] = "on"
                                /\ state[s] = "on" => chan'[s] = chan[s] /\ seen'[s] = seen[s]
                                                        /\ told'[s] = told[s]
    PROVE  Promise!Next
  <1>1. OnChan' = Promise!Without(OnChan, S, None)
    BY DEF OnChan, Promise!Without
  <1>2. OnSeen' = Promise!Without(OnSeen, S, 0)
    BY DEF OnSeen, Promise!Without
  <1>3. OnTold' = Promise!Without(OnTold, S, Nothing)
    BY DEF OnTold, Promise!Without
  <1>4. Promise!Leave(S)
    BY <1>1, <1>2, <1>3 DEF Promise!Leave, Promise!Nothing, Nothing
  <1> QED
    BY <1>4 DEF Promise!Next

\* A source publishes, or only prepares to.
LEMMA SourceRefines ==
    ASSUME IInv, NEW ch \in Channels, Source(ch)
    PROVE  Promise!Next \/ UNCHANGED Promise!vars
  <1>1. UNCHANGED <<OnChan, OnSeen, OnTold>>
    BY DEF Source, Store, Broadcast, Replace, Close, stream, OnChan, OnSeen, OnTold
  <1>2. CASE Store(ch) \/ Close(ch)
    BY <1>1, <1>2 DEF Store, Close, Promise!vars
  <1>3. CASE Broadcast(ch) \/ Replace(ch)
    <2>1. Promise!Publish(ch)
      BY <1>1, <1>3 DEF Broadcast, Replace, Promise!Publish
    <2> QED
      BY <2>1 DEF Promise!Next
  <1> QED
    BY <1>2, <1>3 DEF Source

\* Streams that end are subscriptions that leave.
LEMMA LeavingRefines ==
    ASSUME IInv, NEW c \in Conns,
           Drop(c) \/ (\E ch \in Channels : TakeUnsub(c, ch))
             \/ \E s \in Subs : Reap(c, s) \/ EmitEnded(c, s)
    PROVE  Promise!Next
  <1>1. CASE Drop(c)
    <2> DEFINE S == {s \in Subs : conn[s] = c}
    <2>1. /\ UNCHANGED tail
          /\ \A s \in Subs :
               /\ s \in S => state'[s] # "on"
               /\ s \notin S => state'[s] = state[s] /\ chan'[s] = chan[s] /\ seen'[s] = seen[s]
                                  /\ told'[s] = told[s]
      BY <1>1 DEF Drop, Freed, source
    <2> QED
      BY <2>1, LeaveRefines
  <1>2. CASE \E ch \in Channels : TakeUnsub(c, ch)
    <2> PICK ch \in Channels : TakeUnsub(c, ch)
      BY <1>2
    <2> DEFINE S == {handles[c][ch]} \cap Subs
    <2>1. /\ UNCHANGED <<tail, chan, seen, told>>
          /\ \A s \in Subs : IF s \in S THEN state'[s] = "aborted" ELSE state'[s] = state[s]
      BY ConstantsAssumption DEF TakeUnsub, Detached, source, IInv, StreamsAreOwned, TypeOK
    <2> HIDE DEF S
    <2> QED
      BY <2>1, LeaveRefines DEF S
  <1>3. CASE \E s \in Subs : Reap(c, s) \/ EmitEnded(c, s)
    <2> PICK s \in Subs : Reap(c, s) \/ EmitEnded(c, s)
      BY <1>3
    <2>1. /\ UNCHANGED tail
          /\ \A r \in Subs :
               /\ r \in {s} => state'[r] # "on"
               /\ r \notin {s} => state'[r] = state[r] /\ chan'[r] = chan[r] /\ seen'[r] = seen[r]
                                  /\ told'[r] = told[r]
      BY DEF Reap, EmitEnded, Freed, source
    <2> QED
      BY <2>1, LeaveRefines
  <1> QED
    BY <1>1, <1>2, <1>3

\* The second step of subscribe: one joins, and the one of the same channel leaves.
LEMMA AttachRefines ==
    ASSUME IInv, NEW c \in Conns, NEW s \in Subs, Attach(c, s)
    PROVE  Promise!Next
  <1> DEFINE ch == chan[s]
             S == {handles[c][ch]} \cap Subs
  <1>1. /\ ch \in Channels /\ state[s] = "making" /\ handles[c][ch] \in Subs \cup {None}
        /\ s \notin S
    <2>1. ch \in Channels /\ state[s] = "making" /\ handles[c][ch] \in Subs \cup {None}
      BY DEF Attach, IInv, StreamsAreOwned, TypeOK, MakingIsAlone
    <2>2. handles[c][ch] # None => state[handles[c][ch]] = "on"
      BY <2>1 DEF IInv, StreamsAreOwned, HandleHasStream
    <2> QED
      BY <2>1, <2>2, ConstantsAssumption
  <1>2. \A r \in Subs :
           state'[r] = IF r = s THEN "on" ELSE IF r \in S THEN "aborted" ELSE state[r]
    BY <1>1, ConstantsAssumption DEF Attach, Detached, IInv, StreamsAreOwned, TypeOK
  <1>3. /\ seen' = [seen EXCEPT ![s] = tail[ch]] /\ told' = [told EXCEPT ![s] = Nothing]
        /\ seen \in [Subs -> Nat] /\ DOMAIN told = Subs
        /\ UNCHANGED <<tail, chan>>
    BY DEF Attach, source, IInv, StreamsAreOwned, TypeOK
  <1> HIDE DEF S
  <1>4. OnChan' = [Promise!Without(OnChan, S, None) EXCEPT ![s] = ch]
    BY <1>1, <1>2, <1>3 DEF OnChan, Promise!Without
  <1>5. OnSeen' = [Promise!Without(OnSeen, S, 0) EXCEPT ![s] = tail[ch]]
    BY <1>1, <1>2, <1>3 DEF OnSeen, Promise!Without
  <1>6. OnTold' = [Promise!Without(OnTold, S, Nothing) EXCEPT ![s] = Nothing]
    BY <1>1, <1>2, <1>3 DEF OnTold, Promise!Without
  <1>7. OnChan[s] = None
    BY <1>1 DEF OnChan
  <1>8. Promise!Join(s, ch, S)
    BY <1>3, <1>4, <1>5, <1>6, <1>7 DEF Promise!Join, Promise!Nothing, Nothing
  <1>9. S \in SUBSET Subs
    BY DEF S
  <1> QED
    BY <1>1, <1>8, <1>9 DEF Promise!Next

\* An event that arrives is a delivery, a later state or the notice of a gap; the
\* snapshot at the beginning is nothing new.
LEMMA SendEventRefines ==
    ASSUME IInv, NEW c \in Conns, SendEvent(c)
    PROVE  Promise!Next \/ UNCHANGED Promise!vars
  <1> DEFINE e == event[c]
             s == event[c].sub
  <1>1. /\ s \in Subs /\ state[s] = "on" /\ conn[s] = c /\ chan[s] \in Channels
        /\ e.n \in Nat /\ seen[s] \in Nat /\ pos[s] \in Nat /\ pc[c] = "event"
        /\ pos[s] <= tail[chan[s]] /\ tail[chan[s]] \in Nat
        /\ seen \in [Subs -> Nat] /\ DOMAIN told = Subs
    BY DEF SendEvent, IInv, StreamsAreOwned, TypeOK, EventHasStream, MakingIsAlone, OneEventBehind
  <1>2. Advances(s, e)
    BY <1>1 DEF OneEventBehind, Sending, IInv
  <1>3. After(e) = pos[s]
    BY <1>1, <1>2 DEF After, Advances
  <1>4. /\ seen' = [seen EXCEPT ![s] = pos[s]]
        /\ told' = IF e.kind = "first" THEN told ELSE [told EXCEPT ![s] = [kind |-> e.kind, n |-> e.n]]
        /\ UNCHANGED <<tail, state, chan>>
    BY <1>3 DEF SendEvent, source, stream
  <1> HIDE DEF e, s
  <1>5. OnChan' = OnChan /\ OnChan[s] = chan[s] /\ OnSeen[s] = seen[s]
    BY <1>1, <1>4 DEF OnChan, OnSeen
  <1>6. OnSeen' = [OnSeen EXCEPT ![s] = pos[s]]
    BY <1>1, <1>4 DEF OnSeen
  <1>7. chan[s] # None
    BY <1>1, ConstantsAssumption
  <1>8. CASE e.kind = "first" /\ pos[s] = seen[s]
    <2>1. UNCHANGED <<OnSeen, OnTold>>
      BY <1>1, <1>4, <1>5, <1>6, <1>8 DEF OnSeen, OnTold
    <2> QED
      BY <1>4, <1>5, <2>1 DEF Promise!vars
  <1>9. CASE e.kind # "first"
    <2>1. OnTold' = [OnTold EXCEPT ![s] = [kind |-> e.kind, n |-> e.n]]
      BY <1>1, <1>4, <1>9 DEF OnTold
    <2>2. Promise!Tell(s, e.kind, e.n, pos[s])
      BY <1>1, <1>4, <1>5, <1>6, <1>7, <2>1 DEF Promise!Tell
    <2>3. CASE e.kind = "data" /\ e.n = pos[s] /\ chan[s] \notin Watched /\ e.n = seen[s] + 1
      <3>1. Promise!Deliver(s)
        BY <1>5, <2>2, <2>3 DEF Promise!Deliver
      <3> QED
        BY <1>1, <3>1 DEF Promise!Next
    <2>4. CASE e.kind = "data" /\ e.n = pos[s] /\ chan[s] \in Watched /\ seen[s] < e.n
      <3>1. Promise!Supersede(s, e.n) /\ e.n \in 1..tail[OnChan[s]]
        BY <1>1, <1>5, <2>2, <2>4 DEF Promise!Supersede
      <3> QED
        BY <1>1, <1>5, <1>7, <3>1 DEF Promise!Next
    <2>5. CASE e.kind = "lost" /\ e.n > 0 /\ pos[s] = seen[s] + e.n
      <3>1. Promise!Announce(s, e.n) /\ e.n \in 1..tail[OnChan[s]]
        BY <1>1, <1>5, <2>2, <2>5 DEF Promise!Announce
      <3> QED
        BY <1>1, <1>5, <1>7, <3>1 DEF Promise!Next
    <2> QED
      BY <1>2, <1>9, <2>3, <2>4, <2>5 DEF Advances
  <1> QED
    BY <1>2, <1>8, <1>9 DEF Advances

\* Everything else happens behind the promise.
LEMMA InnerRefines ==
    ASSUME IInv, NEW c \in Conns,
           \/ \E version \in BOOLEAN : TakeAsk(c, version)
           \/ \E ch \in Channels : TakeSub(c, ch)
           \/ \E s \in Subs : EmitFirst(c, s) \/ EmitData(c, s) \/ EmitLagged(c, s)
           \/ SendReply(c) \/ Read(c) \/ Connect(c)
    PROVE  UNCHANGED Promise!vars
  <1>1. CASE \E ch \in Channels : TakeSub(c, ch)
    <2> DEFINE s == Fresh
    <2>1. s \in Subs /\ state[s] = "free"
      BY <1>1 DEF TakeSub, Free, Fresh
    <2>2. \E ch \in Channels : chan' = [chan EXCEPT ![s] = ch]
      BY <1>1 DEF TakeSub
    <2>3. state' = [state EXCEPT ![s] = "making"] /\ UNCHANGED <<tail, seen, told>>
      BY <1>1 DEF TakeSub, source
    <2>4. DOMAIN state = Subs /\ DOMAIN chan = Subs
      BY DEF IInv, StreamsAreOwned, TypeOK
    <2> HIDE DEF s
    <2>5. UNCHANGED <<OnChan, OnSeen, OnTold>>
      BY <2>1, <2>2, <2>3, <2>4 DEF OnChan, OnSeen, OnTold
    <2> QED
      BY <2>3, <2>5 DEF Promise!vars
  <1>2. CASE ~\E ch \in Channels : TakeSub(c, ch)
    <2>1. UNCHANGED <<tail, state, chan, seen, told>>
      BY <1>2 DEF TakeAsk, EmitFirst, EmitData, EmitLagged, Emit, SendReply, Read, Connect, source, stream
    <2> QED
      BY <2>1 DEF Promise!vars, OnChan, OnSeen, OnTold
  <1> QED
    BY <1>1, <1>2

\* Every step of the hub is one of the promise, or none.
LEMMA NextRefines == IInv /\ [Next]_vars => [Promise!Next]_(Promise!vars)
  <1> SUFFICES ASSUME IInv, [Next]_vars
               PROVE  Promise!Next \/ UNCHANGED Promise!vars
    OBVIOUS
  <1>1. CASE UNCHANGED vars
    BY <1>1 DEF vars, source, stream, Promise!vars, OnChan, OnSeen, OnTold
  <1>2. ASSUME NEW ch \in Channels, Source(ch)
        PROVE  Promise!Next \/ UNCHANGED Promise!vars
    BY <1>2, SourceRefines
  <1>3. ASSUME NEW c \in Conns, Take(c)
        PROVE  Promise!Next \/ UNCHANGED Promise!vars
    BY <1>3, InnerRefines, LeavingRefines DEF Take
  <1>4. ASSUME NEW c \in Conns, NEW s \in Subs, Attach(c, s) \/ Poll(c, s)
        PROVE  Promise!Next \/ UNCHANGED Promise!vars
    BY <1>4, AttachRefines, LeavingRefines, InnerRefines DEF Poll
  <1>5. ASSUME NEW c \in Conns, Send(c) \/ Read(c) \/ Gone(c) \/ Connect(c)
        PROVE  Promise!Next \/ UNCHANGED Promise!vars
    BY <1>5, InnerRefines, SendEventRefines, LeavingRefines DEF Send, SendLast, SendTimeout, Gone
  <1> QED
    BY <1>1, <1>2, <1>3, <1>4, <1>5 DEF Next

\* The hub implements LiveStream: whatever a browser, its socket and the sources do,
\* it is given every frame in order and once, or told how many it was not given.
THEOREM HubKeepsItsPromise == Spec => GapsAreTold
  BY InitRefines, NextRefines, Inductive, PTL DEF Spec, GapsAreTold, Promise!Spec
=============================================================================
