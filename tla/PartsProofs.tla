----------------------------- MODULE PartsProofs -----------------------------
(***************************************************************************)
(* The seven components of MCParts, each with an inductive invariant of    *)
(* its own, for any number of terminals, pids, clients, requests, sockets  *)
(* and followers and any sizes of the buffers.  A step of PartsSpec is one *)
(* of one component and leaves the others as they were, so their           *)
(* conjunction PartsInv is inductive as well.                              *)
(*                                                                         *)
(* AttachInv    a client is let go of once, with one reason; whatever it   *)
(*              hears later, in its queue or as its CloseReason, is that   *)
(*              reason, and those that promise a dead terminal are given   *)
(*              after the close.                                           *)
(* FlowInv      (with AttachInv) a client whose sender the pump holds may  *)
(*              be replaced meanwhile, and what the pump still sends it    *)
(*              leaves no gap in its queue either.                         *)
(* TableInv     a reaper is done only with a reaped shell, an entry is     *)
(*              stored under the pid of its shell, a close takes once.     *)
(* ConsoleInv   the same on Windows, where a console outlives its shell    *)
(*              until the reaper or a close shuts it.                      *)
(* HelperInv    for every place of a call, what may be in the two          *)
(*              directions of the socket and where the helper can be: what *)
(*              is sent is answered once, and in the order it was asked.   *)
(* PageInv      types, and that one socket or one timer is the page's.     *)
(* HostInv      what the main thread has started, what it was asked to do  *)
(*              and what the service control manager was told agree.       *)
(* LogInv       a follower's child has the filter it is stored under.      *)
(***************************************************************************)
EXTENDS MCParts, SequenceTheorems, FiniteSetTheorems, WellFoundedInduction, TLAPS

-----------------------------------------------------------------------------
(* The attachment of a terminal.                                         *)

\* A client that was let go of has been attached, and is not any more.
RemovedIsOver == \A c \in Clients : removed[c] # "no" => pc[c] # "new" /\ attached # c

\* A client hears why it was let go of, and nothing else.
ReasonIsTrue ==
    /\ \A c \in Clients : \A i \in 1..Len(queue[c]) :
         queue[c][i].kind = "closed" => removed[c] = queue[c][i].why
    /\ \A c \in Clients : reason[c] # "none" => removed[c] = reason[c]

\* The terminal is closed before anybody is told so.
CloseGoesFirst ==
    /\ closer # "none" => closed
    /\ \A c \in Clients : TerminalGone(removed[c]) => closed

\* The pump holds a sender while it forwards.
PumpHolds == pump \in {"forward", "waiting"} => sending \in Clients

AttachInv ==
    /\ TypeOK /\ RemovedIsOver /\ ReasonIsTrue /\ CloseGoesFirst /\ PumpHolds
    /\ NobodyIsDroppedByMistake /\ GoneIsDetached /\ ExitFrameIsTrue

\* A terminal without clients.
LEMMA InitAttachInv == Init => AttachInv
  <1> SUFFICES ASSUME Init PROVE AttachInv
    OBVIOUS
  <1>1. \A c \in Clients : queue[c] = <<>> /\ Len(queue[c]) = 0
    BY DEF Init
  <1>2. queue \in [Clients -> Seq(Events)]
    BY DEF Init
  <1>3. TypeOK
    <2>1. input \in 0..InputCap /\ \A c \in Clients : Len(queue[c]) <= QueueCap
      BY <1>1, ConstantsAssumption DEF Init
    <2>2. /\ shell \in {"free", "writing", "dead"}
          /\ produced \in Nat /\ read \in Nat /\ read <= produced
      BY DEF Init
    <2>3. /\ pump \in {"select", "forward", "waiting", "over"} /\ sending \in Clients \cup {None}
          /\ closed \in BOOLEAN /\ closer \in {"none", "calling", "done"}
          /\ attached \in Clients \cup {None} /\ exitSent \subseteq Clients
      BY DEF Init
    <2>4. /\ pc \in [Clients -> {"new", "check", "loop", "send", "write", "end", "gone"}]
          /\ seen \in [Clients -> Nat] /\ typed \in [Clients -> Nat]
          /\ reason \in [Clients -> Reasons \cup {"none"}]
          /\ removed \in [Clients -> Reasons \cup {"no"}]
      BY DEF Init
    <2> QED
      BY <1>2, <2>1, <2>2, <2>3, <2>4 DEF TypeOK
  <1>4. ReasonIsTrue
    BY <1>1 DEF Init, ReasonIsTrue
  <1> QED
    BY <1>3, <1>4, ConstantsAssumption
       DEF Init, AttachInv, RemovedIsOver, CloseGoesFirst, PumpHolds, NobodyIsDroppedByMistake,
           GoneIsDetached, ExitFrameIsTrue, Serving, TerminalGone

\* Messages are what the channel takes.
LEMMA EventsAreTyped ==
    /\ \A from, to \in Nat : Data(from, to) \in Events /\ Data(from, to).kind = "data"
    /\ \A why \in Reasons : /\ ClosedFor(why) \in Events
                            /\ ClosedFor(why).kind = "closed" /\ ClosedFor(why).why = why
  BY DEF Data, ClosedFor, Events

\* try_send keeps the queues typed and bounded, and changes that of c only, by
\* the event at its end if at all.
LEMMA TrySendType ==
    ASSUME NEW q \in [Clients -> Seq(Events)], \A d \in Clients : Len(q[d]) <= QueueCap,
           NEW c \in Clients, NEW ev \in Events
    PROVE  /\ TrySend(q, c, ev) \in [Clients -> Seq(Events)]
           /\ \A d \in Clients : Len(TrySend(q, c, ev)[d]) <= QueueCap
           /\ \A d \in Clients \ {c} : TrySend(q, c, ev)[d] = q[d]
           /\ \A i \in 1..Len(TrySend(q, c, ev)[c]) :
                TrySend(q, c, ev)[c][i] = ev \/ (i \in 1..Len(q[c]) /\ TrySend(q, c, ev)[c][i] = q[c][i])
  <1>1. CASE Len(q[c]) < QueueCap
    <2>1. TrySend(q, c, ev) = [q EXCEPT ![c] = Append(q[c], ev)]
      BY <1>1 DEF TrySend
    <2> QED
      BY <1>1, <2>1, ConstantsAssumption
  <1>2. CASE ~(Len(q[c]) < QueueCap)
    BY <1>2 DEF TrySend
  <1> QED
    BY <1>1, <1>2

\* finish_attach lets go of the attached client, once, and tells it the reason.
LEMMA FinishAttachKept ==
    ASSUME AttachInv, NEW c \in Clients, NEW why \in Reasons, TerminalGone(why) => closed, FinishAttach(c, why)
    PROVE  /\ attached' \in Clients \cup {None}
           /\ queue' \in [Clients -> Seq(Events)] /\ \A d \in Clients : Len(queue'[d]) <= QueueCap
           /\ removed' \in [Clients -> Reasons \cup {"no"}]
           /\ \A d \in Clients : attached' = d => attached = d
           /\ \A d \in Clients : removed'[d] = removed[d] \/ (attached = d /\ removed'[d] = why)
           /\ \A d \in Clients : attached = d /\ attached' # d => removed'[d] = why
           /\ \A d \in Clients : attached' = d => removed'[d] = removed[d]
           /\ \A d \in Clients : \A i \in 1..Len(queue'[d]) :
                queue'[d][i].kind = "closed" => removed'[d] = queue'[d][i].why
  <1> USE ConstantsAssumption DEF AttachInv, TypeOK
  <1>1. CASE attached # c
    <2>1. UNCHANGED <<attached, removed, queue>>
      BY <1>1 DEF FinishAttach
    <2> QED
      BY <2>1 DEF ReasonIsTrue
  <1>2. CASE attached = c
    <2>1. /\ attached' = None
          /\ removed' = [removed EXCEPT ![c] = why]
          /\ queue' = TrySend(queue, c, ClosedFor(why))
      BY <1>2 DEF FinishAttach
    <2>2. ClosedFor(why) \in Events /\ ClosedFor(why).why = why
      BY EventsAreTyped
    <2>3. /\ queue' \in [Clients -> Seq(Events)]
          /\ \A d \in Clients : Len(queue'[d]) <= QueueCap
          /\ \A d \in Clients \ {c} : queue'[d] = queue[d]
          /\ \A i \in 1..Len(queue'[c]) :
               queue'[c][i] = ClosedFor(why) \/ (i \in 1..Len(queue[c]) /\ queue'[c][i] = queue[c][i])
      <3>1. queue \in [Clients -> Seq(Events)] /\ \A d \in Clients : Len(queue[d]) <= QueueCap
        OBVIOUS
      <3> DEFINE ev == ClosedFor(why)
                 t == TrySend(queue, c, ev)
      <3>2. /\ t \in [Clients -> Seq(Events)]
            /\ \A d \in Clients : Len(t[d]) <= QueueCap
            /\ \A d \in Clients \ {c} : t[d] = queue[d]
            /\ \A i \in 1..Len(t[c]) : t[c][i] = ev \/ (i \in 1..Len(queue[c]) /\ t[c][i] = queue[c][i])
        <4>1. ev \in Events
          BY <2>2
        <4> HIDE DEF ev, AttachInv, TypeOK
        <4> QED
          BY <3>1, <4>1, TrySendType
      <3>3. queue' = t
        BY <2>1
      <3> HIDE DEF t, AttachInv, TypeOK
      <3> QED
        BY <3>2, <3>3
    <2>4. removed[c] = "no"
      BY <1>2 DEF RemovedIsOver
    <2>5. \A i \in 1..Len(queue[c]) : queue[c][i].kind # "closed"
      <3>1. ASSUME NEW i \in 1..Len(queue[c]), queue[c][i].kind = "closed"
            PROVE  FALSE
        <4>1. queue[c][i] \in Events
          OBVIOUS
        <4>2. queue[c][i].why \in Reasons
          BY <3>1, <4>1 DEF Events
        <4> QED
          BY <2>4, <3>1, <4>2 DEF ReasonIsTrue, Reasons
      <3> QED
        BY <3>1
    <2>6. ASSUME NEW d \in Clients, NEW i \in 1..Len(queue'[d]), queue'[d][i].kind = "closed"
          PROVE  removed'[d] = queue'[d][i].why
      <3>1. CASE d = c
        BY <2>1, <2>2, <2>3, <2>5, <2>6, <3>1
      <3>2. CASE d # c
        BY <2>1, <2>3, <2>6, <3>2 DEF ReasonIsTrue
      <3> QED
        BY <3>1, <3>2
    <2> QED
      BY <1>2, <2>1, <2>3, <2>6
  <1> QED
    BY <1>1, <1>2

\* What a step may do to the places of the clients.
PlacesGoOn ==
    \A c \in Clients : /\ pc'[c] = "new" => pc[c] = "new"
                       /\ pc'[c] = "gone" => pc[c] = "gone"
                       /\ Serving(c)' => Serving(c)

\* Steps that let go of nobody and tell nobody anything.
LEMMA QuietKept ==
    ASSUME AttachInv, TypeOK', PumpHolds', PlacesGoOn, closed => closed', closer' # "none" => closed',
           UNCHANGED <<attached, queue, reason, exitSent, removed>>
    PROVE  AttachInv'
  <1> USE DEF AttachInv
  <1>1. RemovedIsOver' /\ GoneIsDetached'
    BY DEF RemovedIsOver, GoneIsDetached, PlacesGoOn
  <1>2. ReasonIsTrue' /\ CloseGoesFirst' /\ ExitFrameIsTrue'
    BY DEF ReasonIsTrue, CloseGoesFirst, ExitFrameIsTrue, TerminalGone
  <1>3. NobodyIsDroppedByMistake'
    BY DEF NobodyIsDroppedByMistake, PlacesGoOn, Serving
  <1> QED
    BY <1>1, <1>2, <1>3

\* Steps that end in finish_attach.
LEMMA LetGoKept ==
    ASSUME AttachInv, TypeOK', PumpHolds', PlacesGoOn, closed => closed', closer' # "none" => closed',
           UNCHANGED <<reason, exitSent>>,
           NEW c \in Clients, NEW why \in Reasons, TerminalGone(why) => closed, FinishAttach(c, why)
    PROVE  AttachInv'
  <1> USE DEF AttachInv
  <1>1. /\ \A d \in Clients : attached' = d => attached = d
        /\ \A d \in Clients : removed'[d] = removed[d] \/ (attached = d /\ removed'[d] = why)
        /\ \A d \in Clients : attached = d /\ attached' # d => removed'[d] = why
        /\ \A d \in Clients : attached' = d => removed'[d] = removed[d]
        /\ \A d \in Clients : \A i \in 1..Len(queue'[d]) :
             queue'[d][i].kind = "closed" => removed'[d] = queue'[d][i].why
    BY FinishAttachKept
  <1>2. why # "no" /\ why # "none"
    BY DEF Reasons
  <1>3. \A d \in Clients : attached = d => removed[d] = "no" /\ reason[d] = "none"
    BY DEF RemovedIsOver, ReasonIsTrue, TypeOK, Reasons
  <1>4. \A d \in Clients : removed'[d] # removed[d] => attached = d /\ attached' # d
    BY <1>1
  <1>5. RemovedIsOver' /\ GoneIsDetached'
    BY <1>1, <1>4 DEF RemovedIsOver, GoneIsDetached, PlacesGoOn
  <1>6. ReasonIsTrue'
    BY <1>1, <1>3 DEF ReasonIsTrue
  <1>7. CloseGoesFirst'
    BY <1>1 DEF CloseGoesFirst
  <1>8. ExitFrameIsTrue'
    <2>1. ASSUME NEW d \in exitSent PROVE d \in Clients /\ closed /\ removed[d] \in {"exited", "deleted"}
      BY DEF ExitFrameIsTrue, TypeOK
    <2>2. ASSUME NEW d \in exitSent PROVE removed'[d] = removed[d]
      BY <1>1, <1>3, <2>1
    <2> QED
      BY <2>1, <2>2 DEF ExitFrameIsTrue
  <1>9. NobodyIsDroppedByMistake'
    BY <1>1, <1>2 DEF NobodyIsDroppedByMistake, PlacesGoOn
  <1> QED
    BY <1>5, <1>6, <1>7, <1>8, <1>9

\* The shell, and the closer that takes the mark.
LEMMA ShellKept ==
    ASSUME AttachInv, ShellWrite \/ ShellWritten \/ ShellRead \/ ShellExit \/ Close
    PROVE  AttachInv'
  <1> USE ConstantsAssumption DEF AttachInv
  <1>1. TypeOK'
    <2>1. UNCHANGED <<read, pump, sending, attached, queue, pc, seen, typed, reason, exitSent, removed>>
      BY DEF ShellWrite, ShellWritten, ShellRead, ShellExit, Close
    <2>2. /\ shell' \in {"free", "writing", "dead"} /\ produced' \in Nat /\ read <= produced'
          /\ input' \in 0..InputCap
      BY DEF TypeOK, ShellWrite, ShellWritten, ShellRead, ShellExit, Close
    <2>3. closed' \in BOOLEAN /\ closer' \in {"none", "calling", "done"}
      BY DEF TypeOK, ShellWrite, ShellWritten, ShellRead, ShellExit, Close
    <2> QED
      BY <2>1, <2>2, <2>3 DEF TypeOK
  <1>2. /\ UNCHANGED <<attached, queue, reason, exitSent, removed, pc, pump, sending>>
        /\ closed => closed'
        /\ closer' # "none" => closed'
    BY DEF CloseGoesFirst, ShellWrite, ShellWritten, ShellRead, ShellExit, Close
  <1>3. PlacesGoOn /\ PumpHolds'
    BY <1>2 DEF PlacesGoOn, PumpHolds, Serving
  <1> QED
    BY <1>1, <1>2, <1>3, QuietKept

\* The pump reads, or leaves its loop.
LEMMA PumpReadKept ==
    ASSUME AttachInv, PumpRead \/ PumpEof \/ PumpStop
    PROVE  AttachInv'
  <1> USE ConstantsAssumption DEF AttachInv
  <1>1. TypeOK'
    <2>1. UNCHANGED <<shell, produced, input, attached, queue, pc, seen, typed, reason, exitSent, removed>>
      BY DEF PumpRead, PumpEof, PumpStop
    <2>2. read' \in Nat /\ read' <= produced
      BY DEF TypeOK, PumpRead, PumpEof, PumpStop
    <2>3. /\ pump' \in {"select", "forward", "waiting", "over"} /\ sending' \in Clients \cup {None}
          /\ closed' \in BOOLEAN /\ closer' \in {"none", "calling", "done"}
      BY DEF TypeOK, PumpRead, PumpEof, PumpStop
    <2> QED
      BY <2>1, <2>2, <2>3 DEF TypeOK
  <1>2. /\ UNCHANGED <<attached, queue, reason, exitSent, removed, pc>>
        /\ closed => closed'
        /\ closer' # "none" => closed'
    BY DEF CloseGoesFirst, PumpRead, PumpEof, PumpStop
  <1>3. PumpHolds'
    BY DEF PumpHolds, PumpRead, PumpEof, PumpStop, TypeOK
  <1>4. PlacesGoOn
    BY <1>2 DEF PlacesGoOn, Serving
  <1> QED
    BY <1>1, <1>2, <1>3, <1>4, QuietKept

\* The loop of a WebSocket, as long as it changes its own place only.
LEMMA LoopKept ==
    ASSUME AttachInv, NEW c \in Clients,
           ReceiveNone(c) \/ SendToBrowser(c) \/ Type(c) \/ Write(c) \/ BrowserLeaves(c)
    PROVE  AttachInv'
  <1> USE ConstantsAssumption DEF AttachInv
  <1>1. PICK next \in {"loop", "write", "end"} : pc' = [pc EXCEPT ![c] = next]
    BY DEF ReceiveNone, SendToBrowser, Type, Write, BrowserLeaves
  <1>2. /\ pc[c] \in {"loop", "send", "write"}
        /\ UNCHANGED <<attached, queue, reason, exitSent, removed, pump, sending, closed, closer,
                       shell, produced, read, seen>>
    BY DEF ReceiveNone, SendToBrowser, Type, Write, BrowserLeaves
  <1>3. input' \in 0..InputCap /\ typed' \in [Clients -> Nat]
    <2>1. \/ input' = input
          \/ input < InputCap /\ input' = input + 1
      BY DEF ReceiveNone, SendToBrowser, Type, Write, BrowserLeaves
    <2>2. \/ typed' = typed
          \/ typed' = [typed EXCEPT ![c] = @ + 1]
      BY DEF ReceiveNone, SendToBrowser, Type, Write, BrowserLeaves
    <2>3. typed \in [Clients -> Nat] /\ input \in 0..InputCap
      BY DEF TypeOK
    <2>4. input' \in 0..InputCap
      BY <2>1, <2>3
    <2>5. typed' \in [Clients -> Nat]
      BY <2>2, <2>3
    <2> QED
      BY <2>4, <2>5
  <1>4. TypeOK'
    BY <1>1, <1>2, <1>3 DEF TypeOK
  <1>5. PlacesGoOn /\ PumpHolds'
    BY <1>1, <1>2 DEF PlacesGoOn, PumpHolds, Serving, TypeOK
  <1> QED
    BY <1>2, <1>4, <1>5, QuietKept DEF CloseGoesFirst

\* The attachment is let go of: a stall, the end of a close, a late check.
LEMMA FinishKept ==
    ASSUME AttachInv, Stall \/ CloseEnds \/ (\E c \in Clients : Check(c))
    PROVE  AttachInv'
  <1> USE ConstantsAssumption DEF AttachInv
  <1>1. CASE Stall
    <2>1. /\ sending \in Clients /\ FinishAttach(sending, "stalled")
          /\ sending' = None /\ pump' = "select"
          /\ UNCHANGED <<shell, produced, read, input, closed, closer, pc, seen, typed, reason, exitSent>>
      BY <1>1 DEF Stall, StallDetaches, PumpHolds
    <2>2. /\ attached' \in Clients \cup {None}
          /\ queue' \in [Clients -> Seq(Events)] /\ \A d \in Clients : Len(queue'[d]) <= QueueCap
          /\ removed' \in [Clients -> Reasons \cup {"no"}]
      BY <2>1, FinishAttachKept DEF Reasons, TerminalGone
    <2>3. TypeOK'
      BY <2>1, <2>2 DEF TypeOK
    <2>4. PlacesGoOn /\ PumpHolds' /\ (closed => closed') /\ (closer' # "none" => closed')
      BY <2>1 DEF PlacesGoOn, PumpHolds, Serving, CloseGoesFirst
    <2> QED
      BY <2>1, <2>3, <2>4, LetGoKept DEF Reasons, TerminalGone
  <1>2. CASE CloseEnds
    <2>1. /\ closer = "calling" /\ closer' = "done" /\ shell' = "dead"
          /\ UNCHANGED <<produced, read, input, pump, sending, closed, pc, seen, typed, reason, exitSent>>
      BY <1>2 DEF CloseEnds
    <2>2. closed
      BY <2>1 DEF CloseGoesFirst
    <2>3. PlacesGoOn /\ PumpHolds' /\ (closed => closed') /\ (closer' # "none" => closed')
      BY <2>1, <2>2 DEF PlacesGoOn, PumpHolds, Serving
    <2>4. CASE attached = None
      <3>1. UNCHANGED <<attached, removed, queue>>
        BY <1>2, <2>4 DEF CloseEnds
      <3>2. TypeOK'
        BY <2>1, <3>1 DEF TypeOK
      <3> QED
        BY <2>1, <2>3, <3>1, <3>2, QuietKept
    <2>5. CASE attached # None
      <3>1. attached \in Clients /\ FinishAttach(attached, "deleted")
        BY <1>2, <2>5 DEF CloseEnds, TypeOK
      <3>2. /\ attached' \in Clients \cup {None}
            /\ queue' \in [Clients -> Seq(Events)] /\ \A d \in Clients : Len(queue'[d]) <= QueueCap
            /\ removed' \in [Clients -> Reasons \cup {"no"}]
        BY <2>2, <3>1, FinishAttachKept DEF Reasons
      <3>3. TypeOK'
        BY <2>1, <3>2 DEF TypeOK
      <3> QED
        BY <2>1, <2>2, <2>3, <3>1, <3>3, LetGoKept DEF Reasons
    <2> QED
      BY <2>4, <2>5
  <1>3. ASSUME NEW c \in Clients, Check(c) PROVE AttachInv'
    <2>1. /\ pc[c] = "check" /\ pc' = [pc EXCEPT ![c] = "loop"]
          /\ UNCHANGED <<shell, produced, read, input, pump, sending, closed, closer, seen, typed,
                         reason, exitSent>>
      BY <1>3 DEF Check
    <2>2. pc' \in [Clients -> {"new", "check", "loop", "send", "write", "end", "gone"}]
      BY <2>1 DEF TypeOK
    <2>3. PlacesGoOn /\ PumpHolds' /\ (closed => closed') /\ (closer' # "none" => closed')
      BY <2>1 DEF PlacesGoOn, PumpHolds, Serving, CloseGoesFirst, TypeOK
    <2>4. CASE ~closed
      <3>1. UNCHANGED <<attached, removed, queue>>
        BY <1>3, <2>4 DEF Check, CheckClosed
      <3>2. TypeOK'
        BY <2>1, <2>2, <3>1 DEF TypeOK
      <3> QED
        BY <2>1, <2>3, <3>1, <3>2, QuietKept
    <2>5. CASE closed
      <3>1. FinishAttach(c, "exited")
        BY <1>3, <2>5 DEF Check, CheckClosed
      <3>2. /\ attached' \in Clients \cup {None}
            /\ queue' \in [Clients -> Seq(Events)] /\ \A d \in Clients : Len(queue'[d]) <= QueueCap
            /\ removed' \in [Clients -> Reasons \cup {"no"}]
        BY <2>5, <3>1, FinishAttachKept DEF Reasons
      <3>3. TypeOK'
        BY <2>1, <2>2, <3>2 DEF TypeOK
      <3> QED
        BY <2>1, <2>3, <2>5, <3>1, <3>3, LetGoKept DEF Reasons
    <2> QED
      BY <2>4, <2>5
  <1> QED
    BY <1>1, <1>2, <1>3

\* The pump puts a chunk into the queue of the client it holds, or waits.
LEMMA PumpSendKept ==
    ASSUME AttachInv, PumpSend \/ PumpWaited
    PROVE  AttachInv'
  <1> USE ConstantsAssumption DEF AttachInv
  <1> DEFINE ev == Data(read, read)
  <1>1. /\ sending \in Clients
        /\ UNCHANGED <<shell, produced, read, input, closed, closer, attached, pc, seen, typed,
                       reason, exitSent, removed>>
        /\ \/ queue' = queue
           \/ Room(sending) /\ queue' = [queue EXCEPT ![sending] = Append(queue[sending], ev)]
        /\ \/ pump' = "select" /\ sending' = None
           \/ pump' = "waiting" /\ sending' = sending
    BY DEF PumpSend, PumpWaited, Sent, PumpHolds
  <1>2. ev \in Events /\ ev.kind = "data"
    BY EventsAreTyped DEF TypeOK
  <1>3. queue \in [Clients -> Seq(Events)] /\ \A d \in Clients : Len(queue[d]) <= QueueCap
    BY DEF TypeOK
  <1>4. /\ queue' \in [Clients -> Seq(Events)]
        /\ \A d \in Clients : Len(queue'[d]) <= QueueCap
        /\ \A d \in Clients : \A i \in 1..Len(queue'[d]) :
             queue'[d][i] = ev \/ (i \in 1..Len(queue[d]) /\ queue'[d][i] = queue[d][i])
    <2>1. CASE queue' = queue
      BY <1>3, <2>1
    <2>2. CASE Room(sending) /\ queue' = [queue EXCEPT ![sending] = Append(queue[sending], ev)]
      <3> HIDE DEF ev, AttachInv
      <3> QED
        BY <1>1, <1>2, <1>3, <2>2 DEF Room
    <2> QED
      BY <1>1, <2>1, <2>2
  <1>5. TypeOK' /\ PumpHolds'
    BY <1>1, <1>4 DEF TypeOK, PumpHolds
  <1>6. ReasonIsTrue'
    BY <1>1, <1>2, <1>4 DEF ReasonIsTrue
  <1>7. /\ RemovedIsOver' /\ CloseGoesFirst' /\ NobodyIsDroppedByMistake' /\ GoneIsDetached'
        /\ ExitFrameIsTrue'
    BY <1>1 DEF RemovedIsOver, CloseGoesFirst, NobodyIsDroppedByMistake, GoneIsDetached,
                ExitFrameIsTrue, Serving, TerminalGone
  <1> QED
    BY <1>5, <1>6, <1>7

\* A new client takes the place of the attached one, which is told so.
LEMMA InstallKept ==
    ASSUME AttachInv, NEW c \in Clients, Install(c)
    PROVE  AttachInv'
  <1> USE ConstantsAssumption DEF AttachInv
  <1> DEFINE q == [queue EXCEPT ![c] = Replay]
             ev == ClosedFor("replaced")
  <1>1. /\ pc[c] = "new" /\ pc' = [pc EXCEPT ![c] = "check"]
        /\ seen' = [seen EXCEPT ![c] = Oldest] /\ attached' = c
        /\ UNCHANGED <<shell, produced, read, input, pump, sending, closed, closer, typed, reason, exitSent>>
    BY DEF Install
  <1>2. removed[c] = "no" /\ attached # c
    BY <1>1 DEF RemovedIsOver, GoneIsDetached
  <1>3. Oldest \in Nat
    BY DEF Oldest, TypeOK
  <1>4. /\ Replay \in Seq(Events) /\ Len(Replay) <= QueueCap
        /\ \A i \in 1..Len(Replay) : Replay[i].kind = "data"
    <2>1. Data(Oldest + 1, read) \in Events /\ Data(Oldest + 1, read).kind = "data"
      BY <1>3, EventsAreTyped DEF TypeOK
    <2> QED
      BY <2>1 DEF Replay
  <1>5. /\ q \in [Clients -> Seq(Events)] /\ \A d \in Clients : Len(q[d]) <= QueueCap
        /\ q[c] = Replay /\ \A d \in Clients \ {c} : q[d] = queue[d]
    BY <1>4 DEF TypeOK
  <1>6. ev \in Events /\ ev.why = "replaced"
    BY EventsAreTyped DEF Reasons
  <1>7. \A d \in Clients \ {c} : removed[d] = "no" =>
          \A i \in 1..Len(queue[d]) : queue[d][i].kind # "closed"
    <2> SUFFICES ASSUME NEW d \in Clients \ {c}, removed[d] = "no",
                        NEW i \in 1..Len(queue[d]), queue[d][i].kind = "closed"
                 PROVE  FALSE
      OBVIOUS
    <2>1. queue[d][i] \in Events
      BY DEF TypeOK
    <2>2. queue[d][i].why \in Reasons
      BY <2>1 DEF Events
    <2> QED
      BY <2>2 DEF ReasonIsTrue, Reasons
  <1>8. /\ queue' \in [Clients -> Seq(Events)]
        /\ \A d \in Clients : Len(queue'[d]) <= QueueCap
        /\ removed' \in [Clients -> Reasons \cup {"no"}]
        /\ \A d \in Clients : removed'[d] = IF attached = d THEN "replaced" ELSE removed[d]
        /\ \A d \in Clients : \A i \in 1..Len(queue'[d]) :
             queue'[d][i].kind = "closed" => removed'[d] = queue'[d][i].why
    <2>1. ASSUME NEW d \in Clients, NEW i \in 1..Len(q[d]), q[d][i].kind = "closed"
          PROVE  d # c /\ removed[d] = q[d][i].why /\ removed[d] # "no"
      <3>1. d # c
        BY <1>4, <1>5, <2>1
      <3>2. q[d] = queue[d]
        BY <1>5, <3>1
      <3> HIDE DEF q
      <3> QED
        BY <1>7, <2>1, <3>1, <3>2 DEF ReasonIsTrue
    <2>2. CASE attached = None
      <3>1. queue' = q /\ removed' = removed
        BY <1>1, <2>2 DEF Install
      <3> HIDE DEF q
      <3> QED
        BY <1>5, <2>1, <2>2, <3>1 DEF TypeOK
    <2>3. CASE attached # None
      <3> DEFINE t == TrySend(q, attached, ev)
      <3>1. queue' = t /\ removed' = [removed EXCEPT ![attached] = "replaced"]
        BY <1>1, <2>3 DEF Install
      <3>2. attached \in Clients \ {c} /\ removed[attached] = "no"
        BY <1>2, <2>3 DEF TypeOK, RemovedIsOver
      <3>3. removed' \in [Clients -> Reasons \cup {"no"}]
        BY <3>1 DEF TypeOK, Reasons
      <3>4. \A d \in Clients : removed'[d] = IF attached = d THEN "replaced" ELSE removed[d]
        BY <3>1, <3>2 DEF TypeOK
      <3>5. /\ t \in [Clients -> Seq(Events)]
            /\ \A d \in Clients : Len(t[d]) <= QueueCap
            /\ \A d \in Clients \ {attached} : t[d] = q[d]
            /\ \A i \in 1..Len(t[attached]) :
                 t[attached][i] = ev \/ (i \in 1..Len(q[attached]) /\ t[attached][i] = q[attached][i])
        <4> HIDE DEF q, ev, AttachInv
        <4> QED
          BY <1>5, <1>6, <3>2, TrySendType
      <3> HIDE DEF q, ev, t, AttachInv
      <3>6. ASSUME NEW d \in Clients, NEW i \in 1..Len(t[d]), t[d][i].kind = "closed"
            PROVE  removed'[d] = t[d][i].why
        <4>1. CASE d = attached
          BY <1>6, <2>1, <3>2, <3>4, <3>5, <3>6, <4>1
        <4>2. CASE d # attached
          BY <2>1, <3>4, <3>5, <3>6, <4>2
        <4> QED
          BY <4>1, <4>2
      <3> QED
        BY <3>1, <3>3, <3>4, <3>5, <3>6
    <2> QED
      BY <2>2, <2>3
  <1>9. TypeOK'
    <2>1. /\ pc' \in [Clients -> {"new", "check", "loop", "send", "write", "end", "gone"}]
          /\ seen' \in [Clients -> Nat] /\ attached' \in Clients \cup {None}
      BY <1>1, <1>3 DEF TypeOK
    <2> QED
      BY <1>1, <1>8, <2>1 DEF TypeOK
  <1>10. RemovedIsOver' /\ GoneIsDetached' /\ NobodyIsDroppedByMistake'
    BY <1>1, <1>2, <1>8 DEF RemovedIsOver, GoneIsDetached, NobodyIsDroppedByMistake, Serving, TypeOK
  <1>11. ReasonIsTrue'
    <2>1. \A d \in Clients : attached = d => reason[d] = "none"
      BY DEF RemovedIsOver, ReasonIsTrue, TypeOK, Reasons
    <2> QED
      BY <1>1, <1>8, <2>1 DEF ReasonIsTrue
  <1>12. CloseGoesFirst' /\ PumpHolds'
    BY <1>1, <1>8 DEF CloseGoesFirst, PumpHolds, TerminalGone
  <1>13. ExitFrameIsTrue'
    <2>1. \A d \in exitSent : /\ d \in Clients /\ closed /\ removed[d] \in {"exited", "deleted"}
                              /\ attached # d
      BY DEF ExitFrameIsTrue, TypeOK, RemovedIsOver
    <2> QED
      BY <1>1, <1>8, <2>1 DEF ExitFrameIsTrue
  <1> QED
    BY <1>9, <1>10, <1>11, <1>12, <1>13

\* A client takes the first event of its queue.
LEMMA ReceiveKept ==
    ASSUME AttachInv, NEW c \in Clients, Receive(c)
    PROVE  AttachInv'
  <1> USE ConstantsAssumption DEF AttachInv
  <1> DEFINE ev == Head(queue[c])
  <1>1. /\ pc[c] = "loop" /\ queue[c] # <<>>
        /\ queue' = [queue EXCEPT ![c] = Tail(queue[c])]
        /\ UNCHANGED <<shell, produced, read, input, pump, sending, closed, closer, attached, typed,
                       exitSent, removed>>
    BY DEF Receive
  <1>2. queue \in [Clients -> Seq(Events)] /\ \A d \in Clients : Len(queue[d]) <= QueueCap
    BY DEF TypeOK
  <1>3. /\ ev \in Events /\ 1 \in 1..Len(queue[c]) /\ ev = queue[c][1]
        /\ Len(queue[c]) \in Nat \ {0}
    BY <1>1, <1>2
  <1>4. /\ queue' \in [Clients -> Seq(Events)]
        /\ \A d \in Clients : Len(queue'[d]) <= QueueCap
        /\ \A d \in Clients \ {c} : queue'[d] = queue[d]
        /\ \A i \in 1..Len(queue'[c]) : i + 1 \in 1..Len(queue[c]) /\ queue'[c][i] = queue[c][i + 1]
    BY <1>1, <1>2, <1>3
  <1>5. /\ pc' \in [Clients -> {"new", "check", "loop", "send", "write", "end", "gone"}]
        /\ seen' \in [Clients -> Nat] /\ reason' \in [Clients -> Reasons \cup {"none"}]
        /\ \A d \in Clients : pc'[d] # pc[d] => d = c /\ pc'[d] \in {"send", "end"}
        /\ \A d \in Clients : reason'[d] # "none" => removed[d] = reason'[d]
    <2>1. CASE ev.kind = "data"
      <3>1. /\ seen' = [seen EXCEPT ![c] = ev.to] /\ pc' = [pc EXCEPT ![c] = "send"]
            /\ reason' = reason
        BY <2>1 DEF Receive
      <3>2. ev.to \in Nat
        BY <1>3, <2>1 DEF Events
      <3>3. seen' \in [Clients -> Nat]
        BY <3>1, <3>2 DEF TypeOK
      <3>4. /\ pc' \in [Clients -> {"new", "check", "loop", "send", "write", "end", "gone"}]
            /\ \A d \in Clients : pc'[d] # pc[d] => d = c /\ pc'[d] = "send"
        BY <3>1 DEF TypeOK
      <3> QED
        BY <3>1, <3>3, <3>4 DEF TypeOK, ReasonIsTrue
    <2>2. CASE ev.kind # "data"
      <3>1. /\ seen' = seen /\ pc' = [pc EXCEPT ![c] = "end"]
            /\ reason' = [reason EXCEPT ![c] = ev.why]
        BY <2>2 DEF Receive
      <3>2. ev.kind = "closed" /\ ev.why \in Reasons
        BY <1>3, <2>2 DEF Events
      <3>3. removed[c] = ev.why
        BY <1>3, <3>2 DEF ReasonIsTrue
      <3>4. /\ pc' \in [Clients -> {"new", "check", "loop", "send", "write", "end", "gone"}]
            /\ \A d \in Clients : pc'[d] # pc[d] => d = c /\ pc'[d] = "end"
        BY <3>1 DEF TypeOK
      <3>5. /\ reason' \in [Clients -> Reasons \cup {"none"}]
            /\ \A d \in Clients : reason'[d] # "none" => removed[d] = reason'[d]
        BY <3>1, <3>2, <3>3 DEF TypeOK, ReasonIsTrue
      <3> QED
        BY <3>1, <3>4, <3>5 DEF TypeOK
    <2> QED
      BY <2>1, <2>2
  <1>6. TypeOK' /\ PumpHolds'
    BY <1>1, <1>4, <1>5 DEF TypeOK, PumpHolds
  <1>7. ReasonIsTrue'
    <2>1. \A d \in Clients : \A i \in 1..Len(queue'[d]) :
            queue'[d][i].kind = "closed" => removed[d] = queue'[d][i].why
      <3>1. ASSUME NEW i \in 1..Len(queue'[c]), queue'[c][i].kind = "closed"
            PROVE  removed[c] = queue'[c][i].why
        BY <1>4, <3>1 DEF ReasonIsTrue
      <3>2. ASSUME NEW d \in Clients \ {c}, NEW i \in 1..Len(queue'[d]), queue'[d][i].kind = "closed"
            PROVE  removed[d] = queue'[d][i].why
        BY <1>4, <3>2 DEF ReasonIsTrue
      <3> QED
        BY <3>1, <3>2
    <2> QED
      BY <1>1, <1>5, <2>1 DEF ReasonIsTrue
  <1>8. /\ RemovedIsOver' /\ CloseGoesFirst' /\ NobodyIsDroppedByMistake' /\ GoneIsDetached'
         /\ ExitFrameIsTrue'
    BY <1>1, <1>5 DEF RemovedIsOver, CloseGoesFirst, NobodyIsDroppedByMistake, GoneIsDetached,
                      ExitFrameIsTrue, Serving, TerminalGone
  <1> QED
    BY <1>6, <1>7, <1>8

\* A client that leaves ends its own attachment only, and its exit frame is true.
LEMMA LeaveKept ==
    ASSUME AttachInv, NEW c \in Clients, Leave(c)
    PROVE  AttachInv'
  <1> USE ConstantsAssumption DEF AttachInv
  <1>1. /\ pc[c] = "end" /\ pc' = [pc EXCEPT ![c] = "gone"]
        /\ exitSent' = IF TerminalGone(reason[c]) THEN exitSent \cup {c} ELSE exitSent
        /\ attached' = IF attached = c THEN None ELSE attached
        /\ queue' = [queue EXCEPT ![c] = <<>>]
        /\ seen' = [seen EXCEPT ![c] = 0]
        /\ reason' = [reason EXCEPT ![c] = "none"]
        /\ UNCHANGED <<shell, produced, read, input, pump, sending, closed, closer, typed, removed>>
    BY DEF Leave, DetachOwn
  <1>2. /\ queue' \in [Clients -> Seq(Events)] /\ queue'[c] = <<>> /\ Len(queue'[c]) = 0
        /\ \A d \in Clients \ {c} : queue'[d] = queue[d]
        /\ \A d \in Clients : Len(queue'[d]) <= QueueCap
    BY <1>1 DEF TypeOK
  <1>3. /\ pc' \in [Clients -> {"new", "check", "loop", "send", "write", "end", "gone"}]
        /\ pc'[c] = "gone" /\ \A d \in Clients \ {c} : pc'[d] = pc[d]
    BY <1>1 DEF TypeOK
  <1>4. /\ reason' \in [Clients -> Reasons \cup {"none"}]
        /\ reason'[c] = "none" /\ \A d \in Clients \ {c} : reason'[d] = reason[d]
        /\ seen' \in [Clients -> Nat]
    BY <1>1 DEF TypeOK
  <1>5. attached' \in Clients \cup {None} /\ attached' # c /\ exitSent' \subseteq Clients
        /\ \A d \in Clients \ {c} : attached' = d <=> attached = d
    BY <1>1 DEF TypeOK
  <1>6. TypeOK' /\ PumpHolds'
    BY <1>1, <1>2, <1>3, <1>4, <1>5 DEF TypeOK, PumpHolds
  <1>7. ReasonIsTrue'
    BY <1>1, <1>2, <1>4 DEF ReasonIsTrue
  <1>8. RemovedIsOver' /\ GoneIsDetached' /\ NobodyIsDroppedByMistake'
    BY <1>1, <1>3, <1>5 DEF RemovedIsOver, GoneIsDetached, NobodyIsDroppedByMistake, Serving
  <1>9. CloseGoesFirst'
    BY <1>1 DEF CloseGoesFirst, TerminalGone
  <1>10. ExitFrameIsTrue'
    <2>1. TerminalGone(reason[c]) => closed /\ removed[c] \in {"exited", "deleted"}
      BY DEF TerminalGone, ReasonIsTrue, CloseGoesFirst
    <2> QED
      BY <1>1, <2>1 DEF ExitFrameIsTrue
  <1> QED
    BY <1>6, <1>7, <1>8, <1>9, <1>10

\* Every step preserves the invariant.
LEMMA NextAttachInv == AttachInv /\ [Next]_vars => AttachInv'
  <1> SUFFICES ASSUME AttachInv, [Next]_vars PROVE AttachInv'
    OBVIOUS
  <1>1. CASE ShellWrite \/ ShellWritten \/ ShellRead \/ ShellExit \/ Close
    BY <1>1, ShellKept
  <1>2. CASE PumpStep
    BY <1>2, PumpReadKept, PumpSendKept DEF PumpStep
  <1>3. CASE Stall \/ CloseEnds
    BY <1>3, FinishKept
  <1>4. ASSUME NEW c \in Clients,
               \/ Install(c) \/ LoopStep(c)
               \/ SendToBrowser(c) \/ Type(c) \/ BrowserLeaves(c)
        PROVE  AttachInv'
    BY <1>4, InstallKept, FinishKept, ReceiveKept, LoopKept, LeaveKept DEF LoopStep
  <1>5. CASE UNCHANGED vars
    BY <1>5 DEF vars, AttachInv, TypeOK, RemovedIsOver, ReasonIsTrue, CloseGoesFirst, PumpHolds,
                NobodyIsDroppedByMistake, GoneIsDetached, ExitFrameIsTrue, Serving, TerminalGone
  <1> QED
    BY <1>1, <1>2, <1>3, <1>4, <1>5 DEF Next, AllOver

\* The inductive invariant holds.
LEMMA AttachIsInductive == Spec => []AttachInv
  BY InitAttachInv, NextAttachInv, PTL DEF Spec

\* Every queue stays within its bound, and the pump never reads more than the
\* shell has written.
THEOREM TypeCorrect == Spec => []TypeOK
  <1>1. AttachInv => TypeOK
    BY DEF AttachInv
  <1> QED
    BY <1>1, AttachIsInductive, PTL

\* A client that serves is attached, or was let go of for a reason: no late drop,
\* no stall and no close of another attachment takes its place away.
THEOREM ClientsAreKept == Spec => []NobodyIsDroppedByMistake
  <1>1. AttachInv => NobodyIsDroppedByMistake
    BY DEF AttachInv
  <1> QED
    BY <1>1, AttachIsInductive, PTL

\* A client that has left holds the terminal no more.
THEOREM LeaversDetach == Spec => []GoneIsDetached
  <1>1. AttachInv => GoneIsDetached
    BY DEF AttachInv
  <1> QED
    BY <1>1, AttachIsInductive, PTL

\* The exit frame is sent for closed terminals only.
THEOREM ExitFramesAreTrue == Spec => []ExitFrameIsTrue
  <1>1. AttachInv => ExitFrameIsTrue
    BY DEF AttachInv
  <1> QED
    BY <1>1, AttachIsInductive, PTL
\* What the run attach_safety checks of clients: types, nobody dropped by mistake,
\* nobody held who has left.
THEOREM ClientsStayServed == Spec => []ClientsAreServed
  <1>1. AttachInv => ClientsAreServed
    BY DEF AttachInv, ClientsAreServed
  <1> QED
    BY <1>1, AttachIsInductive, PTL
-----------------------------------------------------------------------------
(* Nothing is lost.  A goodbye is queued at most once, so of two events next to each *)
(* other one is data: what a client has been sent is known from the last two.        *)

Once(q) == \A i, j \in 1..Len(q) : q[i].kind = "closed" /\ q[j].kind = "closed" => i = j

\* The last chunk before event i, without a search.
Prev(q, s, i) ==
    IF i = 1 THEN s
    ELSE IF q[i - 1].kind = "data" THEN q[i - 1].to
    ELSE IF i = 2 THEN s ELSE q[i - 2].to

Chained(q, s) == \A i \in 1..Len(q) : q[i].kind = "data" => q[i].from = Prev(q, s, i) + 1

Sum(q, s) == Prev(q, s, Len(q) + 1)

\* No queue has a gap; the attached client gets everything, and so does the one whose sender
\* the pump holds, attached or not, up to the chunk in the pump's hands.
FlowInv ==
    /\ sending # None => pump \in {"forward", "waiting"} /\ pc[sending] # "new"
    /\ \A c \in Clients : Once(queue[c]) /\ Chained(queue[c], seen[c])
    /\ attached # None /\ sending # attached => Sum(queue[attached], seen[attached]) = read
    /\ sending # None /\ pc[sending] # "gone" => Sum(queue[sending], seen[sending]) = read - 1

\* An event is data or a goodbye.
LEMMA EventKinds == \A e \in Events : e.kind = "data" <=> e.kind # "closed"
  BY DEF Events

\* The search finds one of the last two events.
LEMMA BeforeIsPrev ==
    ASSUME TypeOK, NEW c \in Clients, Once(queue[c]), NEW i \in 1..(Len(queue[c]) + 1)
    PROVE  Before(c, i) = Prev(queue[c], seen[c], i)
  <1> DEFINE q == queue[c]
             data == {j \in 1..(i - 1) : q[j].kind = "data"}
             last == CHOOSE j \in data : \A k \in data : k <= j
  <1>1. Len(q) \in Nat /\ \A j \in 1..Len(q) : q[j].kind = "data" <=> q[j].kind # "closed"
    BY EventKinds DEF TypeOK
  <1>2. Before(c, i) = IF data = {} THEN seen[c] ELSE q[last].to
    BY DEF Before
  <1>3. i \in Nat /\ \A j \in 1..(i - 1) : j \in 1..Len(q)
    BY <1>1
  <1>4. ASSUME NEW m \in data, \A k \in data : k <= m
        PROVE  last = m
    <2>1. last \in data /\ \A k \in data : k <= last
      BY <1>4
    <2> QED
      BY <1>3, <1>4, <2>1
  <1>5. CASE i = 1
    <2>1. data = {}
      BY <1>5
    <2> QED
      BY <1>2, <1>5, <2>1 DEF Prev
  <1>6. CASE i > 1 /\ q[i - 1].kind = "data"
    <2>1. i - 1 \in data /\ \A k \in data : k <= i - 1
      BY <1>3, <1>6
    <2>2. last = i - 1
      BY <1>4, <2>1
    <2> QED
      BY <1>2, <1>6, <2>1, <2>2 DEF Prev
  <1>7. CASE i > 1 /\ q[i - 1].kind # "data"
    <2>1. i - 1 \in 1..Len(q) /\ q[i - 1].kind = "closed"
      BY <1>1, <1>3, <1>7
    <2>2. \A j \in 1..(i - 1) : j # i - 1 => q[j].kind = "data"
      BY <1>1, <1>3, <2>1 DEF Once
    <2>3. CASE i = 2
      <3>1. data = {}
        BY <1>7, <2>3
      <3> QED
        BY <1>2, <1>7, <2>3, <3>1 DEF Prev
    <2>4. CASE i > 2
      <3>1. i - 2 \in data /\ \A k \in data : k <= i - 2
        BY <1>3, <1>7, <2>2, <2>4
      <3>2. last = i - 2
        BY <1>4, <3>1
      <3>3. data # {}
        BY <3>1
      <3>4. Before(c, i) = q[i - 2].to
        BY <1>2, <3>2, <3>3
      <3> HIDE DEF last, data
      <3> QED
        BY <1>3, <1>7, <2>4, <3>4 DEF Prev
    <2> QED
      BY <1>3, <1>7, <2>3, <2>4
  <1> QED
    BY <1>3, <1>5, <1>6, <1>7

\* The next chunk is queued.
LEMMA DataFollows ==
    ASSUME NEW q \in Seq(Events), NEW s \in Nat, NEW n \in Nat,
           Once(q), Chained(q, s), Sum(q, s) = n - 1
    PROVE  LET p == Append(q, Data(n, n)) IN Once(p) /\ Chained(p, s) /\ Sum(p, s) = n
  <1> DEFINE p == Append(q, Data(n, n))
             l == Len(q)
  <1>1. l \in Nat /\ Len(p) = l + 1 /\ p[l + 1] = Data(n, n) /\ \A i \in 1..l : p[i] = q[i]
    OBVIOUS
  <1>2. p[l + 1].kind = "data" /\ p[l + 1].from = n /\ p[l + 1].to = n
    BY <1>1 DEF Data
  <1> HIDE DEF p, l
  <1>3. \A i \in 1..Len(p) : i \in 1..l \/ i = l + 1
    BY <1>1
  <1>4. Once(p)
    BY <1>1, <1>2, <1>3 DEF Once, l
  <1>5. \A i \in 1..(l + 1) : Prev(p, s, i) = Prev(q, s, i)
    BY <1>1 DEF Prev
  <1>6. Chained(p, s)
    BY <1>1, <1>2, <1>3, <1>5 DEF Chained, Sum, l
  <1>7. Sum(p, s) = n
    BY <1>1, <1>2 DEF Sum, Prev
  <1> QED
    BY <1>4, <1>6, <1>7 DEF p

\* The goodbye is queued.
LEMMA GoodbyeFollows ==
    ASSUME NEW q \in Seq(Events), NEW s, NEW why,
           \A i \in 1..Len(q) : q[i].kind # "closed", Chained(q, s)
    PROVE  LET p == Append(q, ClosedFor(why)) IN Once(p) /\ Chained(p, s) /\ Sum(p, s) = Sum(q, s)
  <1> DEFINE p == Append(q, ClosedFor(why))
             l == Len(q)
  <1>1. l \in Nat /\ Len(p) = l + 1 /\ p[l + 1] = ClosedFor(why) /\ \A i \in 1..l : p[i] = q[i]
    OBVIOUS
  <1>2. p[l + 1].kind = "closed" /\ p[l + 1].kind # "data"
    BY <1>1 DEF ClosedFor
  <1>3. \A i \in 1..l : q[i].kind = "data"
    BY EventKinds
  <1> HIDE DEF p
  <1>4. \A i \in 1..Len(p) : i \in 1..l \/ i = l + 1
    BY <1>1
  <1>5. Once(p)
    BY <1>1, <1>4 DEF Once
  <1>6. \A i \in 1..(l + 1) : Prev(p, s, i) = Prev(q, s, i)
    BY <1>1 DEF Prev
  <1>7. Chained(p, s)
    BY <1>1, <1>2, <1>4, <1>6 DEF Chained
  <1>8. Sum(p, s) = Sum(q, s)
    <2>1. CASE l = 0
      BY <1>1, <1>2, <2>1 DEF Sum, Prev
    <2>2. CASE l > 0
      <3>1. l \in 1..l
        BY <1>1, <2>2
      <3>2. q[l].kind = "data" /\ p[l] = q[l]
        BY <1>1, <1>3, <3>1
      <3>3. Sum(q, s) = q[l].to
        BY <1>1, <2>2, <3>2 DEF Sum, Prev
      <3>4. Sum(p, s) = p[l].to
        BY <1>1, <1>2, <2>2 DEF Sum, Prev
      <3> QED
        BY <3>2, <3>3, <3>4
    <2> QED
      BY <1>1, <2>1, <2>2
  <1> QED
    BY <1>5, <1>7, <1>8 DEF p

\* The first event is taken: data is what the client has seen from then on.
LEMMA FirstIsTaken ==
    ASSUME NEW q \in Seq(Events), q # << >>, NEW s, Once(q), Chained(q, s)
    PROVE  LET p == Tail(q)
               t == IF q[1].kind = "data" THEN q[1].to ELSE s
           IN Once(p) /\ Chained(p, t) /\ Sum(p, t) = Sum(q, s)
  <1> DEFINE p == Tail(q)
             l == Len(q)
             t == IF q[1].kind = "data" THEN q[1].to ELSE s
  <1>1. l \in Nat \ {0} /\ Len(p) = l - 1 /\ \A i \in 1..(l - 1) : p[i] = q[i + 1]
    OBVIOUS
  <1>2. \A i \in 1..l : q[i].kind = "data" <=> q[i].kind # "closed"
    BY EventKinds
  <1> HIDE DEF p
  <1>3. Once(p)
    <2> SUFFICES ASSUME NEW i \in 1..Len(p), NEW j \in 1..Len(p), p[i].kind = "closed", p[j].kind = "closed"
                 PROVE  i = j
      BY DEF Once
    <2>1. i + 1 \in 1..l /\ j + 1 \in 1..l /\ q[i + 1].kind = "closed" /\ q[j + 1].kind = "closed"
      BY <1>1
    <2>2. i + 1 = j + 1
      BY <2>1 DEF Once
    <2> QED
      BY <2>2
  <1>4. ASSUME NEW i \in 1..l
        PROVE  Prev(p, t, i) = Prev(q, s, i + 1)
    <2>1. CASE i = 1
      BY <1>1, <2>1 DEF Prev
    <2>2. CASE i = 2
      <3>1. 1 \in 1..l /\ 2 \in 1..l /\ p[1] = q[2]
        BY <1>1, <2>2
      <3>2. q[2].kind # "data" => q[1].kind = "data"
        BY <1>2, <3>1 DEF Once
      <3> QED
        BY <2>2, <3>1, <3>2 DEF Prev
    <2>3. CASE i > 2
      <3>1. p[i - 1] = q[i] /\ p[i - 2] = q[i - 1]
        BY <1>1, <2>3
      <3> QED
        BY <2>3, <3>1 DEF Prev
    <2> QED
      BY <2>1, <2>2, <2>3
  <1>5. Chained(p, t)
    <2> SUFFICES ASSUME NEW i \in 1..Len(p), p[i].kind = "data"
                 PROVE  p[i].from = Prev(p, t, i) + 1
      BY DEF Chained
    <2>1. i \in 1..l /\ i + 1 \in 1..l /\ p[i] = q[i + 1]
      BY <1>1
    <2> QED
      BY <1>4, <2>1 DEF Chained
  <1>6. Sum(p, t) = Sum(q, s)
    <2>1. l \in 1..l /\ Len(p) + 1 = l
      BY <1>1
    <2> HIDE DEF t, l
    <2> QED
      BY <1>4, <2>1 DEF Sum, l
  <1> QED
    BY <1>3, <1>5, <1>6 DEF p

\* What finish_attach queues, if there is room, is the only goodbye.
LEMMA FinishFlow ==
    ASSUME AttachInv, FlowInv, NEW c \in Clients, NEW why \in Reasons, FinishAttach(c, why)
    PROVE  \A d \in Clients : /\ Once(queue'[d]) /\ Chained(queue'[d], seen[d])
                              /\ Sum(queue'[d], seen[d]) = Sum(queue[d], seen[d])
                              /\ attached' = d => attached = d
  <1>0. attached' = attached \/ (attached' = None /\ None \notin Clients)
    BY ConstantsAssumption DEF FinishAttach
  <1>1. CASE queue' = queue
    BY <1>0, <1>1 DEF FlowInv
  <1>2. CASE queue' # queue
    <2>1. attached = c /\ queue' = [queue EXCEPT ![c] = Append(queue[c], ClosedFor(why))]
      BY <1>2 DEF FinishAttach, TrySend
    <2>2. queue \in [Clients -> Seq(Events)]
      BY DEF AttachInv, TypeOK
    <2>3. \A i \in 1..Len(queue[c]) : queue[c][i].kind # "closed"
      <3> SUFFICES ASSUME NEW i \in 1..Len(queue[c]), queue[c][i].kind = "closed"
                   PROVE  FALSE
        OBVIOUS
      <3>1. queue[c][i] \in Events
        BY <2>2
      <3>2. queue[c][i].why \in Reasons
        BY <3>1 DEF Events
      <3> QED
        BY <2>1, <3>2 DEF AttachInv, ReasonIsTrue, RemovedIsOver, Reasons
    <2>4. queue'[c] = Append(queue[c], ClosedFor(why)) /\ \A d \in Clients \ {c} : queue'[d] = queue[d]
      BY <2>1, <2>2
    <2>5. /\ Once(queue'[c]) /\ Chained(queue'[c], seen[c])
          /\ Sum(queue'[c], seen[c]) = Sum(queue[c], seen[c])
      BY <2>2, <2>3, <2>4, GoodbyeFollows DEF FlowInv
    <2> QED
      BY <1>0, <2>4, <2>5 DEF FlowInv
  <1> QED
    BY <1>1, <1>2


\* Steps that leave the queues and the hands of the pump alone.
LEMMA QuietFlow ==
    ASSUME FlowInv, AttachInv, UNCHANGED <<queue, seen, attached, sending, read>>,
           sending # None => pump' = pump,
           \A c \in Clients : (pc'[c] = "new" => pc[c] = "new") /\ (pc[c] = "gone" => pc'[c] = "gone")
    PROVE  FlowInv'
  <1>1. sending \in Clients \cup {None}
    BY DEF AttachInv, TypeOK
  <1> QED
    BY <1>1 DEF FlowInv

\* The steps that queue no data and let go of nobody.
LEMMA OthersFlow ==
    ASSUME AttachInv, FlowInv,
           \/ ShellWrite \/ ShellWritten \/ ShellRead \/ ShellExit \/ Close \/ PumpEof \/ PumpStop
           \/ \E c \in Clients :
                ReceiveNone(c) \/ SendToBrowser(c) \/ Type(c) \/ Write(c) \/ BrowserLeaves(c)
    PROVE  FlowInv'
  <1>1. UNCHANGED <<queue, seen, attached, sending, read>>
    BY DEF ShellWrite, ShellWritten, ShellRead, ShellExit, Close, PumpEof, PumpStop,
           ReceiveNone, SendToBrowser, Type, Write, BrowserLeaves
  <1>2. sending # None => pump' = pump
    BY DEF ShellWrite, ShellWritten, ShellRead, ShellExit, Close, PumpEof, PumpStop,
           ReceiveNone, SendToBrowser, Type, Write, BrowserLeaves, FlowInv
  <1>3. \A c \in Clients : (pc'[c] = "new" => pc[c] = "new") /\ (pc[c] = "gone" => pc'[c] = "gone")
    BY DEF ShellWrite, ShellWritten, ShellRead, ShellExit, Close, PumpEof, PumpStop,
           ReceiveNone, SendToBrowser, Type, Write, BrowserLeaves, AttachInv, TypeOK
  <1> QED
    BY <1>1, <1>2, <1>3, QuietFlow

\* The pump takes a chunk into its hands, together with the sender of this moment.
LEMMA PumpReadFlow == ASSUME AttachInv, FlowInv, PumpRead PROVE FlowInv'
  <1>1. /\ sending = None /\ read' = read + 1 /\ sending' = attached
        /\ UNCHANGED <<attached, queue, pc, seen>> /\ read \in Nat
        /\ attached # None => pump' = "forward" /\ attached \in Clients /\ pc[attached] # "new"
    BY DEF PumpRead, FlowInv, AttachInv, TypeOK, GoneIsDetached
  <1> QED
    BY <1>1 DEF FlowInv

\* The chunk is queued, or the client has left, or its queue is full.
LEMMA PumpSendFlow == ASSUME AttachInv, FlowInv, PumpSend \/ PumpWaited PROVE FlowInv'
  <1>1. /\ sending \in Clients /\ UNCHANGED <<read, attached, pc, seen>> /\ read \in Nat
        /\ queue \in [Clients -> Seq(Events)] /\ seen \in [Clients -> Nat]
    BY DEF PumpSend, PumpWaited, Sent, AttachInv, TypeOK, PumpHolds
  <1>2. CASE Sent(sending)
    <2>1. attached = sending => pc[sending] # "gone"
      BY <1>1 DEF AttachInv, GoneIsDetached
    <2>2. CASE pc[sending] = "gone"
      <3>1. queue' = queue /\ sending' = None
        BY <1>2, <2>2 DEF Sent
      <3> QED
        BY <1>1, <2>1, <2>2, <3>1 DEF FlowInv
    <2>3. CASE pc[sending] # "gone"
      <3> DEFINE c == sending
      <3>1. sending' = None /\ queue'[c] = Append(queue[c], Data(read, read))
        BY <1>1, <1>2, <2>3 DEF Sent
      <3>2. \A d \in Clients \ {c} : queue'[d] = queue[d]
        BY <1>1, <1>2, <2>3 DEF Sent
      <3>3. c \in Clients /\ c # None
        BY <1>1, ConstantsAssumption
      <3>4. Once(queue[c]) /\ Chained(queue[c], seen[c]) /\ Sum(queue[c], seen[c]) = read - 1
        BY <2>3, <3>3 DEF FlowInv
      <3>5. Once(queue'[c]) /\ Chained(queue'[c], seen[c]) /\ Sum(queue'[c], seen[c]) = read
        BY <1>1, <3>1, <3>3, <3>4, DataFollows
      <3>6. attached # None => Sum(queue'[attached], seen[attached]) = read
        <4>1. CASE attached = c
          BY <3>5, <4>1
        <4>2. CASE attached # c /\ attached # None
          <5>1. attached \in Clients \ {c}
            BY <4>2 DEF AttachInv, TypeOK
          <5> QED
            BY <3>2, <4>2, <5>1 DEF FlowInv
        <4> QED
          BY <4>1, <4>2
      <3>7. \A d \in Clients : Once(queue'[d]) /\ Chained(queue'[d], seen[d])
        BY <3>2, <3>5 DEF FlowInv
      <3> QED
        BY <1>1, <3>1, <3>6, <3>7 DEF FlowInv
    <2> QED
      BY <2>2, <2>3
  <1>3. CASE UNCHANGED <<queue, sending>> /\ pump' = "waiting"
    BY <1>1, <1>3 DEF FlowInv
  <1> QED
    BY <1>2, <1>3 DEF PumpSend, PumpWaited

\* A client is let go of: it counts no more.
LEMMA LetGoFlow ==
    ASSUME AttachInv, FlowInv, NEW c \in Clients, NEW why \in Reasons, FinishAttach(c, why),
           UNCHANGED <<seen, read>>,
           \/ sending' = sending /\ pump' = pump
           \/ sending' = None /\ (sending = attached => attached' = None),
           \A d \in Clients : (pc'[d] = "new" => pc[d] = "new") /\ (pc[d] = "gone" => pc'[d] = "gone")
    PROVE  FlowInv'
  <1>1. \A d \in Clients : /\ Once(queue'[d]) /\ Chained(queue'[d], seen[d])
                           /\ Sum(queue'[d], seen[d]) = Sum(queue[d], seen[d])
                           /\ attached' = d => attached = d
    BY FinishFlow
  <1>2. sending \in Clients \cup {None} /\ attached' \in Clients \cup {None}
    BY DEF AttachInv, TypeOK, FinishAttach
  <1>3. attached' # None => attached' = attached
    BY <1>1, <1>2
  <1> QED
    BY <1>1, <1>2, <1>3 DEF FlowInv

\* The three ways an attachment ends (the pump stalled, close, a client that is gone)
\* take nothing from what another client has been sent.
LEMMA FinishStepsFlow ==
    ASSUME AttachInv, FlowInv, Stall \/ CloseEnds \/ (\E c \in Clients : Check(c))
    PROVE  FlowInv'
  <1>1. CASE Stall
    <2>1. /\ sending \in Clients /\ FinishAttach(sending, "stalled")
          /\ sending' = None /\ UNCHANGED <<seen, read, pc>>
      BY <1>1 DEF Stall, StallDetaches, PumpHolds, AttachInv
    <2>2. sending = attached => attached' = None
      BY <2>1 DEF FinishAttach
    <2> QED
      BY <2>1, <2>2, LetGoFlow DEF Reasons
  <1>2. CASE CloseEnds
    <2>1. UNCHANGED <<seen, read, pc, pump, sending>>
      BY <1>2 DEF CloseEnds
    <2>2. CASE attached = None
      <3>1. UNCHANGED <<attached, queue>>
        BY <1>2, <2>2 DEF CloseEnds
      <3> QED
        BY <2>1, <3>1, QuietFlow
    <2>3. CASE attached # None
      <3>1. attached \in Clients /\ FinishAttach(attached, "deleted") /\ "deleted" \in Reasons
        BY <1>2, <2>3 DEF CloseEnds, AttachInv, TypeOK, Reasons
      <3>2. UNCHANGED <<seen, read>> /\ sending' = sending /\ pump' = pump
            /\ \A d \in Clients : (pc'[d] = "new" => pc[d] = "new") /\ (pc[d] = "gone" => pc'[d] = "gone")
        BY <2>1
      <3> QED
        BY <3>1, <3>2, LetGoFlow
    <2> QED
      BY <2>2, <2>3
  <1>3. ASSUME NEW c \in Clients, Check(c)
        PROVE  FlowInv'
    <2>1. UNCHANGED <<seen, read, pump, sending>>
      BY <1>3 DEF Check
    <2>2. \A d \in Clients : (pc'[d] = "new" => pc[d] = "new") /\ (pc[d] = "gone" => pc'[d] = "gone")
      BY <1>3 DEF Check, AttachInv, TypeOK
    <2>3. CASE closed
      <3>1. FinishAttach(c, "exited") /\ "exited" \in Reasons
        BY <1>3, <2>3 DEF Check, CheckClosed, Reasons
      <3>2. UNCHANGED <<seen, read>> /\ sending' = sending /\ pump' = pump
        BY <2>1
      <3> QED
        BY <2>2, <3>1, <3>2, LetGoFlow
    <2>4. CASE ~closed
      <3>1. UNCHANGED <<attached, queue>>
        BY <1>3, <2>4 DEF Check, CheckClosed
      <3> QED
        BY <2>1, <2>2, <3>1, QuietFlow
    <2> QED
      BY <2>3, <2>4
  <1> QED
    BY <1>1, <1>2, <1>3

\* A new client gets the scrollback, and all that is read from then on.
LEMMA InstallFlow == ASSUME AttachInv, FlowInv, NEW c \in Clients, Install(c) PROVE FlowInv'
  <1>1. /\ pc[c] = "new" /\ pc' = [pc EXCEPT ![c] = "check"] /\ attached' = c
        /\ seen' = [seen EXCEPT ![c] = Oldest]
        /\ UNCHANGED <<read, sending, pump>> /\ read \in Nat
        /\ queue \in [Clients -> Seq(Events)] /\ seen \in [Clients -> Nat] /\ pc'[c] = "check"
    BY DEF Install, AttachInv, TypeOK
  <1>2. attached # c /\ sending # c /\ c # None
    BY <1>1, ConstantsAssumption DEF AttachInv, GoneIsDetached, FlowInv
  <1>3. Oldest \in Nat /\ (read = 0 => Oldest = 0)
    BY <1>1, ConstantsAssumption DEF Oldest
  <1>4. Once(Replay) /\ Chained(Replay, Oldest) /\ Sum(Replay, Oldest) = read
    <2>1. CASE read = 0
      BY <1>3, <2>1 DEF Replay, Once, Chained, Sum, Prev
    <2>2. CASE read # 0
      <3>1. Replay = << Data(Oldest + 1, read) >>
        BY <2>2 DEF Replay
      <3>2. Len(Replay) = 1 /\ Replay[1] = Data(Oldest + 1, read)
        BY <3>1
      <3>3. /\ Replay[1].kind = "data" /\ Replay[1].from = Oldest + 1 /\ Replay[1].to = read
        BY <3>2 DEF Data
      <3> QED
        BY <3>2, <3>3 DEF Once, Chained, Sum, Prev
    <2> QED
      BY <2>1, <2>2
  <1>5. /\ queue'[c] = Replay
        /\ \A d \in Clients \ {c} : \/ queue'[d] = queue[d]
                                    \/ attached = d /\ queue'[d] = Append(queue[d], ClosedFor("replaced"))
    BY <1>1, <1>2 DEF Install, TrySend, AttachInv, TypeOK
  <1>6. \A d \in Clients \ {c} : seen'[d] = seen[d] /\ pc'[d] = pc[d]
    BY <1>1 DEF AttachInv, TypeOK
  <1>7. ASSUME NEW d \in Clients \ {c}
        PROVE  /\ Once(queue'[d]) /\ Chained(queue'[d], seen[d])
               /\ Sum(queue'[d], seen[d]) = Sum(queue[d], seen[d])
    <2>1. CASE queue'[d] = queue[d]
      BY <2>1 DEF FlowInv
    <2>2. CASE attached = d /\ queue'[d] = Append(queue[d], ClosedFor("replaced"))
      <3>1. \A i \in 1..Len(queue[d]) : queue[d][i].kind # "closed"
        <4> SUFFICES ASSUME NEW i \in 1..Len(queue[d]), queue[d][i].kind = "closed"
                     PROVE  FALSE
          OBVIOUS
        <4>1. queue[d][i] \in Events
          BY <1>1
        <4>2. queue[d][i].why \in Reasons
          BY <4>1 DEF Events
        <4> QED
          BY <2>2, <4>2 DEF AttachInv, ReasonIsTrue, RemovedIsOver, Reasons
      <3>2. Chained(queue[d], seen[d]) /\ queue[d] \in Seq(Events)
        BY <1>1 DEF FlowInv
      <3> QED
        BY <2>2, <3>1, <3>2, GoodbyeFollows
    <2> QED
      BY <1>5, <2>1, <2>2
  <1>8. \A d \in Clients : Once(queue'[d]) /\ Chained(queue'[d], seen'[d])
    BY <1>1, <1>4, <1>5, <1>6, <1>7
  <1>9. Sum(queue'[c], seen'[c]) = read
    BY <1>1, <1>4, <1>5
  <1>10. sending # None => sending \in Clients \ {c}
    BY <1>2 DEF AttachInv, TypeOK
  <1>11. sending # None /\ pc'[sending] # "gone" => Sum(queue'[sending], seen'[sending]) = read - 1
    BY <1>6, <1>7, <1>10 DEF FlowInv
  <1> QED
    BY <1>1, <1>6, <1>8, <1>9, <1>10, <1>11 DEF FlowInv

\* What has been taken out of the queue has been seen.
LEMMA ReceiveFlow == ASSUME AttachInv, FlowInv, NEW c \in Clients, Receive(c) PROVE FlowInv'
  <1>1. /\ queue[c] # << >> /\ queue'[c] = Tail(queue[c]) /\ \A d \in Clients \ {c} : queue'[d] = queue[d]
        /\ UNCHANGED <<read, attached, sending, pump>>
        /\ queue[c] \in Seq(Events) /\ seen \in [Clients -> Nat]
    BY DEF Receive, AttachInv, TypeOK
  <1>2. Head(queue[c]) = queue[c][1]
    BY <1>1
  <1>3. /\ seen'[c] = IF queue[c][1].kind = "data" THEN queue[c][1].to ELSE seen[c]
        /\ \A d \in Clients \ {c} : seen'[d] = seen[d]
    BY <1>1, <1>2 DEF Receive
  <1>4. \A d \in Clients : (pc'[d] = "new" => pc[d] = "new") /\ (pc[d] = "gone" => pc'[d] = "gone")
    BY DEF Receive, AttachInv, TypeOK
  <1>5. /\ Once(queue'[c]) /\ Chained(queue'[c], seen'[c])
        /\ Sum(queue'[c], seen'[c]) = Sum(queue[c], seen[c])
    BY <1>1, <1>3, FirstIsTaken DEF FlowInv
  <1>6. \A d \in Clients : /\ Once(queue'[d]) /\ Chained(queue'[d], seen'[d])
                           /\ Sum(queue'[d], seen'[d]) = Sum(queue[d], seen[d])
    BY <1>1, <1>3, <1>5 DEF FlowInv
  <1>7. sending \in Clients \cup {None} /\ attached \in Clients \cup {None}
    BY DEF AttachInv, TypeOK
  <1> QED
    BY <1>1, <1>4, <1>6, <1>7 DEF FlowInv

\* Who leaves is owed nothing.
LEMMA LeaveFlow == ASSUME AttachInv, FlowInv, NEW c \in Clients, Leave(c) PROVE FlowInv'
  <1>1. /\ pc' = [pc EXCEPT ![c] = "gone"] /\ queue' = [queue EXCEPT ![c] = <<>>]
        /\ seen' = [seen EXCEPT ![c] = 0] /\ UNCHANGED <<read, sending, pump>>
        /\ attached' = IF attached = c THEN None ELSE attached
        /\ sending \in Clients \cup {None} /\ attached \in Clients \cup {None}
    BY DEF Leave, DetachOwn, AttachInv, TypeOK
  <1>2. /\ queue'[c] = << >> /\ pc'[c] = "gone"
        /\ \A d \in Clients \ {c} : queue'[d] = queue[d] /\ seen'[d] = seen[d] /\ pc'[d] = pc[d]
    BY <1>1 DEF AttachInv, TypeOK
  <1>3. Once(queue'[c]) /\ Chained(queue'[c], seen'[c])
    BY <1>2 DEF Once, Chained
  <1>4. attached' # None => attached' = attached /\ attached \in Clients \ {c}
    BY <1>1
  <1> QED
    BY <1>1, <1>2, <1>3, <1>4 DEF FlowInv

\* What a client has been shown, what waits in its queue and the chunk in the hands of the pump
\* are everything the terminal has read since the oldest chunk of the replay, without gap or
\* repetition, whatever attachments, stalls and closes meet (Terminal::attach, forward).
THEOREM OutputIsWhole == Spec => []NothingIsLost
  <1>1. Init => FlowInv
    <2> SUFFICES ASSUME Init
                 PROVE  FlowInv
      OBVIOUS
    <2>1. \A c \in Clients : queue[c] = << >> /\ Len(queue[c]) = 0
      BY DEF Init
    <2> QED
      BY <2>1 DEF Init, FlowInv, Once, Chained
  <1>2. AttachInv /\ FlowInv /\ [Next]_vars => FlowInv'
    <2> SUFFICES ASSUME AttachInv, FlowInv, [Next]_vars
                 PROVE  FlowInv'
      OBVIOUS
    <2>1. CASE ShellWrite \/ ShellWritten \/ ShellRead \/ ShellExit \/ Close
      BY <2>1, OthersFlow
    <2>2. CASE PumpStep
      BY <2>2, OthersFlow, PumpReadFlow, PumpSendFlow DEF PumpStep
    <2>3. CASE Stall \/ CloseEnds
      BY <2>3, FinishStepsFlow
    <2>4. ASSUME NEW c \in Clients,
                 \/ Install(c) \/ LoopStep(c)
                 \/ SendToBrowser(c) \/ Type(c) \/ BrowserLeaves(c)
          PROVE  FlowInv'
      BY <2>4, InstallFlow, FinishStepsFlow, ReceiveFlow, OthersFlow, LeaveFlow DEF LoopStep
    <2>5. CASE UNCHANGED vars
      BY <2>5, QuietFlow DEF vars
    <2> QED
      BY <2>1, <2>2, <2>3, <2>4, <2>5 DEF Next, AllOver
  <1>3. AttachInv /\ FlowInv => NothingIsLost
    <2> SUFFICES ASSUME AttachInv, FlowInv
                 PROVE  NothingIsLost
      OBVIOUS
    <2>1. TypeOK /\ \A c \in Clients : Len(queue[c]) \in Nat
      BY DEF AttachInv, TypeOK
    <2>2. ASSUME NEW c \in Clients, NEW i \in 1..Len(queue[c]), queue[c][i].kind = "data"
          PROVE  queue[c][i].from = Before(c, i) + 1
      <3>1. i \in 1..(Len(queue[c]) + 1)
        BY <2>1
      <3>2. Before(c, i) = Prev(queue[c], seen[c], i)
        BY <2>1, <3>1, BeforeIsPrev DEF FlowInv
      <3> QED
        BY <2>2, <3>2 DEF FlowInv, Chained
    <2>3. ASSUME NEW c \in Clients
          PROVE  Total(c) = Sum(queue[c], seen[c])
      <3>1. Len(queue[c]) + 1 \in 1..(Len(queue[c]) + 1)
        BY <2>1
      <3> QED
        BY <2>1, <3>1, BeforeIsPrev DEF FlowInv, Total, Sum
    <2>4. ASSUME attached # None
          PROVE  Total(attached) = IF sending = attached THEN read - 1 ELSE read
      <3>1. attached \in Clients /\ pc[attached] # "gone"
        BY <2>4 DEF AttachInv, TypeOK, GoneIsDetached
      <3> QED
        BY <2>3, <2>4, <3>1 DEF FlowInv
    <2> QED
      BY <2>2, <2>4 DEF NothingIsLost
  <1> QED
    BY <1>1, <1>2, <1>3, AttachIsInductive, PTL DEF Spec

-----------------------------------------------------------------------------
(* The table of terminals, on Unix.                                        *)

\* What a reaper has seen, and what it does, is final.
ReaperFollowsShell ==
    /\ \A t \in Terms : reaper[t] \in {"waited", "done"} => proc[t] = "reaped"
    /\ \A t \in Terms : proc[t] = "none" => pid[t] = None /\ t \notin opening
    /\ \A t \in Terms : proc[t] # "none" => pid[t] \in Pids
    /\ \A t \in linger : reaper[t] = "done"

\* A call that waits has something to wait for.
CallHasTaken ==
    \A t \in Terms : calls[t] \in {"signal", "wait", "kill"} => taken[t] \in Terms

\* A close takes at most once: nothing is taken before it, nothing after.
TakenByCall == \A t \in Terms : calls[t] = "none" => taken[t] = None

\* Whatever is stored or taken has been started, and is stored under its pid.
StartedOnly ==
    /\ \A p \in Pids : table[p] # None => proc[table[p]] # "none" /\ pid[table[p]] = p
    /\ \A t \in Terms : taken[t] # None => proc[taken[t]] # "none"

TableInv ==
    /\ Table!TypeOK /\ ReaperFollowsShell /\ CallHasTaken /\ TakenByCall /\ StartedOnly
    /\ Table!ClosedIsOver /\ Table!RunningIsReachable

\* A worker that has just started has no terminals.
LEMMA InitTableInv == Table!Init => TableInv
  BY PartsAssumption DEF Table!Init, TableInv, Table!TypeOK, ReaperFollowsShell, CallHasTaken, TakenByCall,
           StartedOnly, Table!ClosedIsOver, Table!RunningIsReachable, Table!Stored

\* A signal reaches the shells that live under the pid, or a stranger.
LEMMA OwnersType ==
    ASSUME NEW p
    PROVE  Table!Owners(p) \subseteq Terms \cup {Stranger}
  BY DEF Table!Owners

\* What a reaper marks is its own terminal, whatever is stored under the pid.
LEMMA MarksOwnOnly ==
    ASSUME NEW t PROVE Table!SameSerial(t) \subseteq {t}
  BY DEF Table!SameSerial

\* A step of one terminal: its shell, its reaper, its timer or its close.
LEMMA TableStep ==
    ASSUME TableInv, NEW t \in Terms,
           \/ \E p \in Pids : Table!Spawn(t, p)
           \/ Table!Insert(t) \/ Table!ShellExits(t) \/ Table!Reap(t) \/ Table!Mark(t) \/ Table!Linger(t)
           \/ Table!CloseCall(t) \/ Table!CloseStep(t)
    PROVE  TableInv'
  <1> USE PartsAssumption DEF TableInv, Table!TypeOK, ReaperFollowsShell, CallHasTaken, TakenByCall,
           StartedOnly, Table!ClosedIsOver, Table!RunningIsReachable, Table!Stored
  <1>1. ASSUME NEW p \in Pids, Table!Spawn(t, p) PROVE TableInv'
    BY <1>1 DEF Table!Spawn
  <1>2. CASE Table!Insert(t)
    <2>1. signalled' \subseteq Terms \X (Terms \cup {Stranger}) /\ signalled \subseteq signalled'
      BY <1>2, OwnersType DEF Table!Insert, Table!Signal
    <2>2. ASSUME NEW u \in Terms, proc[u] = "running", table[pid[t]] = u, u \notin marked
          PROVE  <<u, u>> \in signalled'
      <3>1. u \in Table!Owners(pid[u])
        BY <2>2 DEF Table!Owners, Table!Alive
      <3> QED
        BY <1>2, <2>2, <3>1 DEF Table!Insert, Table!Signal
    <2>3. Table!RunningIsReachable'
      <3> SUFFICES ASSUME NEW u \in Terms, proc[u] = "running", u \notin opening', ~Table!Stored(u)'
                   PROVE  (\E c \in Terms : taken[c] = u) \/ <<u, u>> \in signalled'
        BY <1>2 DEF Table!Insert
      <3>1. CASE table[pid[t]] = u
        BY <2>2, <3>1
      <3>2. CASE table[pid[t]] # u
        BY <1>2, <2>1, <3>2 DEF Table!Insert
      <3> QED
        BY <3>1, <3>2
    <2> QED
      BY <1>2, <2>1, <2>3 DEF Table!Insert
  <1>3. CASE Table!ShellExits(t)
    BY <1>3 DEF Table!ShellExits
  <1>4. CASE Table!Reap(t)
    BY <1>4 DEF Table!Reap
  <1>5. CASE Table!Mark(t)
    BY <1>5, MarksOwnOnly DEF Table!Mark, Table!StartLinger
  <1>6. CASE Table!Linger(t)
    <2>1. proc[t] = "reaped"
      BY <1>6 DEF Table!Linger
    <2>2. table' = table \/ (table[pid[t]] = t /\ table' = [table EXCEPT ![pid[t]] = None])
      BY <1>6 DEF Table!Linger, Table!RemoveMarked, Table!SameSerial, Table!EntryOf
    <2>3. \A u \in Terms : u # t /\ Table!Stored(u) => Table!Stored(u)'
      BY <1>6, <2>1, <2>2 DEF Table!Linger
    <2>4. Table!RunningIsReachable'
      BY <1>6, <2>1, <2>3 DEF Table!Linger
    <2> QED
      BY <1>6, <2>1, <2>2, <2>4 DEF Table!Linger
  <1>7. CASE Table!CloseCall(t)
    <2>1. /\ table' = [table EXCEPT ![pid[t]] = None]
          /\ taken' = [taken EXCEPT ![t] = table[pid[t]]]
          /\ marked' = marked \cup ({table[pid[t]]} \ {None})
          /\ taken[t] = None /\ pid[t] \in Pids
      BY <1>7 DEF Table!CloseCall, Table!TakeEntry
    <2>2. Table!RunningIsReachable' /\ Table!ClosedIsOver'
      BY <1>7, <2>1 DEF Table!CloseCall
    <2> QED
      BY <1>7, <2>1, <2>2 DEF Table!CloseCall
  <1>8. CASE Table!CloseSignal(t)
    <2>1. signalled' \subseteq Terms \X (Terms \cup {Stranger}) /\ signalled \subseteq signalled'
      BY <1>8, OwnersType DEF Table!CloseSignal, Table!Signal
    <2>2. Table!RunningIsReachable'
      BY <1>8, <2>1 DEF Table!CloseSignal
    <2> QED
      BY <1>8, <2>1, <2>2 DEF Table!CloseSignal
  <1>9. CASE Table!CloseEnds(t) \/ Table!CloseGivesUp(t)
    BY <1>9 DEF Table!CloseEnds, Table!CloseGivesUp
  <1>10. CASE Table!CloseGrace(t)
    <2>1. signalled' \subseteq Terms \X (Terms \cup {Stranger}) /\ signalled \subseteq signalled'
      BY <1>10, OwnersType DEF Table!CloseGrace, Table!GraceKill, Table!Signal
    <2>2. /\ proc' \in [Terms -> {"none", "running", "zombie", "reaped"}]
          /\ \A u \in Terms : (proc'[u] = "zombie" /\ Table!Alive(u)) \/ proc'[u] = proc[u]
      BY <1>10 DEF Table!CloseGrace, Table!GraceKill, Table!Owners, Table!Alive
    <2>3. Table!RunningIsReachable'
      BY <1>10, <2>1, <2>2 DEF Table!CloseGrace, Table!GraceKill
    <2>4. UNCHANGED <<pid, opening, table, marked, reaper, linger, taken>>
      BY <1>10 DEF Table!CloseGrace
    <2>5. calls' = [calls EXCEPT ![t] = "kill"] /\ calls[t] = "wait"
      BY <1>10 DEF Table!CloseGrace, Table!GraceKill
    <2> QED
      BY <2>1, <2>2, <2>3, <2>4, <2>5 DEF Table!Alive
  <1> QED
    BY <1>1, <1>2, <1>3, <1>4, <1>5, <1>6, <1>7, <1>8, <1>9, <1>10 DEF Table!CloseStep

\* Every step of the specification preserves the invariant.
LEMMA NextTableInv == TableInv /\ [Table!Next]_Table!vars => TableInv'
  <1> SUFFICES ASSUME TableInv, [Table!Next]_Table!vars
               PROVE  TableInv'
    OBVIOUS
  <1>1. CASE UNCHANGED Table!vars
    BY <1>1 DEF Table!vars, TableInv, Table!TypeOK, ReaperFollowsShell, CallHasTaken, TakenByCall,
           StartedOnly, Table!ClosedIsOver, Table!RunningIsReachable, Table!Stored
  <1>2. CASE Table!Next
    BY <1>1, <1>2, TableStep DEF Table!Next, Table!AllOver
  <1> QED
    BY <1>1, <1>2

\* The invariant holds in every reachable state.
LEMMA TableIsInductive == Table!Spec => []TableInv
  BY InitTableInv, NextTableInv, PTL DEF Table!Spec

\* The mark of a terminal is its own: reap() compares serials, so the reaper of
\* a former owner of the pid does not mark the present one.
THEOREM MarksAreTrue == Table!Spec => []Table!ClosedIsOver
  <1>1. TableInv => Table!ClosedIsOver
    BY DEF TableInv
  <1> QED
    BY <1>1, TableIsInductive, PTL

\* A shell that runs can be closed, or has been told to hang up: what a former
\* owner of its pid leaves behind (reaper, timer, late insertion) loses nothing.
THEOREM RunningShellsAreReachable == Table!Spec => []Table!RunningIsReachable
  <1>1. TableInv => Table!RunningIsReachable
    BY DEF TableInv
  <1> QED
    BY <1>1, TableIsInductive, PTL

\* Pids that are used again do no harm: neither the reaper of a former owner nor a
\* late close loses a running terminal, and a mark is never another one's.
THEOREM ReuseStaysHarmless == Table!Spec => []Table!ReuseIsHarmless
  <1>1. TableInv => Table!ReuseIsHarmless
    BY DEF TableInv, Table!ReuseIsHarmless
  <1> QED
    BY <1>1, TableIsInductive, PTL

-----------------------------------------------------------------------------
(* The table of terminals, on Windows.                                     *)

\* A reaper is done, and a timer runs, only when the shell was freed; a call that
\* waits has taken a terminal; a terminal is marked by its reaper or by the close
\* that took it.
ConsoleReaps ==
    /\ \A t \in Terms : wproc[t] = "none" => wpid[t] = None /\ t \notin wopening
    /\ \A t \in Terms : wproc[t] # "none" => wpid[t] \in Slots
    /\ \A t \in Terms : wreaper[t] \in {"waited", "holds", "done"} => wproc[t] = "freed"
    /\ \A t \in wlinger : console[t] = "shut" /\ wreaper[t] = "done"
    /\ \A t \in Terms : wcalls[t] \in {"hangup", "reaped", "wait", "last"} => wtaken[t] \in Terms
    /\ \A t \in Terms : wcalls[t] = "none" => wtaken[t] = None
    /\ \A p \in Slots : wtable[p] # None => wproc[wtable[p]] # "none"
    /\ \A t \in Terms : wtaken[t] # None => wproc[wtaken[t]] # "none"
    /\ \A t \in wclosed : wproc[t] = "freed" \/ \E c \in Terms : wtaken[c] = t

\* The invariant of the consoles.
ConsoleInv == Cons!ConsolesAreOwned /\ ConsoleReaps

\* A worker that has just started has no terminals.
LEMMA InitConsoleInv == Cons!Init => ConsoleInv
  BY ConstantsAssumption
     DEF Cons!Init, ConsoleInv, ConsoleReaps, Cons!ConsolesAreOwned, Cons!TypeOK,
         Cons!RunningKeepsConsole, Cons!ExitIsOffered

\* Every step of the table keeps the invariant.
LEMMA ConsoleStep ==
    ASSUME ConsoleInv, Cons!Next
    PROVE  ConsoleInv'
  <1> USE ConstantsAssumption, PartsAssumption DEF ConsoleInv, ConsoleReaps, Cons!ConsolesAreOwned, Cons!TypeOK,
              Cons!RunningKeepsConsole, Cons!ExitIsOffered, Cons!Shut, Cons!Ended, Cons!Found, Cons!vars
  <1>1. ASSUME NEW t \in Terms, NEW p \in Slots, Cons!Spawn(t, p)
        PROVE  ConsoleInv'
    BY <1>1 DEF Cons!Spawn
  <1>2. ASSUME NEW t \in Terms, Cons!Insert(t)
        PROVE  ConsoleInv'
    BY <1>2 DEF Cons!Insert
  <1>3. ASSUME NEW t \in Terms, Cons!ShellExits(t)
        PROVE  ConsoleInv'
    BY <1>3 DEF Cons!ShellExits
  <1>4. ASSUME NEW t \in Terms, Cons!OutputEnds(t)
        PROVE  ConsoleInv'
    BY <1>4 DEF Cons!OutputEnds
  <1>5. ASSUME NEW t \in Terms, Cons!Waited(t)
        PROVE  ConsoleInv'
    BY <1>5 DEF Cons!Waited
  <1>6. ASSUME NEW t \in Terms, Cons!Mark(t)
        PROVE  ConsoleInv'
    BY <1>6 DEF Cons!Mark
  <1>7. ASSUME NEW t \in Terms, Cons!ShutConsole(t)
        PROVE  ConsoleInv'
    BY <1>7 DEF Cons!ShutConsole
  <1>8. ASSUME NEW t \in Terms, Cons!Linger(t)
        PROVE  ConsoleInv'
    BY <1>8 DEF Cons!Linger
  <1>9. ASSUME NEW t \in Terms, Cons!CloseCall(t)
        PROVE  ConsoleInv'
    BY <1>9 DEF Cons!CloseCall
  <1>10. ASSUME NEW t \in Terms, Cons!CloseConsole(t)
        PROVE  ConsoleInv'
    BY <1>10 DEF Cons!CloseConsole
  <1>11. ASSUME NEW t \in Terms, Cons!CloseEnds(t)
        PROVE  ConsoleInv'
    BY <1>11 DEF Cons!CloseEnds
  <1>12. ASSUME NEW t \in Terms, Cons!CloseKills(t)
        PROVE  ConsoleInv'
    BY <1>12 DEF Cons!CloseKills
  <1>13. ASSUME NEW t \in Terms, Cons!CloseGivesUp(t)
        PROVE  ConsoleInv'
    BY <1>13 DEF Cons!CloseGivesUp
  <1>14. CASE Cons!AllOver
    BY <1>14 DEF Cons!AllOver
  <1> QED
    BY <1>1, <1>2, <1>3, <1>4, <1>5, <1>6, <1>7, <1>8, <1>9, <1>10, <1>11, <1>12, <1>13, <1>14
       DEF Cons!Next, Cons!ReapStep, Cons!CloseStep

\* So does a step of another component.
LEMMA ConsoleRests == ConsoleInv /\ UNCHANGED consoles => ConsoleInv'
  BY DEF consoles, ConsoleInv, ConsoleReaps, Cons!ConsolesAreOwned, Cons!TypeOK,
         Cons!RunningKeepsConsole, Cons!ExitIsOffered

-----------------------------------------------------------------------------
(* Main process, helper and worker.                                        *)

\* The places of a call that has said something and waits for the helper.
Speaking == {"start", "answer", "spawn", "fd", "hello", "insert"}

\* One call at a time speaks with the helper, and a close with nobody else.
OneSpeaks ==
    /\ \A r \in Requests : step[r] \in Speaking => held = "call"
    /\ \A r, q \in Requests : step[r] # "idle" /\ step[q] # "idle" => r = q
    /\ \A r \in Requests : step[r] = "close" => held = "closing"
    /\ stage = "none" <=> held # "closing"
    /\ held = "none" => hpc = "dead"

\* Only a crash may leave something unanswered.
Crashed == hpc = "dead" /\ killed = "crash"

\* What the helper has by the place it is in.
HelperKnows ==
    hpc # "dead" =>
        /\ hpc \in {"fork", "hand", "fd"} \/ phase = "session" => known
        /\ hpc \in {"pam", "prompt"} /\ phase = "auth" => ~known
        /\ ~known => session = "none" /\ worker = "none"
        /\ hpc = "recv" /\ ~known => toHelper = <<"start">>
        /\ hpc = "prompt" /\ ~SessionPrompts => phase = "auth"
        /\ hpc \in {"hand", "fd"} => worker \in {"running", "zombie"}

\* What the main process has said and the helper has not read: one thing, and one that
\* is read where the helper is.
HelperReads ==
    hpc # "dead" =>
        \/ toHelper = <<>>
        \/ toHelper = <<"start">> /\ hpc = "recv" /\ ~known /\ held \in {"call", "gone"}
        \/ toHelper = <<"respond">> /\ hpc = "prompt" /\ phase = "auth" /\ held \in {"call", "gone"}
        \/ toHelper = <<"spawn">> /\ hpc = "recv" /\ known /\ held \in {"call", "gone"}
        \/ toHelper = <<"close">> /\ hpc \in {"recv", "prompt", "bye", "stuck"} /\ held \in {"closing", "gone"}

\* Between StartAuth or Respond and the reply to it.
AuthGoesOn(r) ==
    /\ session = "none" /\ worker = "none"
    /\ \/ toMain = <<>> /\ hpc \in {"pam", "stuck"} /\ phase = "auth" /\ toHelper = <<>>
       \/ toMain = <<>> /\ hpc = "recv" /\ toHelper = <<"start">> /\ step[r] = "start"
       \/ toMain = <<>> /\ hpc = "prompt" /\ toHelper = <<"respond">> /\ step[r] = "answer"
       \/ toMain = <<"prompts">> /\ hpc = "prompt" /\ phase = "auth" /\ toHelper = <<>>
       \/ toMain = <<"authok">> /\ hpc = "recv" /\ known /\ toHelper = <<>>
       \/ toMain = <<"authfail">> /\ hpc \in {"bye", "stuck", "dead"}
       \/ Crashed /\ toMain \in {<<>>, <<"prompts">>, <<"authok">>}

\* Between SpawnWorker and the reply to it.
SpawnGoesOn ==
    \/ toMain = <<>> /\ hpc = "recv" /\ toHelper = <<"spawn">>
    \/ toMain = <<>> /\ hpc = "pam" /\ phase = "session" /\ toHelper = <<>>
    \/ toMain = <<>> /\ hpc \in {"fork", "hand", "stuck"} /\ toHelper = <<>>
    \/ SessionPrompts /\ toMain = <<"prompts">> /\ hpc = "prompt" /\ phase = "session" /\ toHelper = <<>>
    \/ toMain = <<"error">> /\ hpc = "recv" /\ toHelper = <<>>
    \/ toMain = <<"spawned">> /\ hpc = "fd" /\ toHelper = <<>>
    \/ toMain = <<"spawned", "fd">> /\ hpc = "recv" /\ toHelper = <<>>
    \/ Crashed /\ (\/ toMain \in {<<>>, <<"error">>, <<"spawned">>, <<"spawned", "fd">>}
                   \/ SessionPrompts /\ toMain = <<"prompts">>)

\* The helper waits for the next order.
Rests == Crashed \/ (hpc = "recv" /\ known /\ toHelper = <<>>)

\* Every call has its part of the conversation: nothing is left of an earlier one.
InTurn ==
    /\ \A r \in Requests :
        /\ step[r] \in {"start", "answer"} => AuthGoesOn(r)
        /\ step[r] = "answer" => ~authed
        /\ step[r] = "spawn" => SpawnGoesOn
        /\ step[r] = "fd" =>
            \/ toMain = <<>> /\ hpc = "fd" /\ toHelper = <<>>
            \/ toMain = <<"fd">> /\ hpc = "recv" /\ toHelper = <<>>
            \/ Crashed /\ toMain \in {<<>>, <<"fd">>}
        /\ step[r] \in {"hello", "insert"} => toMain = <<>> /\ Rests
    /\ held = "map" =>
        /\ toMain = <<>> /\ session = "none" /\ worker = "none"
        /\ IF authed THEN Rests
           ELSE Crashed \/ (hpc = "prompt" /\ phase = "auth" /\ toHelper = <<>>)
    /\ held = "live" \/ stage \in {"begun", "grace", "kill"} => toMain = <<>> /\ Rests

\* The worker is not reaped while it may be signalled.
SignalsAreAimed ==
    /\ stage = "kill" => worker \in {"running", "zombie"} \/ Crashed
    /\ stray => Crashed

HelperTalks ==
    OneSpeaks /\ HelperKnows /\ HelperReads /\ InTurn /\ SignalsAreAimed /\ SessionIsClosed

HelperInv == Help!TypeOK /\ HelperTalks

Orders == {"start", "respond", "spawn", "close"}
Answers == {"prompts", "authok", "authfail", "error", "spawned", "fd", "closed"}

\* A queue stays, is emptied, loses its head or gets one more message.
MovesTo(q, next, M) ==
    \/ next = q \/ next = <<>>
    \/ \E m \in M : next = Append(q, m) \/ next = <<m>>
    \/ q # <<>> /\ next = Tail(q)

\* Such a queue keeps its type.
LEMMA QueueType ==
    ASSUME NEW M, NEW q \in Seq(M), NEW next, MovesTo(q, next, M)
    PROVE  next \in Seq(M)
  <1>1. ASSUME NEW m \in M PROVE Append(q, m) \in Seq(M) /\ <<m>> \in Seq(M)
    OBVIOUS
  <1>2. q # <<>> => Tail(q) \in Seq(M)
    OBVIOUS
  <1>3. <<>> \in Seq(M)
    OBVIOUS
  <1> QED
    BY <1>1, <1>2, <1>3 DEF MovesTo

\* The two directions of the socket.
LEMMA QueuesMove ==
    ASSUME Help!Next
    PROVE  MovesTo(toHelper, toHelper', Orders) /\ MovesTo(toMain, toMain', Answers)
  <1> USE DEF Help!Receive, Help!Drop, Help!Close, Help!AskWorker, Help!Read, Help!Send, Help!Reply,
              Help!main, Help!wire, Help!helper, Help!child, Help!past, MovesTo, Orders, Answers
  <1>1. ASSUME NEW r \in Requests, Help!Begin(r) \/ Help!Respond(r) \/ Help!Started(r)
        PROVE  MovesTo(toHelper, toHelper', Orders) /\ MovesTo(toMain, toMain', Answers)
    BY <1>1 DEF Help!Begin, Help!Respond, Help!Started
  <1>2. ASSUME NEW r \in Requests, Help!StartFails(r) \/ Help!More(r) \/ Help!Authed(r)
        PROVE  MovesTo(toHelper, toHelper', Orders) /\ MovesTo(toMain, toMain', Answers)
    BY <1>2 DEF Help!StartFails, Help!More, Help!Authed
  <1>3. ASSUME NEW r \in Requests, Help!Refused(r) \/ Help!Lost(r)
        PROVE  MovesTo(toHelper, toHelper', Orders) /\ MovesTo(toMain, toMain', Answers)
    BY <1>3 DEF Help!Refused, Help!Lost
  <1>4. ASSUME NEW r \in Requests, Help!Spawned(r) \/ Help!TakeChannel(r) \/ Help!Connected(r)
        PROVE  MovesTo(toHelper, toHelper', Orders) /\ MovesTo(toMain, toMain', Answers)
    BY <1>4 DEF Help!Spawned, Help!TakeChannel, Help!Connected
  <1>5. ASSUME NEW r \in Requests, Help!NoHello(r) \/ Help!Cancel(r)
        PROVE  MovesTo(toHelper, toHelper', Orders) /\ MovesTo(toMain, toMain', Answers)
    BY <1>5 DEF Help!NoHello, Help!Cancel
  <1>6. CASE Help!Expire \/ Help!ShutDownPending \/ Help!Teardown \/ Help!WorkerClosed
    BY <1>6 DEF Help!Expire, Help!ShutDownPending, Help!Teardown, Help!WorkerClosed
  <1>7. CASE Help!GraceOver \/ Help!Signal \/ Help!Drained \/ Help!CloseTimeout
    BY <1>7 DEF Help!GraceOver, Help!Signal, Help!Drained, Help!CloseTimeout
  <1>8. CASE Help!Exited \/ Help!ExitTimeout \/ Help!Die
    BY <1>8 DEF Help!Exited, Help!ExitTimeout, Help!Die
  <1>9. CASE Help!AuthStart \/ Help!Refuse \/ Help!SpawnWorker \/ Help!CloseSession
    BY <1>9 DEF Help!AuthStart, Help!Refuse, Help!SpawnWorker, Help!CloseSession
  <1>10. CASE Help!Prompt \/ Help!Answered \/ Help!Interrupted
    BY <1>10 DEF Help!Prompt, Help!Answered, Help!Interrupted
  <1>11. CASE Help!AuthOk \/ Help!AuthFail \/ Help!SessionOpened
    BY <1>11 DEF Help!AuthOk, Help!AuthFail, Help!SessionOpened
  <1>12. CASE Help!Fork \/ Help!ForkFails \/ Help!Report
    BY <1>12 DEF Help!Fork, Help!ForkFails, Help!Report
  <1>13. CASE Help!HandOver \/ Help!Bye
    BY <1>13 DEF Help!HandOver, Help!Bye
  <1>14. CASE Help!Stuck
    BY <1>14 DEF Help!Stuck
  <1>15. CASE Help!Crash
    BY <1>15 DEF Help!Crash
  <1>16. CASE Help!WorkerEnds
    BY <1>16 DEF Help!WorkerEnds
  <1>17. ASSUME NEW r \in Requests, Help!Complete(r) \/ Help!NotMarked(r)
        PROVE  MovesTo(toHelper, toHelper', Orders) /\ MovesTo(toMain, toMain', Answers)
    BY <1>17 DEF Help!Complete, Help!NotMarked
  <1>18. CASE Help!TellWorker \/ Help!TeardownDropped
    BY <1>18 DEF Help!TellWorker, Help!TeardownDropped
  <1> QED
    BY <1>1, <1>2, <1>3, <1>4, <1>5, <1>6, <1>7, <1>8, <1>9, <1>10, <1>11, <1>12, <1>13, <1>14,
       <1>15, <1>16, <1>17, <1>18
       DEF Help!Next, Help!Speaks, Help!Closing, Help!HelperStep

HelperTypes ==
    /\ held \in {"none", "call", "map", "live", "closing", "gone"}
    /\ step \in [Requests -> {"idle", "start", "answer", "spawn", "fd", "hello", "insert", "close"}]
    /\ stage \in {"none", "begun", "grace", "kill", "drain", "wait"}
    /\ hpc \in {"recv", "pam", "prompt", "fork", "hand", "fd", "bye", "stuck", "dead"}
    /\ phase \in {"auth", "session"} /\ rounds \in 0..MaxRounds
    /\ session \in {"none", "open", "closed"}
    /\ worker \in {"none", "running", "zombie", "gone"}
    /\ link \in {"none", "helper", "sent", "main", "reader", "shut"}
    /\ killed \in {"no", "cancel", "expire", "late", "crash"}
    /\ trouble \in 0..MaxTrouble

HelperFlags ==
    /\ authed \in BOOLEAN /\ ready \in BOOLEAN /\ known \in BOOLEAN /\ stray \in BOOLEAN
    /\ opens \in BOOLEAN

\* A step of main process, helper or worker keeps the types,
LEMMA HelperTypesStep ==
    ASSUME Help!Next, HelperTypes
    PROVE  HelperTypes'
  <1> USE PartsAssumption
      DEF HelperTypes, Help!Receive, Help!Drop, Help!Close, Help!AskWorker, Help!Read, Help!Send,
              Help!Reply, Help!Loop, Help!Ended, Help!Killed, Help!Dropped, Help!Trouble, Help!Taken,
              Help!main, Help!wire, Help!helper, Help!child, Help!past
  <1>1. ASSUME NEW r \in Requests, Help!Begin(r) \/ Help!Respond(r) \/ Help!Started(r)
        PROVE  HelperTypes'
    BY <1>1 DEF Help!Begin, Help!Respond, Help!Started
  <1>2. ASSUME NEW r \in Requests, Help!StartFails(r) \/ Help!More(r) \/ Help!Authed(r)
        PROVE  HelperTypes'
    BY <1>2 DEF Help!StartFails, Help!More, Help!Authed
  <1>3. ASSUME NEW r \in Requests, Help!Refused(r) \/ Help!Lost(r)
        PROVE  HelperTypes'
    BY <1>3 DEF Help!Refused, Help!Lost
  <1>4. ASSUME NEW r \in Requests, Help!Spawned(r) \/ Help!TakeChannel(r) \/ Help!Connected(r)
        PROVE  HelperTypes'
    BY <1>4 DEF Help!Spawned, Help!TakeChannel, Help!Connected
  <1>5. ASSUME NEW r \in Requests, Help!NoHello(r) \/ Help!Cancel(r)
        PROVE  HelperTypes'
    BY <1>5 DEF Help!NoHello, Help!Cancel
  <1>6. CASE Help!Expire \/ Help!ShutDownPending \/ Help!Teardown \/ Help!WorkerClosed
    BY <1>6 DEF Help!Expire, Help!ShutDownPending, Help!Teardown, Help!WorkerClosed
  <1>7. CASE Help!GraceOver \/ Help!Signal \/ Help!Drained \/ Help!CloseTimeout
    BY <1>7 DEF Help!GraceOver, Help!Signal, Help!Drained, Help!CloseTimeout
  <1>8. CASE Help!Exited \/ Help!ExitTimeout \/ Help!Die
    BY <1>8 DEF Help!Exited, Help!ExitTimeout, Help!Die
  <1>9. CASE Help!AuthStart \/ Help!Refuse \/ Help!SpawnWorker \/ Help!CloseSession
    BY <1>9 DEF Help!AuthStart, Help!Refuse, Help!SpawnWorker, Help!CloseSession
  <1>10. CASE Help!Prompt \/ Help!Answered \/ Help!Interrupted
    BY <1>10 DEF Help!Prompt, Help!Answered, Help!Interrupted
  <1>11. CASE Help!AuthOk \/ Help!AuthFail \/ Help!SessionOpened
    BY <1>11 DEF Help!AuthOk, Help!AuthFail, Help!SessionOpened
  <1>12. CASE Help!Fork \/ Help!ForkFails \/ Help!Report
    BY <1>12 DEF Help!Fork, Help!ForkFails, Help!Report
  <1>13. CASE Help!HandOver \/ Help!Bye
    BY <1>13 DEF Help!HandOver, Help!Bye
  <1>14. CASE Help!Stuck
    BY <1>14 DEF Help!Stuck
  <1>15. CASE Help!Crash
    BY <1>15 DEF Help!Crash
  <1>16. CASE Help!WorkerEnds
    BY <1>16 DEF Help!WorkerEnds
  <1>17. ASSUME NEW r \in Requests, Help!Complete(r) \/ Help!NotMarked(r)
        PROVE  HelperTypes'
    BY <1>17 DEF Help!Complete, Help!NotMarked
  <1>18. CASE Help!TellWorker \/ Help!TeardownDropped
    BY <1>18 DEF Help!TellWorker, Help!TeardownDropped
  <1> QED
    BY <1>1, <1>2, <1>3, <1>4, <1>5, <1>6, <1>7, <1>8, <1>9, <1>10, <1>11, <1>12, <1>13, <1>14,
       <1>15, <1>16, <1>17, <1>18
       DEF Help!Next, Help!Speaks, Help!Closing, Help!HelperStep

\* the flags,
LEMMA HelperFlagsStep ==
    ASSUME Help!Next, HelperFlags
    PROVE  HelperFlags'
  <1> USE DEF HelperFlags, Help!Receive, Help!Drop, Help!Close, Help!AskWorker, Help!Read, Help!Send,
              Help!Reply, Help!Loop, Help!Ended, Help!Killed, Help!Dropped, Help!Trouble, Help!Taken,
              Help!main, Help!wire, Help!helper, Help!child, Help!past
  <1>1. ASSUME NEW r \in Requests, Help!Begin(r) \/ Help!Respond(r) \/ Help!Started(r)
        PROVE  HelperFlags'
    BY <1>1 DEF Help!Begin, Help!Respond, Help!Started
  <1>2. ASSUME NEW r \in Requests, Help!StartFails(r) \/ Help!More(r) \/ Help!Authed(r)
        PROVE  HelperFlags'
    BY <1>2 DEF Help!StartFails, Help!More, Help!Authed
  <1>3. ASSUME NEW r \in Requests, Help!Refused(r) \/ Help!Lost(r)
        PROVE  HelperFlags'
    BY <1>3 DEF Help!Refused, Help!Lost
  <1>4. ASSUME NEW r \in Requests, Help!Spawned(r) \/ Help!TakeChannel(r) \/ Help!Connected(r)
        PROVE  HelperFlags'
    BY <1>4 DEF Help!Spawned, Help!TakeChannel, Help!Connected
  <1>5. ASSUME NEW r \in Requests, Help!NoHello(r) \/ Help!Cancel(r)
        PROVE  HelperFlags'
    BY <1>5 DEF Help!NoHello, Help!Cancel
  <1>6. CASE Help!Expire \/ Help!ShutDownPending \/ Help!Teardown \/ Help!WorkerClosed
    BY <1>6 DEF Help!Expire, Help!ShutDownPending, Help!Teardown, Help!WorkerClosed
  <1>7. CASE Help!GraceOver \/ Help!Signal \/ Help!Drained \/ Help!CloseTimeout
    BY <1>7 DEF Help!GraceOver, Help!Signal, Help!Drained, Help!CloseTimeout
  <1>8. CASE Help!Exited \/ Help!ExitTimeout \/ Help!Die
    BY <1>8 DEF Help!Exited, Help!ExitTimeout, Help!Die
  <1>9. CASE Help!AuthStart \/ Help!Refuse \/ Help!SpawnWorker \/ Help!CloseSession
    BY <1>9 DEF Help!AuthStart, Help!Refuse, Help!SpawnWorker, Help!CloseSession
  <1>10. CASE Help!Prompt \/ Help!Answered \/ Help!Interrupted
    BY <1>10 DEF Help!Prompt, Help!Answered, Help!Interrupted
  <1>11. CASE Help!AuthOk \/ Help!AuthFail \/ Help!SessionOpened
    BY <1>11 DEF Help!AuthOk, Help!AuthFail, Help!SessionOpened
  <1>12. CASE Help!Fork \/ Help!ForkFails \/ Help!Report
    BY <1>12 DEF Help!Fork, Help!ForkFails, Help!Report
  <1>13. CASE Help!HandOver \/ Help!Bye
    BY <1>13 DEF Help!HandOver, Help!Bye
  <1>14. CASE Help!Stuck
    BY <1>14 DEF Help!Stuck
  <1>15. CASE Help!Crash
    BY <1>15 DEF Help!Crash
  <1>16. CASE Help!WorkerEnds
    BY <1>16 DEF Help!WorkerEnds
  <1>17. ASSUME NEW r \in Requests, Help!Complete(r) \/ Help!NotMarked(r)
        PROVE  HelperFlags'
    BY <1>17 DEF Help!Complete, Help!NotMarked
  <1>18. CASE Help!TellWorker \/ Help!TeardownDropped
    BY <1>18 DEF Help!TellWorker, Help!TeardownDropped
  <1> QED
    BY <1>1, <1>2, <1>3, <1>4, <1>5, <1>6, <1>7, <1>8, <1>9, <1>10, <1>11, <1>12, <1>13, <1>14,
       <1>15, <1>16, <1>17, <1>18
       DEF Help!Next, Help!Speaks, Help!Closing, Help!HelperStep

\* A queue with two messages.
LEMMA AppendToOne ==
    ASSUME NEW x, NEW y
    PROVE  Append(<<x>>, y) = <<x, y>>
  <1>1. <<x, y>> \in Seq({x, y}) /\ Append(<<x>>, y) \in Seq({x, y})
    OBVIOUS
  <1>2. \A i \in 1..2 : <<x, y>>[i] = Append(<<x>>, y)[i]
    OBVIOUS
  <1>3. Len(<<x, y>>) = 2 /\ Len(Append(<<x>>, y)) = 2
    OBVIOUS
  <1> QED
    BY <1>1, <1>2, <1>3, SeqEqual

\* What the queues of at most two messages come to.
LEMMA SequenceFacts ==
    /\ \A x : Append(<<>>, x) = <<x>> /\ Head(<<x>>) = x /\ Tail(<<x>>) = <<>> /\ <<x>> # <<>>
    /\ \A x, y : Append(<<x>>, y) = <<x, y>> /\ Head(<<x, y>>) = x /\ Tail(<<x, y>>) = <<y>>
    /\ \A x, y : <<x, y>> # <<>> /\ (<<x>> = <<y>> => x = y)
  <1>1. \A x, y : Append(<<x>>, y) = <<x, y>>
    BY AppendToOne
  <1> QED
    BY <1>1

\* and the conversation.
LEMMA HelperTalksStep ==
    ASSUME HelperInv, Help!Next
    PROVE  HelperTalks'
  <1> USE SequenceFacts
      DEF HelperInv, Help!TypeOK, HelperTalks, OneSpeaks, HelperKnows, HelperReads, InTurn, SignalsAreAimed,
          AuthGoesOn, SpawnGoesOn, Rests, Crashed, Speaking, SessionIsClosed, Help!SessionIsClosed
  <1> USE DEF Help!Receive, Help!Message, Help!Drop, Help!Killed, Help!Close, Help!AskWorker, Help!Taken,
              Help!Trouble, Help!Ended, Help!Deaf, Help!Read, Help!Order, Help!Send, Help!Reply, Help!Loop,
              Help!main, Help!wire, Help!helper, Help!child, Help!past
  <1>1. ASSUME NEW r \in Requests, Help!Begin(r)
        PROVE  HelperTalks'
    BY <1>1 DEF Help!Begin
  <1>2. ASSUME NEW r \in Requests, Help!Respond(r)
        PROVE  HelperTalks'
    <2>1. CASE authed
      BY <1>2, <2>1 DEF Help!Respond
    <2>2. CASE ~authed
      BY <1>2, <2>2 DEF Help!Respond
    <2> QED
      BY <2>1, <2>2
  <1>3. ASSUME NEW r \in Requests, Help!Started(r)
        PROVE  HelperTalks'
    BY <1>3 DEF Help!Started
  <1>4. ASSUME NEW r \in Requests, Help!StartFails(r)
        PROVE  HelperTalks'
    BY <1>4 DEF Help!StartFails
  <1>5. ASSUME NEW r \in Requests, Help!More(r)
        PROVE  HelperTalks'
    BY <1>5 DEF Help!More
  <1>6. ASSUME NEW r \in Requests, Help!Authed(r)
        PROVE  HelperTalks'
    <2>1. toMain = <<"authok">> /\ (Crashed \/ (hpc = "recv" /\ known /\ toHelper = <<>>))
      BY <1>6 DEF Help!Authed
    <2>2. toMain' = <<>> /\ toHelper' = Append(toHelper, "spawn") /\ step' = [step EXCEPT ![r] = "spawn"]
      BY <1>6, <2>1 DEF Help!Authed
    <2>3. held = "call" /\ session = "none" /\ worker = "none"
      BY <1>6 DEF Help!Authed
    <2>4. toHelper' = <<"spawn">> \/ hpc = "dead"
      BY <2>1, <2>2
    <2>5. UNCHANGED <<held, authed, stage, hpc, phase, known, session, worker, killed, stray>>
      BY <1>6 DEF Help!Authed
    <2>6. \A q \in Requests : q # r => step[q] = "idle"
      BY <1>6 DEF Help!Authed
    <2>7. OneSpeaks' /\ InTurn'
      BY <2>1, <2>2, <2>3, <2>4, <2>5, <2>6
    <2> QED
      BY <2>1, <2>3, <2>4, <2>5, <2>7
  <1>7. ASSUME NEW r \in Requests, Help!Refused(r)
        PROVE  HelperTalks'
    <2>1. held = "call" /\ \A q \in Requests : q # r => step[q] \notin Speaking \cup {"close"}
      BY <1>7 DEF Help!Refused
    <2>2. hpc # "dead" => toHelper = <<>> /\ hpc \in {"recv", "bye", "stuck", "prompt"}
      BY <1>7 DEF Help!Refused
    <2>3. hpc = "prompt" => phase = "session"
      BY <1>7 DEF Help!Refused
    <2>4. /\ held' = "closing" /\ stage' = "drain" /\ step' = [step EXCEPT ![r] = "close"]
          /\ toHelper' = IF hpc = "dead" THEN toHelper ELSE Append(toHelper, "close")
          /\ UNCHANGED <<hpc, phase, known, session, worker, killed, stray>>
      BY <1>7 DEF Help!Refused
    <2>5. hpc # "dead" => toHelper' = <<"close">>
      BY <2>2, <2>4
    <2>6. OneSpeaks' /\ InTurn'
      BY <2>1, <2>4
    <2>7. HelperReads' /\ HelperKnows'
      BY <2>2, <2>3, <2>4, <2>5
    <2> QED
      BY <2>4, <2>6, <2>7
  <1>8. ASSUME NEW r \in Requests, Help!Lost(r)
        PROVE  HelperTalks'
    BY <1>8 DEF Help!Lost
  <1>9. ASSUME NEW r \in Requests, Help!Spawned(r)
        PROVE  HelperTalks'
    <2>1. held = "call" /\ \A q \in Requests : q # r => step[q] \notin Speaking \cup {"close"}
      BY <1>9 DEF Help!Spawned
    <2>2. step' = [step EXCEPT ![r] = "fd"] /\ toMain' = Tail(toMain)
      BY <1>9 DEF Help!Spawned
    <2>3. \/ toMain = <<"spawned">> /\ hpc = "fd" /\ toHelper = <<>>
          \/ toMain = <<"spawned", "fd">> /\ hpc = "recv" /\ toHelper = <<>>
          \/ Crashed /\ toMain \in {<<"spawned">>, <<"spawned", "fd">>}
      BY <1>9 DEF Help!Spawned
    <2>4. \/ toMain' = <<>> /\ hpc = "fd" /\ toHelper = <<>>
          \/ toMain' = <<"fd">> /\ hpc = "recv" /\ toHelper = <<>>
          \/ Crashed /\ toMain' \in {<<>>, <<"fd">>}
      <3>1. toMain = <<"spawned">> => toMain' = <<>>
        BY <2>2, SequenceFacts
      <3>2. toMain = <<"spawned", "fd">> => toMain' = <<"fd">>
        BY <2>2, SequenceFacts
      <3> QED
        BY <2>3, <3>1, <3>2
    <2>5. InTurn' /\ OneSpeaks'
      BY <1>9, <2>1, <2>2, <2>4 DEF Help!Spawned
    <2> QED
      BY <1>9, <2>1, <2>2, <2>5 DEF Help!Spawned
  <1>10. ASSUME NEW r \in Requests, Help!TakeChannel(r)
        PROVE  HelperTalks'
    BY <1>10 DEF Help!TakeChannel
  <1>11. ASSUME NEW r \in Requests, Help!Complete(r)
        PROVE  HelperTalks'
    BY <1>11 DEF Help!Complete
  <1>12. ASSUME NEW r \in Requests, Help!NoHello(r)
        PROVE  HelperTalks'
    <2>1. /\ held' = "closing" /\ stage' = "drain" /\ step' = [step EXCEPT ![r] = "close"]
          /\ toHelper' = IF hpc = "dead" THEN toHelper ELSE Append(toHelper, "close")
          /\ UNCHANGED <<authed, toMain, hpc, phase, known, session, worker, killed, stray>>
          /\ step[r] = "hello"
      BY <1>12 DEF Help!NoHello
    <2>2. hpc # "dead" => hpc = "recv" /\ known /\ toHelper' = <<"close">>
      BY <2>1
    <2>3. OneSpeaks' /\ InTurn'
      BY <2>1
    <2> QED
      BY <2>1, <2>2, <2>3
  <1>13. ASSUME NEW r \in Requests, Help!Cancel(r)
        PROVE  HelperTalks'
    <2>1. /\ held' = "gone" /\ hpc' = "dead" /\ toMain' = <<>> /\ stage' = "none"
          /\ step' = [step EXCEPT ![r] = "idle"]
          /\ killed' = IF hpc = "dead" THEN killed ELSE "cancel"
          /\ UNCHANGED <<session, stray>>
      BY <1>13 DEF Help!Cancel
    <2>2. \A q \in Requests : q # r => step[q] = "idle"
      BY <1>13 DEF Help!Cancel
    <2> QED
      BY <2>1, <2>2
  <1>14. CASE Help!Expire
    BY <1>14 DEF Help!Expire
  <1>15. CASE Help!ShutDownPending
    BY <1>15 DEF Help!ShutDownPending
  <1>16. CASE Help!Teardown
    BY <1>16 DEF Help!Teardown
  <1>17. CASE Help!WorkerClosed
    BY <1>17 DEF Help!WorkerClosed
  <1>18. CASE Help!GraceOver
    BY <1>18 DEF Help!GraceOver
  <1>19. CASE Help!Signal
    BY <1>19 DEF Help!Signal
  <1>20. CASE Help!Drained
    BY <1>20 DEF Help!Drained
  <1>21. CASE Help!CloseTimeout
    BY <1>21 DEF Help!CloseTimeout
  <1>22. CASE Help!Exited
    BY <1>22 DEF Help!Exited
  <1>23. CASE Help!ExitTimeout
    BY <1>23 DEF Help!ExitTimeout
  <1>24. CASE Help!Die
    BY <1>24 DEF Help!Die
  <1>25. CASE Help!AuthStart
    BY <1>25 DEF Help!AuthStart
  <1>26. CASE Help!Refuse
    <2>1. CASE held = "gone"
      BY <1>26, <2>1 DEF Help!Refuse
    <2>2. CASE held # "gone"
      <3>1. /\ hpc = "recv" /\ hpc' = "recv" /\ toMain' = Append(toMain, "error")
            /\ toHelper # <<>> /\ toHelper' = Tail(toHelper)
            /\ UNCHANGED <<held, step, stage, authed, phase, known, session, killed, stray>>
        BY <1>26, <2>2 DEF Help!Refuse
      <3>2. toHelper \in {<<"spawn">>, <<"close">>} \/ (toHelper = <<"start">> /\ ~known)
        BY <3>1
      <3>3. toHelper = <<"spawn">>
        BY <1>26, <3>2 DEF Help!Refuse
      <3>4. held = "call" /\ \A r \in Requests : step[r] \in {"idle", "spawn"}
        BY <2>2, <3>1, <3>3
      <3>5. toHelper' = <<>> /\ (\A r \in Requests : step[r] = "spawn" => toMain' = <<"error">>)
        BY <3>1, <3>3
      <3>6. InTurn'
        BY <3>1, <3>4, <3>5
      <3> QED
        BY <1>26, <3>1, <3>4, <3>5, <3>6 DEF Help!Refuse
    <2> QED
      BY <2>1, <2>2
  <1>27. CASE Help!SpawnWorker
    BY <1>27 DEF Help!SpawnWorker
  <1>28. CASE Help!CloseSession
    BY <1>28 DEF Help!CloseSession
  <1>29. CASE Help!Prompt
    <2>1. /\ hpc = "pam" /\ hpc' = "prompt" /\ toHelper = <<>>
          /\ toMain' = IF held = "gone" THEN toMain ELSE Append(toMain, "prompts")
          /\ phase = "auth" \/ SessionPrompts
          /\ UNCHANGED <<held, authed, step, stage, toHelper, phase, known, session, worker, killed, stray>>
      BY <1>29 DEF Help!Prompt
    <2>2. /\ held \notin {"map", "live"} /\ stage \notin {"begun", "grace", "kill"}
          /\ \A r \in Requests : step[r] \notin {"fd", "hello", "insert"}
      BY <2>1
    <2>3. \A r \in Requests : step[r] \in Speaking => toMain' = <<"prompts">>
      BY <2>1, <2>2
    <2>4. InTurn'
      BY <2>1, <2>2, <2>3
    <2> QED
      BY <2>1, <2>4
  <1>30. CASE Help!Answered
    BY <1>30 DEF Help!Answered
  <1>31. CASE Help!Interrupted
    BY <1>31 DEF Help!Interrupted
  <1>32. CASE Help!AuthOk
    BY <1>32 DEF Help!AuthOk
  <1>33. CASE Help!AuthFail
    BY <1>33 DEF Help!AuthFail
  <1>34. CASE Help!SessionOpened
    BY <1>34 DEF Help!SessionOpened
  <1>35. CASE Help!Fork
    BY <1>35 DEF Help!Fork
  <1>36. CASE Help!ForkFails
    <2>1. /\ hpc = "fork" /\ toHelper = <<>> /\ hpc' = IF held = "gone" THEN "bye" ELSE "recv"
          /\ toMain' = IF held = "gone" THEN toMain ELSE Append(toMain, "error")
          /\ UNCHANGED <<held, authed, step, stage, toHelper, phase, known, session, killed, stray>>
      BY <1>36 DEF Help!ForkFails
    <2>2. /\ held \notin {"map", "live"} /\ stage \notin {"begun", "grace", "kill"}
          /\ \A r \in Requests : step[r] \notin Speaking \ {"spawn"}
      BY <2>1
    <2>3. \A r \in Requests : step[r] = "spawn" => toMain' = <<"error">> /\ hpc' = "recv"
      BY <2>1, <2>2
    <2>4. InTurn'
      BY <2>1, <2>2, <2>3
    <2> QED
      BY <1>36, <2>1, <2>2, <2>4 DEF Help!ForkFails
  <1>37. CASE Help!Report
    BY <1>37 DEF Help!Report
  <1>38. CASE Help!HandOver
    <2>1. CASE held = "gone"
      BY <1>38, <2>1 DEF Help!HandOver
    <2>2. CASE held # "gone"
      <3>1. /\ hpc = "fd" /\ hpc' = "recv" /\ toMain' = Append(toMain, "fd") /\ toHelper = <<>> /\ toHelper' = <<>>
            /\ UNCHANGED <<held, step, stage, authed, phase, known, session, killed, stray>>
        BY <1>38, <2>2 DEF Help!HandOver
      <3>2. /\ held \notin {"map", "live"} /\ stage \notin {"begun", "grace", "kill"}
            /\ \A r \in Requests : step[r] \notin {"start", "answer", "hello", "insert"}
        BY <2>2, <3>1
      <3>3. \A r \in Requests : step[r] = "fd" => toMain' = <<"fd">>
        BY <3>1
      <3>4. \A r \in Requests : step[r] = "spawn" => toMain' = <<"spawned", "fd">>
        BY <3>1
      <3>5. InTurn'
        BY <3>1, <3>2, <3>3, <3>4
      <3> QED
        BY <1>38, <3>1, <3>2, <3>5 DEF Help!HandOver
    <2> QED
      BY <2>1, <2>2
  <1>39. CASE Help!Bye
    BY <1>39 DEF Help!Bye
  <1>40. CASE Help!Stuck
    BY <1>40 DEF Help!Stuck
  <1>41. CASE Help!Crash
    BY <1>41 DEF Help!Crash
  <1>42. CASE Help!WorkerEnds
    BY <1>42 DEF Help!WorkerEnds
  <1>43. ASSUME NEW r \in Requests, Help!Connected(r)
        PROVE  HelperTalks'
    BY <1>43 DEF Help!Connected
  <1>44. ASSUME NEW r \in Requests, Help!NotMarked(r)
        PROVE  HelperTalks'
    BY <1>44 DEF Help!NotMarked
  <1>45. CASE Help!TellWorker
    BY <1>45 DEF Help!TellWorker
  <1>46. CASE Help!TeardownDropped
    BY <1>46 DEF Help!TeardownDropped
  <1> QED
    BY <1>1, <1>2, <1>3, <1>4, <1>5, <1>6, <1>7, <1>8, <1>9, <1>10, <1>11, <1>12, <1>13, <1>14,
       <1>15, <1>16, <1>17, <1>18, <1>19, <1>20, <1>21, <1>22, <1>23, <1>24, <1>25, <1>26, <1>27, <1>28,
       <1>29, <1>30, <1>31, <1>32, <1>33, <1>34, <1>35, <1>36, <1>37, <1>38, <1>39, <1>40, <1>41, <1>42,
       <1>43, <1>44, <1>45, <1>46
       DEF Help!Next, Help!Speaks, Help!Closing, Help!HelperStep

\* Nobody has logged in.
LEMMA InitHelperInv == Help!Init => HelperInv
  <1> SUFFICES ASSUME Help!Init PROVE HelperInv
    OBVIOUS
  <1>1. Help!TypeOK
    <2>1. HelperTypes
      BY PartsAssumption DEF Help!Init, HelperTypes
    <2>2. HelperFlags
      BY DEF Help!Init, HelperFlags
    <2> QED
      BY <2>1, <2>2 DEF Help!Init, Help!TypeOK, HelperTypes, HelperFlags
  <1>2. HelperTalks
    BY DEF Help!Init, HelperTalks, OneSpeaks, HelperKnows, HelperReads, InTurn, SignalsAreAimed,
           Speaking, SessionIsClosed, Help!SessionIsClosed
  <1> QED
    BY <1>1, <1>2 DEF HelperInv

\* Every step of main process, helper and worker keeps the invariant.
LEMMA HelperStep ==
    ASSUME HelperInv, Help!Next
    PROVE  HelperInv'
  <1>1. HelperTypes /\ HelperFlags /\ toHelper \in Seq(Orders) /\ toMain \in Seq(Answers)
    BY DEF HelperInv, Help!TypeOK, HelperTypes, HelperFlags, Orders, Answers
  <1>2. HelperTypes' /\ HelperFlags'
    BY <1>1, HelperTypesStep, HelperFlagsStep
  <1>3. toHelper' \in Seq(Orders) /\ toMain' \in Seq(Answers)
    BY <1>1, QueuesMove, QueueType
  <1>4. HelperTalks'
    BY HelperTalksStep
  <1> QED
    BY <1>2, <1>3, <1>4 DEF HelperInv, Help!TypeOK, HelperTypes, HelperFlags, Orders, Answers

\* So does a step of another component.
LEMMA HelperRests == HelperInv /\ UNCHANGED helpers => HelperInv'
  <1> SUFFICES ASSUME HelperInv, UNCHANGED helpers PROVE HelperInv'
    OBVIOUS
  <1>1. Help!TypeOK'
    BY DEF HelperInv, helpers, Help!TypeOK
  <1>2. HelperTalks'
    BY DEF HelperInv, helpers, HelperTalks, OneSpeaks, HelperKnows, HelperReads, InTurn, SignalsAreAimed,
           AuthGoesOn, SpawnGoesOn, Rests, Crashed, SessionIsClosed, Help!SessionIsClosed
  <1> QED
    BY <1>1, <1>2 DEF HelperInv

\* Without questions of pam_open_session the two sides are in step.
LEMMA InStepFollows == ~SessionPrompts /\ HelperInv => Help!InStep
  <1> SUFFICES ASSUME ~SessionPrompts, HelperInv PROVE Help!InStep
    OBVIOUS
  <1> USE SequenceFacts
      DEF HelperInv, HelperTalks, OneSpeaks, HelperKnows, HelperReads, InTurn, AuthGoesOn, SpawnGoesOn,
          Crashed, Speaking, Help!Order, Help!Message
  <1>1. hpc = "prompt" => Help!Order \in {"none", "respond", "close", "eof"}
    OBVIOUS
  <1>2. hpc = "recv" => /\ Help!Order # "respond"
                        /\ Help!Order = "spawn" => known
                        /\ Help!Order = "start" => ~known
    OBVIOUS
  <1>3. ASSUME NEW r \in Requests
        PROVE  /\ step[r] = "answer" => Help!Message \in {"none", "prompts", "authok", "authfail", "eof"}
               /\ step[r] = "spawn" => Help!Message \in {"none", "spawned", "error", "eof"}
               /\ step[r] = "fd" => Help!Message \in {"none", "fd", "eof"}
    OBVIOUS
  <1> QED
    BY <1>1, <1>2, <1>3 DEF Help!InStep

-----------------------------------------------------------------------------
(* The control connection of the page.                                     *)

\* A set of numbers has a least one.
LEMMA LeastExists ==
    ASSUME NEW S, S \subseteq Nat, S # {}
    PROVE  \E m \in S : \A x \in S : m <= x
  <1> DEFINE R == {p \in Nat \X Nat : p[1] < p[2]}
  <1>1. PICK m \in S : \A k \in S : <<k, m>> \notin R
    <2>1. IsWellFoundedOn(R, Nat)
      BY NatLessThanWellFounded DEF OpToRel
    <2> HIDE DEF R
    <2> QED
      BY <2>1, WFMin
  <1>2. \A k, l \in Nat : <<k, l>> \notin R => l <= k
    OBVIOUS
  <1> HIDE DEF R
  <1> QED
    BY <1>1, <1>2

\* The next socket is one that was not made yet.
LEMMA NextSockIsNew ==
    ASSUME Client!Made # Client!Socks
    PROVE  Client!NextSock \in Client!Socks /\ sock[Client!NextSock] = "none"
  <1> DEFINE S == Client!Socks \ Client!Made
  <1>1. S # {} /\ S \subseteq Nat
    BY DEF Client!Socks, Client!Made
  <1>2. \E m \in S : \A x \in S : m <= x
    BY <1>1, LeastExists
  <1>3. Client!NextSock = CHOOSE m \in S : \A x \in S : m <= x
    BY DEF Client!NextSock
  <1>4. Client!NextSock \in S
    BY <1>2, <1>3
  <1> QED
    BY <1>4 DEF Client!Made

\* The cardinality of the instance is the usual one.
LEMMA CardinalityOfClient ==
    ASSUME NEW S
    PROVE Client!Cardinality(S) = Cardinality(S)
  BY DEF Client!Cardinality, Cardinality

\* A set of channels in some order.
LEMMA OrderOf ==
    ASSUME NEW S \in SUBSET Channels
    PROVE Client!SetToSeq(S) \in [1..Client!Cardinality(S) -> S] /\ Client!Cardinality(S) \in Nat
  <1>1. IsFiniteSet(S) /\ Cardinality(S) \in Nat /\ ExistsBijection(1..Cardinality(S), S)
    BY PartsAssumption, FS_Subset, FS_CardinalityType
  <1>2. PICK f : f \in [1..Cardinality(S) -> S] /\ \A a, b \in 1..Cardinality(S) : f[a] = f[b] => a = b
    BY <1>1 DEF ExistsBijection, Bijection, Injection, IsInjective
  <1>3. Client!IsInjective(f)
    BY <1>2 DEF Client!IsInjective
  <1>4. \E g \in [1..Client!Cardinality(S) -> S] : Client!IsInjective(g)
    BY <1>2, <1>3, CardinalityOfClient
  <1> QED
    BY <1>1, <1>4, CardinalityOfClient DEF Client!SetToSeq

\* flushSubs sends frames.
LEMMA SubFramesType ==
    ASSUME NEW S \in SUBSET Channels
    PROVE Client!SubFrames(S) \in Seq([kind : {"sub", "unsub"}, ch : Channels])
  <1> DEFINE order == Client!SetToSeq(S)
             n == Client!Cardinality(S)
  <1>1. order \in Seq(S) /\ Len(order) = n /\ \A i \in 1..n : order[i] \in S /\ n \in Nat
    BY OrderOf, LenProperties, SeqDef
  <1> HIDE DEF order
  <1>2. \A i \in 1..n : Client!Frame("sub", order[i]) \in [kind : {"sub", "unsub"}, ch : Channels]
    BY <1>1 DEF Client!Frame
  <1>3. Client!SubFrames(S) = [i \in 1..n |-> Client!Frame("sub", order[i])]
    BY <1>1 DEF Client!SubFrames, order
  <1> DEFINE T == [kind : {"sub", "unsub"}, ch : Channels]
  <1> HIDE DEF n, T
  <1>4. Client!SubFrames(S) \in [1..n -> T]
    <2>1. \A i \in 1..n : Client!Frame("sub", order[i]) \in T
      BY <1>2 DEF T
    <2> QED
      BY <2>1, <1>3
  <1>5. Client!SubFrames(S) \in Seq(T)
    BY <1>1, <1>4, SeqDef
  <1> QED
    BY <1>5 DEF T

PageTypes ==
    /\ ws \in Client!Socks \cup {None} /\ orphans \in Nat
    /\ listeners \in [Channels -> SUBSET Views]
    /\ sock \in [Client!Socks -> {"none", "connecting", "open", "closing", "done"}]

ServerTypes ==
    /\ served \in [Client!Socks -> SUBSET Channels] /\ ended \in [Client!Socks -> SUBSET Channels]
    /\ up \in [Client!Socks -> Seq([kind : {"sub", "unsub"}, ch : Channels])]
    /\ down \in [Client!Socks -> Seq([kind : {"resp", "data", "err"}, ch : Channels])]

PageFlags ==
    /\ locked \in BOOLEAN /\ armed \in BOOLEAN /\ confirming \in BOOLEAN /\ late \in BOOLEAN
    /\ confirmed \in [Channels -> BOOLEAN]

\* These are the types of the module.
LEMMA ClientTypes ==
    Client!TypeOK <=> PageTypes /\ ServerTypes /\ PageFlags
  BY DEF Client!TypeOK, PageTypes, ServerTypes, PageFlags

\* A step of page or server keeps the types of the page,
LEMMA PageTypesStep ==
    ASSUME PageTypes, Client!Next
    PROVE  PageTypes'
  <1> USE PartsAssumption DEF PageTypes, Client!Open, Client!Ends, Client!OnClose,
              Client!client, Client!wire, Client!vars
  <1>1. CASE Client!Login
    BY <1>1, NextSockIsNew DEF Client!Login
  <1>2. CASE Client!Lock
    BY <1>2 DEF Client!Lock
  <1>3. ASSUME NEW v \in Views, NEW ch \in Channels, Client!Subscribe(v, ch)
        PROVE  PageTypes'
    BY <1>3 DEF Client!Subscribe
  <1>4. ASSUME NEW v \in Views, NEW ch \in Channels, Client!Unsubscribe(v, ch)
        PROVE  PageTypes'
    BY <1>4 DEF Client!Unsubscribe
  <1>5. CASE Client!Reconnect
    BY <1>5, NextSockIsNew DEF Client!Reconnect
  <1>6. CASE Client!Resend
    BY <1>6 DEF Client!Resend
  <1>7. ASSUME NEW s \in Client!Socks, Client!OnOpen(s)
        PROVE  PageTypes'
    BY <1>7 DEF Client!OnOpen
  <1>8. ASSUME NEW s \in Client!Socks, Client!Closed(s) \/ Client!Cut(s)
        PROVE  PageTypes'
    BY <1>8 DEF Client!Closed, Client!Cut
  <1>9. ASSUME NEW s \in Client!Socks, Client!OnMessage(s) \/ Client!Serve(s)
        PROVE  PageTypes'
    BY <1>9 DEF Client!OnMessage, Client!Serve
  <1>10. ASSUME NEW s \in Client!Socks, NEW ch \in Channels, Client!Push(s, ch) \/ Client!End(s, ch)
        PROVE  PageTypes'
    BY <1>10 DEF Client!Push, Client!End
  <1>11. CASE UNCHANGED Client!vars
    BY <1>11
  <1> QED
    BY <1>1, <1>2, <1>3, <1>4, <1>5, <1>6, <1>7, <1>8, <1>9, <1>10, <1>11 DEF Client!Next

\* its flags,
LEMMA PageFlagsStep ==
    ASSUME PageFlags, Client!Next
    PROVE  PageFlags'
  <1> USE DEF PageFlags, Client!Open, Client!Ends, Client!OnClose,
              Client!client, Client!wire, Client!vars
  <1>1. CASE Client!Login
    BY <1>1 DEF Client!Login
  <1>2. CASE Client!Lock
    BY <1>2 DEF Client!Lock
  <1>3. ASSUME NEW v \in Views, NEW ch \in Channels, Client!Subscribe(v, ch)
        PROVE  PageFlags'
    BY <1>3 DEF Client!Subscribe
  <1>4. ASSUME NEW v \in Views, NEW ch \in Channels, Client!Unsubscribe(v, ch)
        PROVE  PageFlags'
    BY <1>4 DEF Client!Unsubscribe
  <1>5. CASE Client!Reconnect
    BY <1>5 DEF Client!Reconnect
  <1>6. CASE Client!Resend
    BY <1>6 DEF Client!Resend
  <1>7. ASSUME NEW s \in Client!Socks, Client!OnOpen(s)
        PROVE  PageFlags'
    BY <1>7 DEF Client!OnOpen
  <1>8. ASSUME NEW s \in Client!Socks, Client!Closed(s)
        PROVE  PageFlags'
    BY <1>8 DEF Client!Closed
  <1>9. ASSUME NEW s \in Client!Socks, Client!Cut(s)
        PROVE  PageFlags'
    BY <1>9 DEF Client!Cut
  <1>10. ASSUME NEW s \in Client!Socks, Client!OnMessage(s)
        PROVE  PageFlags'
    BY <1>10 DEF Client!OnMessage
  <1>11. ASSUME NEW s \in Client!Socks, Client!Serve(s)
        PROVE  PageFlags'
    BY <1>11 DEF Client!Serve
  <1>12. ASSUME NEW s \in Client!Socks, NEW ch \in Channels, Client!Push(s, ch) \/ Client!End(s, ch)
        PROVE  PageFlags'
    BY <1>12 DEF Client!Push, Client!End
  <1>13. CASE UNCHANGED Client!vars
    BY <1>13
  <1> QED
    BY <1>1, <1>2, <1>3, <1>4, <1>5, <1>6, <1>7, <1>8, <1>9, <1>10, <1>11, <1>12, <1>13 DEF Client!Next

\* that it has one connection,
LEMMA OneConnectionStep ==
    ASSUME PageTypes, PageFlags, Client!OneConnection, Client!Next
    PROVE  Client!OneConnection'
  <1> USE PartsAssumption DEF PageTypes, PageFlags, Client!OneConnection, Client!Open, Client!Ends, Client!OnClose,
              Client!client, Client!wire, Client!vars
  <1>0. None \notin Client!Socks
    BY DEF Client!Socks
  <1>1. CASE Client!Login
    BY <1>1, NextSockIsNew DEF Client!Login
  <1>2. CASE Client!Lock
    <2>1. /\ locked' = TRUE /\ armed' = FALSE /\ ws' = None /\ UNCHANGED <<orphans, late>>
          /\ sock' = IF ws = None THEN sock ELSE [sock EXCEPT ![ws] = "closing"]
      BY <1>2 DEF Client!Lock
    <2>2. CASE ~late
      <3>1. \A s \in Client!Socks : sock'[s] \notin {"connecting", "open"}
        BY <1>0, <2>1, <2>2
      <3> QED
        BY <2>1, <2>2, <3>1
    <2> QED
      BY <2>1, <2>2
  <1>3. ASSUME NEW v \in Views, NEW ch \in Channels, Client!Subscribe(v, ch) \/ Client!Unsubscribe(v, ch)
        PROVE  Client!OneConnection'
    BY <1>3 DEF Client!Subscribe, Client!Unsubscribe
  <1>4. CASE Client!Reconnect
    <2>1. UNCHANGED <<locked, late>>
      BY <1>4 DEF Client!Reconnect
    <2>2. CASE ~late
      <3>1. armed /\ ws = None /\ ~locked /\ armed' = FALSE /\ orphans' = 0
        BY <1>4, <2>2 DEF Client!Reconnect
      <3>2. \A s \in Client!Socks : sock[s] \notin {"connecting", "open"}
        BY <1>0, <2>2, <3>1
      <3>3. /\ ws' = Client!NextSock /\ Client!NextSock \in Client!Socks
            /\ sock' = [sock EXCEPT ![Client!NextSock] = "connecting"]
        BY <1>4, <3>1, NextSockIsNew DEF Client!Reconnect
      <3> QED
        BY <2>1, <3>1, <3>2, <3>3
    <2> QED
      BY <2>1, <2>2
  <1>5. CASE Client!Resend
    BY <1>5 DEF Client!Resend
  <1>6. ASSUME NEW s \in Client!Socks, Client!OnOpen(s)
        PROVE  Client!OneConnection'
    BY <1>6 DEF Client!OnOpen
  <1>7. ASSUME NEW s \in Client!Socks, Client!Closed(s)
        PROVE  Client!OneConnection'
    BY <1>7 DEF Client!Closed
  <1>8. ASSUME NEW s \in Client!Socks, Client!Cut(s)
        PROVE  Client!OneConnection'
    <2>1. /\ sock' = [sock EXCEPT ![s] = "done"] /\ ws' = None /\ UNCHANGED <<locked, late>>
          /\ armed' = (armed \/ ~locked) /\ orphans' = IF armed /\ ~locked THEN orphans + 1 ELSE orphans
          /\ sock[s] \in {"connecting", "open"}
      BY <1>8 DEF Client!Cut
    <2>2. CASE ~late
      <3>1. s = ws /\ ws # None /\ ~locked /\ ~armed /\ orphans = 0
        BY <2>1, <2>2 DEF Client!Socks
      <3> QED
        BY <2>1, <3>1
    <2> QED
      BY <2>1, <2>2
  <1>9. ASSUME NEW s \in Client!Socks, Client!OnMessage(s) \/ Client!Serve(s)
        PROVE  Client!OneConnection'
    BY <1>9 DEF Client!OnMessage, Client!Serve
  <1>10. ASSUME NEW s \in Client!Socks, NEW ch \in Channels, Client!Push(s, ch) \/ Client!End(s, ch)
        PROVE  Client!OneConnection'
    BY <1>10 DEF Client!Push, Client!End
  <1>11. CASE UNCHANGED Client!vars
    BY <1>11
  <1> QED
    BY <1>1, <1>2, <1>3, <1>4, <1>5, <1>6, <1>7, <1>8, <1>9, <1>10, <1>11 DEF Client!Next

Asks == [kind : {"sub", "unsub"}, ch : Channels]
Tells == [kind : {"resp", "data", "err"}, ch : Channels]

\* The frames that are sent.
LEMMA FramesAreTyped ==
    /\ \A ch \in Channels : Client!Frame("sub", ch) \in Asks /\ Client!Frame("unsub", ch) \in Asks
    /\ \A ch \in Channels, k \in {"resp", "data", "err"} : Client!Frame(k, ch) \in Tells
  BY DEF Client!Frame, Asks, Tells

\* A queue of a socket gets one more frame or several, loses its head, or ends.
LEMMA UpdateTyped ==
    ASSUME NEW M, NEW q \in [Client!Socks -> Seq(M)], NEW s \in Client!Socks
    PROVE  /\ \A m \in M : [q EXCEPT ![s] = Append(@, m)] \in [Client!Socks -> Seq(M)]
           /\ \A m \in Seq(M) : [q EXCEPT ![s] = @ \o m] \in [Client!Socks -> Seq(M)]
           /\ q[s] # <<>> => /\ Head(q[s]) \in M
                             /\ [q EXCEPT ![s] = Tail(@)] \in [Client!Socks -> Seq(M)]
           /\ [q EXCEPT ![s] = <<>>] \in [Client!Socks -> Seq(M)]
  <1>1. q[s] \in Seq(M)
    OBVIOUS
  <1>2. \A m \in M : Append(q[s], m) \in Seq(M)
    BY <1>1
  <1>3. \A m \in Seq(M) : q[s] \o m \in Seq(M)
    BY <1>1
  <1>4. q[s] # <<>> => Head(q[s]) \in M /\ Tail(q[s]) \in Seq(M)
    BY <1>1
  <1> QED
    BY <1>2, <1>3, <1>4

\* and the types of the server's end.
LEMMA ServerTypesStep ==
    ASSUME PageTypes, ServerTypes, Client!Next
    PROVE  ServerTypes'
  <1> DEFINE Ups == [Client!Socks -> Seq(Asks)]
             Downs == [Client!Socks -> Seq(Tells)]
             Shared == [Client!Socks -> SUBSET Channels]
  <1>0. up \in Ups /\ down \in Downs /\ served \in Shared /\ ended \in Shared
    BY DEF ServerTypes, Asks, Tells
  <1> SUFFICES up' \in Ups /\ down' \in Downs /\ served' \in Shared /\ ended' \in Shared
    BY DEF ServerTypes, Asks, Tells
  <1>a. /\ \A ch \in Channels : Client!Frame("sub", ch) \in Asks /\ Client!Frame("unsub", ch) \in Asks
        /\ \A S \in SUBSET Channels : Client!SubFrames(S) \in Seq(Asks)
        /\ Client!Entries \subseteq Channels
    BY FramesAreTyped, SubFramesType DEF Asks, Client!Entries
  <1>b. /\ \A s \in Client!Socks :
            /\ \A m \in Asks : [up EXCEPT ![s] = Append(@, m)] \in Ups
            /\ \A m \in Seq(Asks) : [up EXCEPT ![s] = @ \o m] \in Ups
            /\ up[s] # <<>> => Head(up[s]) \in Asks /\ [up EXCEPT ![s] = Tail(@)] \in Ups
            /\ [up EXCEPT ![s] = <<>>] \in Ups
        /\ \A s \in Client!Socks :
            /\ \A m \in Tells : [down EXCEPT ![s] = Append(@, m)] \in Downs
            /\ down[s] # <<>> => [down EXCEPT ![s] = Tail(@)] \in Downs
            /\ [down EXCEPT ![s] = <<>>] \in Downs
    BY <1>0, UpdateTyped
  <1>c. Client!Sends => ws \in Client!Socks
    BY DEF Client!Sends, PageTypes
  <1> DEFINE Typed == up' \in Ups /\ down' \in Downs /\ served' \in Shared /\ ended' \in Shared
  <1>1. ASSUME NEW f \in Asks PROVE Client!Sent(f) \in Ups
    BY <1>0, <1>b, <1>c DEF Client!Sent
  <1> HIDE DEF Ups, Downs
  <1>2. CASE Client!Login \/ Client!Lock \/ Client!Reconnect
    BY <1>0, <1>2 DEF Client!Login, Client!Lock, Client!Reconnect
  <1>3. ASSUME NEW v \in Views, NEW ch \in Channels, Client!Subscribe(v, ch) \/ Client!Unsubscribe(v, ch)
        PROVE  Typed
    BY <1>0, <1>a, <1>1, <1>3 DEF Client!Subscribe, Client!Unsubscribe
  <1>4. CASE Client!Resend
    <2> DEFINE pending == {ch \in Client!Entries : ~confirmed[ch]}
    <2>1. pending \in SUBSET Channels
      BY <1>a
    <2>2. /\ up' = [up EXCEPT ![ws] = @ \o Client!SubFrames(pending)]
          /\ UNCHANGED <<down, served, ended>> /\ Client!Sends
      BY <1>4 DEF Client!Resend
    <2> HIDE DEF pending
    <2> QED
      BY <1>0, <1>a, <1>b, <1>c, <2>1, <2>2
  <1>5. ASSUME NEW s \in Client!Socks, Client!OnOpen(s)
        PROVE  Typed
    <2>1. up' = [up EXCEPT ![s] = @ \o Client!SubFrames(Client!Entries)] \/ up' = up
      BY <1>5 DEF Client!OnOpen
    <2>2. UNCHANGED <<down, served, ended>>
      BY <1>5 DEF Client!OnOpen
    <2> QED
      BY <1>0, <1>a, <1>b, <2>1, <2>2
  <1>6. ASSUME NEW s \in Client!Socks, Client!Closed(s) \/ Client!Cut(s)
        PROVE  Typed
    <2>1. /\ up' = [up EXCEPT ![s] = <<>>] /\ down' = [down EXCEPT ![s] = <<>>]
          /\ served' = [served EXCEPT ![s] = {}] /\ ended' = [ended EXCEPT ![s] = {}]
      BY <1>6 DEF Client!Closed, Client!Cut, Client!OnClose, Client!Ends
    <2> QED
      BY <1>0, <1>b, <2>1
  <1>7. ASSUME NEW s \in Client!Socks, Client!OnMessage(s)
        PROVE  Typed
    BY <1>0, <1>b, <1>7 DEF Client!OnMessage
  <1>8. ASSUME NEW s \in Client!Socks, Client!Serve(s)
        PROVE  Typed
    <2>1. Head(up[s]).ch \in Channels /\ up' \in Ups
      BY <1>b, <1>8 DEF Client!Serve, Asks
    <2>2. down' \in Downs
      BY <1>0, <1>b, <1>8, <2>1, FramesAreTyped DEF Client!Serve, Client!Answered
    <2> QED
      BY <1>0, <1>8, <2>1, <2>2 DEF Client!Serve
  <1>9. ASSUME NEW s \in Client!Socks, NEW ch \in Channels, Client!Push(s, ch) \/ Client!End(s, ch)
        PROVE  Typed
    <2>1. down' \in Downs
      BY <1>b, <1>9, FramesAreTyped DEF Client!Push, Client!End, Client!Answered
    <2> QED
      BY <1>0, <1>9, <2>1 DEF Client!Push, Client!End, Client!client
  <1>10. CASE UNCHANGED Client!vars
    BY <1>0, <1>10 DEF Client!vars, Client!wire
  <1> QED
    BY <1>2, <1>3, <1>4, <1>5, <1>6, <1>7, <1>8, <1>9, <1>10 DEF Client!Next

PageInv == Client!TypeOK /\ Client!OneConnection

\* A page without a login.
LEMMA InitPageInv == Client!Init => PageInv
  <1> SUFFICES ASSUME Client!Init PROVE PageInv
    OBVIOUS
  <1>1. PageTypes
    BY DEF Client!Init, PageTypes
  <1>2. PageFlags
    BY DEF Client!Init, PageFlags
  <1>3. ServerTypes
    BY DEF Client!Init, ServerTypes
  <1>4. Client!OneConnection
    BY DEF Client!Init, Client!OneConnection
  <1> QED
    BY <1>1, <1>2, <1>3, <1>4, ClientTypes DEF PageInv

\* Every step of page and server keeps the invariant.
LEMMA PageStep ==
    ASSUME PageInv, Client!Next
    PROVE  PageInv'
  <1>1. PageTypes /\ ServerTypes /\ PageFlags /\ Client!OneConnection
    BY ClientTypes DEF PageInv
  <1>2. PageTypes' /\ ServerTypes' /\ PageFlags' /\ Client!OneConnection'
    BY <1>1, PageTypesStep, ServerTypesStep, PageFlagsStep, OneConnectionStep
  <1> QED
    BY <1>2 DEF PageTypes, ServerTypes, PageFlags, PageInv, Client!TypeOK

\* So does a step of another component.
LEMMA PageRests == PageInv /\ UNCHANGED clients => PageInv'
  <1> SUFFICES ASSUME PageInv, UNCHANGED clients PROVE PageInv'
    OBVIOUS
  <1>1. PageTypes' /\ ServerTypes'
    BY ClientTypes DEF clients, PageInv, PageTypes, ServerTypes
  <1>2. PageFlags'
    BY ClientTypes DEF clients, PageInv, PageFlags
  <1>3. Client!OneConnection'
    BY DEF clients, PageInv, Client!OneConnection
  <1> QED
    BY <1>1, <1>2, <1>3 DEF PageTypes, ServerTypes, PageFlags, PageInv, Client!TypeOK

-----------------------------------------------------------------------------
(* The life cycle of the process.                                          *)

\* A request is stored, shown and taken in this order, and what the main thread does
\* is what was asked, or the graceful end of a start that failed.
StopIsAsked ==
    /\ main = "stages" => relay = "none" /\ asked = None /\ kind = None /\ cut = {} /\ ~failed
    /\ main \in {"serve", "await"} => relay # "none" /\ kind = None /\ cut = {} /\ ~failed
    /\ relay \in {"stored", "sent"} => shown = asked /\ asked \in {"graceful", "urgent"}
    /\ relay = "none" => asked = None
    /\ kind # None /\ ~failed => relay = "sent" /\ kind = asked
    /\ main \in {"drain", "flush", "workers", "close"} => kind # None
    /\ failed /\ kind # None => kind = "graceful"

\* The SCM knows where the service is; the control thread acts for one that was told
\* to run, once, and with a request of its own.
ScmIsTold ==
    /\ told \in [state : {"none", "start", "running", "stop", "stopped"}, checkpoint : Nat]
    /\ ctl \in [do : {"idle", "advance", "send", "repeat"},
                with : {"graceful", "urgent", "running", None}]
    /\ told.state # "none" => service /\ told.state = current
    /\ ctl.do # "idle" =>
        /\ service /\ asked = None /\ relay = "wait" /\ main \in {"serve", "await"}
        /\ ctl.do \in {"advance", "repeat"} => told.state = "running"
        /\ ctl.do = "repeat" => ctl.with = "running"
        /\ ctl.do = "send" => told.state = "stop"
        /\ ctl.do \in {"advance", "send"} => ctl.with \in {"graceful", "urgent"}
    /\ service /\ main \in {"serve", "await"} /\ told.state = "running" => asked = None
    /\ told.state = "running" => main \in {"serve", "await"}
    /\ told.state = "stopped" <=> service /\ main = "ended"
    /\ main = "stopped" => service
    /\ main \in {"ended", "stopped"} /\ ~unmet => runtime = "down" /\ ~listening /\ ~conns
    /\ unmet => ~service /\ main = "ended" /\ kind = None

\* What is open in which stage of start and stop.
Closes ==
    /\ store = "closed" => engine = "flushed" /\ main \in {"release", "stopped", "ended"}
    /\ main \in {"workers", "close"} => engine = "flushed"
    /\ main = "stages" /\ start <= 3 => engine = "none"
    /\ main = "stages" /\ host = "server" /\ start <= 4 => engine = "none"
    /\ main = "stages" /\ start <= 6 => ~listening
    /\ host = "agent" => ~listening /\ ~conns /\ workers = {}
    /\ conns /\ main = "stages" => listening
    /\ main \in {"release", "stopped", "ended"} /\ (kind # None \/ engine # "none") =>
        unmet \/ store = "closed" \/ "cleanup" \in cut
    /\ main \notin {"stages", "serve", "await"} /\ ~unmet => ~listening
    /\ kind = "graceful" /\ cut = {} =>
        /\ main \in {"flush", "workers", "close", "release", "stopped", "ended"} => ~conns
        /\ main \in {"close", "release", "stopped", "ended"} => "live" \notin workers
    /\ main = "workers" => host = "server"

HostValues ==
    /\ host \in {"server", "agent"}
    /\ main \in {"stages", "serve", "await", "drain", "flush", "workers", "close", "release", "stopped", "ended"}
    /\ start \in 1..7
    /\ kind \in Host!Kinds \cup {None} /\ cut \subseteq {"drain", "cleanup"}
    /\ asked \in Host!Kinds \cup {None} /\ shown \in Host!Kinds \cup {None}
    /\ relay \in {"none", "wait", "stored", "sent"}
    /\ store \in {"none", "open", "closed"} /\ engine \in {"none", "on", "flushed"}
    /\ runtime \in {"none", "up", "down"} /\ workers \subseteq {"live", "torn"}
    /\ checkpoint \in Nat /\ current \in {"none", "start", "running", "stop", "stopped"}
    /\ broken \subseteq Breaks

HostFlags ==
    /\ service \in BOOLEAN /\ failed \in BOOLEAN /\ listening \in BOOLEAN
    /\ conns \in BOOLEAN /\ unmet \in BOOLEAN

HostInv ==
    /\ HostValues /\ HostFlags /\ StopIsAsked /\ ScmIsTold /\ Closes
    /\ Host!KindIsKept /\ Host!LastWordIsTrue /\ Host!StopIsOrderly

\* The two kinds of host.
LEMMA StagesOfHosts ==
    /\ DOMAIN Host!Stages = {"server", "agent"}
    /\ Host!Stages["server"] = <<"prepare", "store", "sessions", "engine", "probe", "bind">>
    /\ Host!Stages["agent"] = <<"prepare", "store", "engine", "probe">>
  BY DEF Host!Stages

\* With the types of the invariant, the process stops well.
LEMMA HostInvIsEnough == HostInv => Host!HostStopsWell
  <1> SUFFICES ASSUME HostInv PROVE Host!HostStopsWell
    OBVIOUS
  <1>1. host \in DOMAIN Host!Stages
    BY StagesOfHosts DEF HostInv, HostValues
  <1>2. {listening, conns, unmet} \subseteq BOOLEAN /\ service \in BOOLEAN /\ failed \in BOOLEAN
    BY DEF HostInv, HostFlags
  <1>3. told.checkpoint \in Nat /\ {current, told.state} \subseteq {"none", "start", "running", "stop", "stopped"}
        /\ ctl.do \in {"idle", "advance", "send", "repeat"}
    BY DEF HostInv, HostValues, ScmIsTold
  <1>4. Host!TypeOK
    BY <1>1, <1>2, <1>3 DEF HostInv, HostValues, Host!TypeOK
  <1> QED
    BY <1>4 DEF HostInv, Host!HostStopsWell

\* A process that has just been started.
LEMMA InitHostInv == Host!Init => HostInv
  <1> SUFFICES ASSUME Host!Init PROVE HostInv
    OBVIOUS
  <1>1. HostValues
    BY StagesOfHosts DEF Host!Init, HostValues
  <1>2. HostFlags
    BY DEF Host!Init, HostFlags
  <1>3. told.state = "none" /\ ctl.do = "idle" /\ ScmIsTold
    BY DEF Host!Init, ScmIsTold, Host!Status, Host!Idle
  <1> QED
    BY <1>1, <1>2, <1>3
       DEF Host!Init, HostInv, StopIsAsked, Closes, Host!KindIsKept, Host!LastWordIsTrue, Host!StopIsOrderly

\* Where the stages stand in the two kinds of host.
LEMMA StageNumbers ==
    ASSUME NEW name, Host!InStage(name), host \in {"server", "agent"}, start \in 1..7
    PROVE  /\ main = "stages" /\ start <= 6
           /\ name \in {"prepare", "store", "sessions"} => start <= 3
           /\ name = "engine" => start = (IF host = "server" THEN 4 ELSE 3)
           /\ name = "bind" => host = "server" /\ start = 6
  <1>0. main = "stages" /\ start <= Len(Host!Stages[host]) /\ Host!Stages[host][start] = name
    BY DEF Host!InStage
  <1>1. CASE host = "server"
    <2> DEFINE order == <<"prepare", "store", "sessions", "engine", "probe", "bind">>
    <2>1. Len(order) = 6 /\ order[4] = "engine" /\ order[5] = "probe" /\ order[6] = "bind"
          /\ order[1] = "prepare" /\ order[2] = "store" /\ order[3] = "sessions"
      OBVIOUS
    <2>2. start <= Len(order) /\ order[start] = name
      BY <1>0, <1>1, StagesOfHosts
    <2> HIDE DEF order
    <2>3. start \in 1..6
      BY <2>1, <2>2
    <2> QED
      BY <1>0, <1>1, <2>1, <2>2, <2>3
  <1>2. CASE host = "agent"
    <2> DEFINE order == <<"prepare", "store", "engine", "probe">>
    <2>1. Len(order) = 4 /\ order[1] = "prepare" /\ order[2] = "store" /\ order[3] = "engine" /\ order[4] = "probe"
      OBVIOUS
    <2>2. start <= Len(order) /\ order[start] = name
      BY <1>0, <1>2, StagesOfHosts
    <2> HIDE DEF order
    <2>3. start \in 1..4
      BY <2>1, <2>2
    <2> QED
      BY <1>0, <1>2, <2>1, <2>2, <2>3
  <1> QED
    BY <1>1, <1>2

\* A step of the process keeps the types,
LEMMA HostValuesStep ==
    ASSUME HostValues, ScmIsTold, Host!Next
    PROVE  HostValues'
  <1> USE PartsAssumption DEF HostValues, ScmIsTold,
              Host!Kinds, Host!Report, Host!Advance, Host!Running,
              Host!Works, Host!Accepts, Host!ControlSteps, Host!Idle, Host!Status,
              Host!fixed, Host!life, Host!req, Host!parts, Host!scm, Host!vars
  <1>1. ASSUME NEW name \in Host!StageNames, Host!Stage(name)
        PROVE  HostValues'
    BY <1>1, StageNumbers DEF Host!Stage
  <1>2. CASE Host!BindFails
    BY <1>2, StageNumbers DEF Host!BindFails
  <1>3. ASSUME NEW name \in Host!StageNames, Host!StageFails(name)
        PROVE  HostValues'
    BY <1>3, StageNumbers DEF Host!StageFails
  <1>4. CASE Host!Ready
    BY <1>4 DEF Host!Ready
  <1>5. CASE Host!Connect
    BY <1>5 DEF Host!Connect
  <1>6. CASE Host!Disconnect
    BY <1>6 DEF Host!Disconnect
  <1>7. CASE Host!LogIn
    BY <1>7 DEF Host!LogIn
  <1>8. CASE Host!Await
    BY <1>8 DEF Host!Await
  <1>9. CASE Host!Answered
    BY <1>9 DEF Host!Answered
  <1>10. ASSUME NEW k \in Host!Kinds, Host!Signal(k)
        PROVE  HostValues'
    BY <1>10 DEF Host!Signal
  <1>11. ASSUME NEW k \in Host!Kinds, Host!ControlStop(k)
        PROVE  HostValues'
    BY <1>11 DEF Host!ControlStop
  <1>12. CASE Host!Interrogate
    BY <1>12 DEF Host!Interrogate
  <1>13. CASE Host!Control
    BY <1>13 DEF Host!Control
  <1>14. CASE Host!RelayStores
    BY <1>14 DEF Host!RelayStores
  <1>15. CASE Host!RelayWakes
    BY <1>15 DEF Host!RelayWakes
  <1>16. CASE Host!Stop
    BY <1>16 DEF Host!Stop
  <1>17. CASE Host!Drain
    BY <1>17 DEF Host!Drain
  <1>18. CASE Host!Flush
    BY <1>18 DEF Host!Flush
  <1>19. CASE Host!EndWorkers
    BY <1>19 DEF Host!EndWorkers
  <1>20. CASE Host!CloseStore
    BY <1>20 DEF Host!CloseStore
  <1>21. CASE Host!CleanupTimeout
    BY <1>21 DEF Host!CleanupTimeout
  <1>22. CASE Host!Release
    BY <1>22 DEF Host!Release
  <1>23. CASE Host!Stopped
    BY <1>23 DEF Host!Stopped
  <1>24. ASSUME NEW x \in Breaks, Host!Break(x)
        PROVE  HostValues'
    BY <1>24 DEF Host!Break
  <1>25. CASE (main = "ended" \/ broken # {}) /\ UNCHANGED Host!vars
    BY <1>25
  <1>26. CASE Host!Sweep
    <2>1. workers' \subseteq {"live", "torn"}
      BY <1>26 DEF Host!Sweep
    <2> QED
      BY <1>26, <2>1 DEF Host!Sweep
  <1> QED
    BY <1>1, <1>2, <1>3, <1>4, <1>5, <1>6, <1>7, <1>8, <1>9, <1>10, <1>11, <1>12, <1>13, <1>14, <1>15, <1>16, <1>17,
       <1>18, <1>19, <1>20, <1>21, <1>22, <1>23, <1>24, <1>25, <1>26
       DEF Host!Next, Host!Starts, Host!Cleans, Host!Relays

\* the flags,
LEMMA HostFlagsStep ==
    ASSUME HostFlags, Host!Next
    PROVE  HostFlags'
  <1> USE PartsAssumption DEF HostFlags, Host!Kinds, Host!Report, Host!Advance, Host!Running,
              Host!Works, Host!Accepts, Host!ControlSteps, Host!Idle, Host!Status,
              Host!fixed, Host!life, Host!req, Host!parts, Host!scm, Host!vars
  <1>1. ASSUME NEW name \in Host!StageNames, Host!Stage(name)
        PROVE  HostFlags'
    BY <1>1, StageNumbers DEF Host!Stage
  <1>2. CASE Host!BindFails
    BY <1>2, StageNumbers DEF Host!BindFails
  <1>3. ASSUME NEW name \in Host!StageNames, Host!StageFails(name)
        PROVE  HostFlags'
    BY <1>3, StageNumbers DEF Host!StageFails
  <1>4. CASE Host!Ready
    BY <1>4 DEF Host!Ready
  <1>5. CASE Host!Connect
    BY <1>5 DEF Host!Connect
  <1>6. CASE Host!Disconnect
    BY <1>6 DEF Host!Disconnect
  <1>7. CASE Host!LogIn
    BY <1>7 DEF Host!LogIn
  <1>8. CASE Host!Await
    BY <1>8 DEF Host!Await
  <1>9. CASE Host!Answered
    BY <1>9 DEF Host!Answered
  <1>10. ASSUME NEW k \in Host!Kinds, Host!Signal(k)
        PROVE  HostFlags'
    BY <1>10 DEF Host!Signal
  <1>11. ASSUME NEW k \in Host!Kinds, Host!ControlStop(k)
        PROVE  HostFlags'
    BY <1>11 DEF Host!ControlStop
  <1>12. CASE Host!Interrogate
    BY <1>12 DEF Host!Interrogate
  <1>13. CASE Host!Control
    BY <1>13 DEF Host!Control
  <1>14. CASE Host!RelayStores
    BY <1>14 DEF Host!RelayStores
  <1>15. CASE Host!RelayWakes
    BY <1>15 DEF Host!RelayWakes
  <1>16. CASE Host!Stop
    BY <1>16 DEF Host!Stop
  <1>17. CASE Host!Drain
    BY <1>17 DEF Host!Drain
  <1>18. CASE Host!Flush
    BY <1>18 DEF Host!Flush
  <1>19. CASE Host!EndWorkers
    BY <1>19 DEF Host!EndWorkers
  <1>20. CASE Host!CloseStore
    BY <1>20 DEF Host!CloseStore
  <1>21. CASE Host!CleanupTimeout
    BY <1>21 DEF Host!CleanupTimeout
  <1>22. CASE Host!Release
    BY <1>22 DEF Host!Release
  <1>23. CASE Host!Stopped
    BY <1>23 DEF Host!Stopped
  <1>24. ASSUME NEW x \in Breaks, Host!Break(x)
        PROVE  HostFlags'
    BY <1>24 DEF Host!Break
  <1>25. CASE (main = "ended" \/ broken # {}) /\ UNCHANGED Host!vars
    BY <1>25
  <1>26. CASE Host!Sweep
    BY <1>26 DEF Host!Sweep
  <1> QED
    BY <1>1, <1>2, <1>3, <1>4, <1>5, <1>6, <1>7, <1>8, <1>9, <1>10, <1>11, <1>12, <1>13, <1>14, <1>15, <1>16, <1>17,
       <1>18, <1>19, <1>20, <1>21, <1>22, <1>23, <1>24, <1>25, <1>26
       DEF Host!Next, Host!Starts, Host!Cleans, Host!Relays

\* what was asked and is done,
LEMMA StopIsAskedStep ==
    ASSUME StopIsAsked, ScmIsTold, Host!KindIsKept, HostValues, Host!Next
    PROVE  StopIsAsked' /\ Host!KindIsKept'
  <1> USE PartsAssumption DEF StopIsAsked, ScmIsTold, Host!KindIsKept, HostValues,
              Host!Kinds, Host!Report, Host!Advance, Host!Running,
              Host!Works, Host!Accepts, Host!ControlSteps, Host!Idle, Host!Status,
              Host!fixed, Host!life, Host!req, Host!parts, Host!scm, Host!vars
  <1>1. ASSUME NEW name \in Host!StageNames, Host!Stage(name)
        PROVE  StopIsAsked' /\ Host!KindIsKept'
    BY <1>1, StageNumbers DEF Host!Stage
  <1>2. CASE Host!BindFails
    BY <1>2, StageNumbers DEF Host!BindFails
  <1>3. ASSUME NEW name \in Host!StageNames, Host!StageFails(name)
        PROVE  StopIsAsked' /\ Host!KindIsKept'
    BY <1>3, StageNumbers DEF Host!StageFails
  <1>4. CASE Host!Ready
    BY <1>4 DEF Host!Ready
  <1>5. CASE Host!Connect
    BY <1>5 DEF Host!Connect
  <1>6. CASE Host!Disconnect
    BY <1>6 DEF Host!Disconnect
  <1>7. CASE Host!LogIn
    BY <1>7 DEF Host!LogIn
  <1>8. CASE Host!Await
    BY <1>8 DEF Host!Await
  <1>9. CASE Host!Answered
    BY <1>9 DEF Host!Answered
  <1>10. ASSUME NEW k \in Host!Kinds, Host!Signal(k)
        PROVE  StopIsAsked' /\ Host!KindIsKept'
    BY <1>10 DEF Host!Signal
  <1>11. ASSUME NEW k \in Host!Kinds, Host!ControlStop(k)
        PROVE  StopIsAsked' /\ Host!KindIsKept'
    BY <1>11 DEF Host!ControlStop
  <1>12. CASE Host!Interrogate
    BY <1>12 DEF Host!Interrogate
  <1>13. CASE Host!Control
    BY <1>13 DEF Host!Control
  <1>14. CASE Host!RelayStores
    BY <1>14 DEF Host!RelayStores
  <1>15. CASE Host!RelayWakes
    BY <1>15 DEF Host!RelayWakes
  <1>16. CASE Host!Stop
    BY <1>16 DEF Host!Stop
  <1>17. CASE Host!Drain
    BY <1>17 DEF Host!Drain
  <1>18. CASE Host!Flush
    BY <1>18 DEF Host!Flush
  <1>19. CASE Host!EndWorkers
    BY <1>19 DEF Host!EndWorkers
  <1>20. CASE Host!CloseStore
    BY <1>20 DEF Host!CloseStore
  <1>21. CASE Host!CleanupTimeout
    BY <1>21 DEF Host!CleanupTimeout
  <1>22. CASE Host!Release
    BY <1>22 DEF Host!Release
  <1>23. CASE Host!Stopped
    BY <1>23 DEF Host!Stopped
  <1>24. ASSUME NEW x \in Breaks, Host!Break(x)
        PROVE  StopIsAsked' /\ Host!KindIsKept'
    BY <1>24 DEF Host!Break
  <1>25. CASE (main = "ended" \/ broken # {}) /\ UNCHANGED Host!vars
    BY <1>25
  <1>26. CASE Host!Sweep
    BY <1>26 DEF Host!Sweep
  <1> QED
    BY <1>1, <1>2, <1>3, <1>4, <1>5, <1>6, <1>7, <1>8, <1>9, <1>10, <1>11, <1>12, <1>13, <1>14, <1>15, <1>16, <1>17,
       <1>18, <1>19, <1>20, <1>21, <1>22, <1>23, <1>24, <1>25, <1>26
       DEF Host!Next, Host!Starts, Host!Cleans, Host!Relays

\* what the SCM knows,
LEMMA ScmIsToldStep ==
    ASSUME StopIsAsked, ScmIsTold, Host!LastWordIsTrue, HostValues, Host!Next
    PROVE  ScmIsTold' /\ Host!LastWordIsTrue'
  <1> USE PartsAssumption DEF StopIsAsked, ScmIsTold, Host!LastWordIsTrue, HostValues,
              Host!Kinds, Host!Report, Host!Advance, Host!Running,
              Host!Works, Host!Accepts, Host!ControlSteps, Host!Idle, Host!Status,
              Host!fixed, Host!life, Host!req, Host!parts, Host!scm, Host!vars
  <1>1. ASSUME NEW name \in Host!StageNames, Host!Stage(name)
        PROVE  ScmIsTold' /\ Host!LastWordIsTrue'
    BY <1>1, StageNumbers DEF Host!Stage
  <1>2. CASE Host!BindFails
    BY <1>2, StageNumbers DEF Host!BindFails
  <1>3. ASSUME NEW name \in Host!StageNames, Host!StageFails(name)
        PROVE  ScmIsTold' /\ Host!LastWordIsTrue'
    BY <1>3, StageNumbers DEF Host!StageFails
  <1>4. CASE Host!Ready
    BY <1>4 DEF Host!Ready
  <1>5. CASE Host!Connect
    BY <1>5 DEF Host!Connect
  <1>6. CASE Host!Disconnect
    BY <1>6 DEF Host!Disconnect
  <1>7. CASE Host!LogIn
    BY <1>7 DEF Host!LogIn
  <1>8. CASE Host!Await
    BY <1>8 DEF Host!Await
  <1>9. CASE Host!Answered
    BY <1>9 DEF Host!Answered
  <1>10. ASSUME NEW k \in Host!Kinds, Host!Signal(k)
        PROVE  ScmIsTold' /\ Host!LastWordIsTrue'
    BY <1>10 DEF Host!Signal
  <1>11. ASSUME NEW k \in Host!Kinds, Host!ControlStop(k)
        PROVE  ScmIsTold' /\ Host!LastWordIsTrue'
    BY <1>11 DEF Host!ControlStop
  <1>12. CASE Host!Interrogate
    BY <1>12 DEF Host!Interrogate
  <1>13. CASE Host!Control
    <2>0. UNCHANGED <<host, service, main, start, failed, kind, relay, listening, conns, runtime, unmet>>
      BY <1>13 DEF Host!Control
    <2>1. CASE ctl.do = "advance" /\ Host!Report("stop", checkpoint + 1)
         /\ ctl' = [ctl EXCEPT !.do = "send"]
         /\ UNCHANGED asked
      BY <2>0, <2>1 DEF Host!Report, Host!Status
    <2>2. CASE ctl.do = "send"
         /\ asked' = ctl.with
         /\ ctl' = Host!Idle
         /\ UNCHANGED Host!scm
      <3>1. /\ ctl.with \in {"graceful", "urgent"} /\ service /\ relay = "wait" /\ asked = None
            /\ main \in {"serve", "await"}
        BY <2>2
      <3>2. ctl'.do = "idle" /\ ctl' \in [do : {"idle", "advance", "send", "repeat"},
                 with : {"graceful", "urgent", "running", None}]
        BY <2>2 DEF Host!Idle
      <3>3. UNCHANGED <<current, checkpoint, told>>
        BY <2>2 DEF Host!scm
      <3>4. told.state # "running" 
        BY <2>2
      <3> QED
      BY <2>0, <3>1, <3>2, <3>3, <3>4
    <2>3. CASE ctl.do = "repeat"
         /\ Host!Report(ctl.with, checkpoint)
         /\ ctl' = Host!Idle
         /\ UNCHANGED asked
      BY <2>0, <2>3 DEF Host!Report, Host!Status, Host!Idle
    <2> QED
      BY <1>13, <2>1, <2>2, <2>3 DEF Host!Control, Host!ControlSteps
  <1>14. CASE Host!RelayStores
    BY <1>14 DEF Host!RelayStores
  <1>15. CASE Host!RelayWakes
    BY <1>15 DEF Host!RelayWakes
  <1>16. CASE Host!Stop
    BY <1>16 DEF Host!Stop
  <1>17. CASE Host!Drain
    BY <1>17 DEF Host!Drain
  <1>18. CASE Host!Flush
    BY <1>18 DEF Host!Flush
  <1>19. CASE Host!EndWorkers
    BY <1>19 DEF Host!EndWorkers
  <1>20. CASE Host!CloseStore
    BY <1>20 DEF Host!CloseStore
  <1>21. CASE Host!CleanupTimeout
    BY <1>21 DEF Host!CleanupTimeout
  <1>22. CASE Host!Release
    BY <1>22 DEF Host!Release
  <1>23. CASE Host!Stopped
    BY <1>23 DEF Host!Stopped
  <1>24. ASSUME NEW x \in Breaks, Host!Break(x)
        PROVE  ScmIsTold' /\ Host!LastWordIsTrue'
    BY <1>24 DEF Host!Break
  <1>25. CASE (main = "ended" \/ broken # {}) /\ UNCHANGED Host!vars
    BY <1>25
  <1>26. CASE Host!Sweep
    BY <1>26 DEF Host!Sweep
  <1> QED
    BY <1>1, <1>2, <1>3, <1>4, <1>5, <1>6, <1>7, <1>8, <1>9, <1>10, <1>11, <1>12, <1>13, <1>14, <1>15, <1>16, <1>17,
       <1>18, <1>19, <1>20, <1>21, <1>22, <1>23, <1>24, <1>25, <1>26
       DEF Host!Next, Host!Starts, Host!Cleans, Host!Relays

\* and what is open.
LEMMA ClosesStep ==
    ASSUME StopIsAsked, ScmIsTold, Closes, Host!StopIsOrderly, HostValues, Host!Next
    PROVE  Closes' /\ Host!StopIsOrderly'
  <1> USE PartsAssumption DEF StopIsAsked, Closes, Host!StopIsOrderly, HostValues, ScmIsTold,
              Host!Kinds, Host!Report, Host!Advance, Host!Running,
              Host!Works, Host!Accepts, Host!ControlSteps, Host!Idle, Host!Status,
              Host!fixed, Host!life, Host!req, Host!parts, Host!scm, Host!vars
  <1>1. ASSUME NEW name \in Host!StageNames, Host!Stage(name)
        PROVE  Closes' /\ Host!StopIsOrderly'
    <2>0. UNCHANGED <<host, main, kind, cut, failed, workers, conns, unmet>> /\ main = "stages" /\ start' = start + 1
      BY <1>1 DEF Host!Stage, Host!InStage
    <2>1. engine' # "none" => (start' > 3 /\ (host = "server" => start' > 4)) \/ engine # "none"
      BY <1>1, StageNumbers DEF Host!Stage
    <2>2. store' # "closed"
      BY <1>1, <2>0 DEF Host!Stage
    <2>3. listening' => listening \/ (start' > 6 /\ host = "server")
      <3>1. name = "bind" => start' > 6 /\ host = "server"
        BY <1>1, StageNumbers DEF Host!Stage
      <3> QED
        BY <1>1, <3>1 DEF Host!Stage
    <2>4. listening => listening'
      BY <1>1 DEF Host!Stage
    <2> QED
     BY <2>0, <2>1, <2>2, <2>3, <2>4
  <1>2. CASE Host!BindFails
    BY <1>2, StageNumbers DEF Host!BindFails
  <1>3. ASSUME NEW name \in Host!StageNames, Host!StageFails(name)
        PROVE  Closes' /\ Host!StopIsOrderly'
    BY <1>3, StageNumbers DEF Host!StageFails
  <1>4. CASE Host!Ready
    BY <1>4 DEF Host!Ready
  <1>5. CASE Host!Connect
    BY <1>5 DEF Host!Connect
  <1>6. CASE Host!Disconnect
    BY <1>6 DEF Host!Disconnect
  <1>7. CASE Host!LogIn
    BY <1>7 DEF Host!LogIn
  <1>8. CASE Host!Await
    BY <1>8 DEF Host!Await
  <1>9. CASE Host!Answered
    BY <1>9 DEF Host!Answered
  <1>10. ASSUME NEW k \in Host!Kinds, Host!Signal(k)
        PROVE  Closes' /\ Host!StopIsOrderly'
    BY <1>10 DEF Host!Signal
  <1>11. ASSUME NEW k \in Host!Kinds, Host!ControlStop(k)
        PROVE  Closes' /\ Host!StopIsOrderly'
    BY <1>11 DEF Host!ControlStop
  <1>12. CASE Host!Interrogate
    BY <1>12 DEF Host!Interrogate
  <1>13. CASE Host!Control
    BY <1>13 DEF Host!Control
  <1>14. CASE Host!RelayStores
    BY <1>14 DEF Host!RelayStores
  <1>15. CASE Host!RelayWakes
    BY <1>15 DEF Host!RelayWakes
  <1>16. CASE Host!Stop
    BY <1>16 DEF Host!Stop
  <1>17. CASE Host!Drain
    BY <1>17 DEF Host!Drain
  <1>18. CASE Host!Flush
    BY <1>18 DEF Host!Flush
  <1>19. CASE Host!EndWorkers
    BY <1>19 DEF Host!EndWorkers
  <1>20. CASE Host!CloseStore
    BY <1>20 DEF Host!CloseStore
  <1>21. CASE Host!CleanupTimeout
    BY <1>21 DEF Host!CleanupTimeout
  <1>22. CASE Host!Release
    BY <1>22 DEF Host!Release
  <1>23. CASE Host!Stopped
    BY <1>23 DEF Host!Stopped
  <1>24. ASSUME NEW x \in Breaks, Host!Break(x)
        PROVE  Closes' /\ Host!StopIsOrderly'
    BY <1>24 DEF Host!Break
  <1>25. CASE (main = "ended" \/ broken # {}) /\ UNCHANGED Host!vars
    BY <1>25
  <1>26. CASE Host!Sweep
    BY <1>26 DEF Host!Sweep
  <1> QED
    BY <1>1, <1>2, <1>3, <1>4, <1>5, <1>6, <1>7, <1>8, <1>9, <1>10, <1>11, <1>12, <1>13, <1>14, <1>15, <1>16, <1>17,
       <1>18, <1>19, <1>20, <1>21, <1>22, <1>23, <1>24, <1>25, <1>26
       DEF Host!Next, Host!Starts, Host!Cleans, Host!Relays

\* Every step of the process keeps the invariant.
LEMMA HostStep ==
    ASSUME HostInv, Host!Next
    PROVE  HostInv'
  <1>1. HostValues' /\ HostFlags'
    BY HostValuesStep, HostFlagsStep DEF HostInv
  <1>2. StopIsAsked' /\ Host!KindIsKept'
    BY StopIsAskedStep DEF HostInv
  <1>3. ScmIsTold' /\ Host!LastWordIsTrue'
    BY ScmIsToldStep DEF HostInv
  <1>4. Closes' /\ Host!StopIsOrderly'
    BY ClosesStep DEF HostInv
  <1> QED
    BY <1>1, <1>2, <1>3, <1>4 DEF HostInv

\* So does a step of another component.
LEMMA HostRests == HostInv /\ UNCHANGED hosts => HostInv'
  <1> SUFFICES ASSUME HostInv, UNCHANGED hosts PROVE HostInv'
    OBVIOUS
  <1> USE DEF hosts, HostInv
  <1>1. HostValues' /\ StopIsAsked' /\ Host!KindIsKept'
    BY DEF HostValues, StopIsAsked, Host!KindIsKept
  <1>2. HostFlags'
    BY DEF HostFlags
  <1>3. ScmIsTold' /\ Host!LastWordIsTrue'
    BY DEF ScmIsTold, Host!LastWordIsTrue
  <1>4. Closes' /\ Host!StopIsOrderly'
    BY DEF Closes, Host!StopIsOrderly
  <1> QED
    BY <1>1, <1>2, <1>3, <1>4

-----------------------------------------------------------------------------
(* Following the log.                                                      *)

LogInv ==
    /\ Log!TypeOK /\ Log!OneChildPerFilter
    /\ \A f \in Followers : lease[f] # None => filter[lease[f]] \in Filters

\* Nobody follows.
LEMMA InitLogInv == Log!Init => LogInv
  BY DEF Log!Init, LogInv, Log!TypeOK, Log!OneChildPerFilter

\* Every step of followers, children and their readers keeps the invariant.
LEMMA LogStep ==
    ASSUME LogInv, Log!Next
    PROVE  LogInv'
  <1> USE PartsAssumption DEF LogInv, Log!TypeOK, Log!OneChildPerFilter,
              Log!Retained, Log!Shared, Log!Holders, Log!Unused, Log!Closed
  <1>1. ASSUME NEW f \in Followers, NEW k \in Filters, Log!Join(f, k)
        PROVE  LogInv'
    BY <1>1 DEF Log!Join
  <1>2. ASSUME NEW f \in Followers, NEW k \in Filters, Log!SpawnFails(f, k)
        PROVE  LogInv'
    BY <1>2 DEF Log!SpawnFails
  <1>3. ASSUME NEW f \in Followers, NEW k \in Filters, NEW c \in Children, Log!Spawn(f, k, c)
        PROVE  LogInv'
    BY <1>3 DEF Log!Spawn
  <1>4. ASSUME NEW f \in Followers, Log!NextBatch(f)
        PROVE  LogInv'
    BY <1>4 DEF Log!NextBatch
  <1>5. ASSUME NEW f \in Followers, Log!Leave(f)
        PROVE  LogInv'
    BY <1>5 DEF Log!Leave
  <1>6. ASSUME NEW c \in Children, Log!Batch(c)
        PROVE  LogInv'
    BY <1>6 DEF Log!Batch
  <1>7. ASSUME NEW c \in Children, Log!ChildExits(c)
        PROVE  LogInv'
    BY <1>7 DEF Log!ChildExits
  <1>8. ASSUME NEW c \in Children, Log!ReaderEnds(c)
        PROVE  LogInv'
    BY <1>8 DEF Log!ReaderEnds
  <1>9. ASSUME NEW c \in Children, Log!DropShared(c)
        PROVE  LogInv'
    BY <1>9 DEF Log!DropShared
  <1> QED
    BY <1>1, <1>2, <1>3, <1>4, <1>5, <1>6, <1>7, <1>8, <1>9
       DEF Log!Next

\* So does a step of another component.
LEMMA LogRests == LogInv /\ UNCHANGED logs => LogInv'
  BY DEF logs, LogInv, Log!TypeOK, Log!OneChildPerFilter

-----------------------------------------------------------------------------
(* The components side by side.                                            *)

PartsInv == AttachInv /\ TableInv /\ ConsoleInv /\ HelperInv /\ PageInv /\ HostInv /\ LogInv

\* A step of the table keeps its invariant.
LEMMA TableMoves == TableInv /\ Table!Next => TableInv'
  BY NextTableInv

\* A step of another component leaves the table of terminals as it was.
LEMMA TableRests == TableInv /\ UNCHANGED tables => TableInv'
  BY NextTableInv DEF tables, Table!vars

\* Each component starts well.
LEMMA InitPartsInv == PartsInit => PartsInv
  BY InitTableInv, InitConsoleInv, InitAttachInv, InitHelperInv, InitPageInv, InitHostInv, InitLogInv
     DEF PartsInit, PartsInv

\* A step is one of one component, or of none.
LEMMA NextPartsInv == PartsInv /\ [PartsNext]_all => PartsInv'
  <1> SUFFICES ASSUME PartsInv, [PartsNext]_all
               PROVE  PartsInv'
    OBVIOUS
  <1>1. [Next]_vars /\ (Table!Next \/ UNCHANGED tables) /\ (Cons!Next \/ UNCHANGED consoles)
    BY DEF PartsNext, all, tables, consoles, attach
  <1>2. (Help!Next \/ UNCHANGED helpers) /\ (Client!Next \/ UNCHANGED clients)
    BY DEF PartsNext, all, helpers, clients
  <1>3. (Host!Next \/ UNCHANGED hosts) /\ (Log!Next \/ UNCHANGED logs)
    BY DEF PartsNext, all, hosts, logs
  <1>4. TableInv' /\ ConsoleInv' /\ AttachInv'
    BY <1>1, NextAttachInv, TableMoves, TableRests, ConsoleStep, ConsoleRests DEF PartsInv
  <1>5. HelperInv' /\ PageInv'
    BY <1>2, HelperStep, HelperRests, PageStep, PageRests DEF PartsInv
  <1>6. HostInv' /\ LogInv'
    BY <1>3, HostStep, HostRests, LogStep, LogRests DEF PartsInv
  <1> QED
    BY <1>4, <1>5, <1>6 DEF PartsInv

\* The invariant holds in every reachable state.
LEMMA PartsAreInductive == PartsSpec => []PartsInv
  BY InitPartsInv, NextPartsInv, PTL DEF PartsSpec

\* Pids that are used again mislead neither reapers nor closes, on Unix and on
\* Windows; a process that stops writes what it has and leaves nothing when it says
\* so; a page has one connection and a filter of the log one child; every component
\* keeps its types.
THEOREM PartsStaySound == PartsSpec => []PartsAreSound
  <1>1. PartsInv => PartsAreSound
    BY HostInvIsEnough
       DEF PartsInv, PartsAreSound, TableInv, Table!ReuseIsHarmless, ConsoleInv, PageInv, LogInv, AttachInv, HelperInv
  <1> QED
    BY <1>1, PartsAreInductive, PTL

\* On Windows the console of a shell that runs is closed only by a close that took
\* the shell, whoever had its pid before, and no entry expires before the main
\* process has seen the end.
THEOREM ConsolesStayOwned == PartsSpec => []Cons!ConsolesAreOwned
  <1>1. PartsInv => Cons!ConsolesAreOwned
    BY DEF PartsInv, ConsoleInv
  <1> QED
    BY <1>1, PartsAreInductive, PTL

\* A process that stops, in whatever stage and however it was asked: the running
\* minute is written before the database closes, the request is carried out as what
\* it was, and the last the SCM is told is that nothing is left.
THEOREM ProcessStopsWell == PartsSpec => []Host!HostStopsWell
  <1>1. PartsInv => Host!HostStopsWell
    BY HostInvIsEnough DEF PartsInv
  <1> QED
    BY <1>1, PartsAreInductive, PTL

\* A page has one connection or one timer that will make it, whatever breaks, unless
\* an old socket ends after the next login.
THEOREM PageHasOneConnection == PartsSpec => []Client!OneConnection
  <1>1. PartsInv => Client!OneConnection
    BY DEF PartsInv, PageInv
  <1> QED
    BY <1>1, PartsAreInductive, PTL

\* Followers of one filter share one child, which the next one finds.
THEOREM FollowersShareOneChild == PartsSpec => []Log!OneChildPerFilter
  <1>1. PartsInv => Log!OneChildPerFilter
    BY DEF PartsInv, LogInv
  <1> QED
    BY <1>1, PartsAreInductive, PTL

\* A session of PAM is left open only by a cancelled request, a timeout or a crash,
\* also when pam_open_session asks questions.
THEOREM SessionsAreClosed == PartsSpec => []SessionIsClosed
  <1>1. PartsInv => SessionIsClosed
    BY DEF PartsInv, HelperInv, HelperTalks
  <1> QED
    BY <1>1, PartsAreInductive, PTL

\* The signals of a shutdown find the worker, never a pid that is free again, unless
\* the helper crashed; also when pam_open_session asks questions.
THEOREM SignalsFindWorker == PartsSpec => []Help!SignalFindsWorker
  <1>1. PartsInv => Help!SignalFindsWorker
    BY DEF PartsInv, HelperInv, HelperTalks, SignalsAreAimed, Crashed, Help!SignalFindsWorker
  <1> QED
    BY <1>1, PartsAreInductive, PTL

\* Main process and helper stay in step for any number of requests and answers, sent
\* at once or not, with timeouts, cancelled requests and crashes, as long as
\* pam_open_session asks nothing.
THEOREM HelperStaysInStep ==
    ASSUME ~SessionPrompts
    PROVE  PartsSpec => []HelperIsInStep
  <1>1. PartsInv => HelperIsInStep
    BY InStepFollows
       DEF PartsInv, HelperInv, HelperTalks, SignalsAreAimed, Crashed, Help!SignalFindsWorker, HelperIsInStep
  <1> QED
    BY <1>1, PartsAreInductive, PTL
=============================================================================
