--------------------------- MODULE TerminalAttach ---------------------------
(***************************************************************************)
(* The bytes of one terminal between its shell and the browsers:           *)
(* Terminal::attach, forward and pump of                                   *)
(* crates/strixmaid-core/src/terminal/mod.rs and the loop of               *)
(* crates/strixmaid-node/src/ws/terminal.rs.  Every buffer on the way is   *)
(* bounded, so each party can be made to wait by the next one: the shell   *)
(* by the socket, the pump by the queue of the attachment, the loop of the *)
(* WebSocket by the browser or by the shell that does not read its input.  *)
(*                                                                         *)
(* Output is counted in chunks (one read of the pump); a message to a      *)
(* client is an interval of chunks.  A client is one attach() and the task *)
(* that serves its WebSocket; its sequence number is the client itself.    *)
(***************************************************************************)
EXTENDS Integers, Sequences

CONSTANTS
    Clients,      \* attachments that may be made
    None,         \* no client
    QueueCap,     \* ATTACH_QUEUE_CAP
    SocketCap,    \* chunks that fit between the shell and the pump
    InputCap,     \* inputs that fit between the WebSocket and the shell
    ScrollCap,    \* chunks that fit into the scrollback
    MaxOut,       \* bound on the chunks the shell writes
    MaxIn         \* bound on the inputs each browser sends

ASSUME ConstantsAssumption ==
    /\ None \notin Clients
    /\ QueueCap \in Nat \ {0} /\ SocketCap \in Nat \ {0} /\ InputCap \in Nat \ {0}
    /\ ScrollCap \in Nat \ {0} /\ MaxOut \in Nat /\ MaxIn \in Nat

VARIABLES
    shell,     \* "free", "writing" (blocked until its chunk fits) or "dead"
    produced,  \* chunks that have left the shell
    read,      \* chunks the pump has put into the scrollback
    input,     \* inputs on their way to the shell
    pump,      \* "select", "forward", "waiting" (queue full) or "over"
    sending,   \* the client whose sender the pump holds for chunk `read`
    closed,    \* Terminal.closed
    closer,    \* "none", "calling" (in term.close) or "done"
    attached,  \* TerminalState.attached
    queue,     \* the channel of an attachment
    pc,        \* "new", "check", "loop", "send", "write", "end" or "gone"
    seen,      \* the last chunk before the next event of a client
    typed,     \* inputs a browser has sent
    reason,    \* the CloseReason a client received, or "none"
    exitSent,  \* clients that were sent {"t":"exit"}
    removed    \* history: why the terminal let go of a client, or "no"

vars == <<shell, produced, read, input, pump, sending, closed, closer, attached,
          queue, pc, seen, typed, reason, exitSent, removed>>

Reasons == {"replaced", "stalled", "exited", "deleted"}
Data(from, to) == [kind |-> "data", from |-> from, to |-> to]
ClosedFor(why) == [kind |-> "closed", why |-> why]
Events == [kind : {"data"}, from : Nat, to : Nat] \cup [kind : {"closed"}, why : Reasons]

TypeOK ==
    /\ shell \in {"free", "writing", "dead"}
    /\ produced \in Nat /\ read \in Nat /\ read <= produced
    /\ input \in 0..InputCap
    /\ pump \in {"select", "forward", "waiting", "over"}
    /\ sending \in Clients \cup {None}
    /\ closed \in BOOLEAN /\ closer \in {"none", "calling", "done"}
    /\ attached \in Clients \cup {None}
    /\ queue \in [Clients -> Seq(Events)]
    /\ \A c \in Clients : Len(queue[c]) <= QueueCap
    /\ pc \in [Clients -> {"new", "check", "loop", "send", "write", "end", "gone"}]
    /\ seen \in [Clients -> Nat]
    /\ typed \in [Clients -> Nat]
    /\ reason \in [Clients -> Reasons \cup {"none"}]
    /\ exitSent \subseteq Clients
    /\ removed \in [Clients -> Reasons \cup {"no"}]

Init ==
    /\ shell = "free" /\ produced = 0 /\ read = 0 /\ input = 0
    /\ pump = "select" /\ sending = None
    /\ closed = FALSE /\ closer = "none" /\ attached = None
    /\ queue = [c \in Clients |-> <<>>]
    /\ pc = [c \in Clients |-> "new"]
    /\ seen = [c \in Clients |-> 0]
    /\ typed = [c \in Clients |-> 0]
    /\ reason = [c \in Clients |-> "none"]
    /\ exitSent = {}
    /\ removed = [c \in Clients |-> "no"]

Room(c) == Len(queue[c]) < QueueCap

\* Somebody can still send to c: otherwise its receiver sees the end.
SenderAlive(c) == attached = c \/ sending = c

\* try_send: the queue with one more event, or as it is.
TrySend(q, c, ev) ==
    IF Len(q[c]) < QueueCap THEN [q EXCEPT ![c] = Append(@, ev)] ELSE q

Serving(c) == pc[c] \in {"check", "loop", "send", "write"}

-----------------------------------------------------------------------------
(* The shell.  A shell that waits to write does not read.                  *)

ShellWrite ==
    /\ shell = "free" /\ produced < MaxOut
    /\ shell' = "writing"
    /\ UNCHANGED <<produced, read, input, pump, sending, closed, closer, attached,
                   queue, pc, seen, typed, reason, exitSent, removed>>

ShellWritten ==
    /\ shell = "writing" /\ produced - read < SocketCap
    /\ shell' = "free"
    /\ produced' = produced + 1
    /\ UNCHANGED <<read, input, pump, sending, closed, closer, attached, queue,
                   pc, seen, typed, reason, exitSent, removed>>

ShellRead ==
    /\ shell = "free" /\ input > 0
    /\ input' = input - 1
    /\ UNCHANGED <<shell, produced, read, pump, sending, closed, closer, attached,
                   queue, pc, seen, typed, reason, exitSent, removed>>

ShellExit ==
    /\ shell = "free"
    /\ shell' = "dead"
    /\ UNCHANGED <<produced, read, input, pump, sending, closed, closer, attached,
                   queue, pc, seen, typed, reason, exitSent, removed>>

-----------------------------------------------------------------------------
(* pump and forward.                                                       *)

\* Under the lock: the chunk goes into the scrollback, and the sender of the
\* attachment of this very moment is cloned.
PumpRead ==
    /\ pump = "select" /\ ~closed /\ produced > read
    /\ read' = read + 1
    /\ sending' = attached
    /\ pump' = IF attached = None THEN "select" ELSE "forward"
    /\ UNCHANGED <<shell, produced, input, closed, closer, attached, queue, pc,
                   seen, typed, reason, exitSent, removed>>

Sent(c) ==
    /\ queue' = IF pc[c] = "gone" THEN queue
                ELSE [queue EXCEPT ![c] = Append(@, Data(read, read))]
    /\ sending' = None
    /\ pump' = "select"

\* The quick way, outside the lock; a full queue means waiting.
PumpSend ==
    /\ pump = "forward"
    /\ IF Room(sending) \/ pc[sending] = "gone"
       THEN Sent(sending)
       ELSE pump' = "waiting" /\ UNCHANGED <<queue, sending>>
    /\ UNCHANGED <<shell, produced, read, input, closed, closer, attached, pc,
                   seen, typed, reason, exitSent, removed>>

PumpWaited ==
    /\ pump = "waiting" /\ (Room(sending) \/ pc[sending] = "gone")
    /\ Sent(sending)
    /\ UNCHANGED <<shell, produced, read, input, closed, closer, attached, pc,
                   seen, typed, reason, exitSent, removed>>

\* finish_attach(c, why) when c is still the attachment.
FinishAttach(c, why) ==
    IF attached = c
    THEN /\ attached' = None
         /\ removed' = [removed EXCEPT ![c] = why]
         /\ queue' = TrySend(queue, c, ClosedFor(why))
    ELSE UNCHANGED <<attached, removed, queue>>

\* A slip: a stall that only gives the chunk up.
StallDropsChunk == UNCHANGED <<attached, removed, queue>>

\* After ATTACH_STALL_LIMIT the client is let go of.
StallDetaches == FinishAttach(sending, "stalled")

Stall ==
    /\ pump = "waiting"
    /\ StallDetaches
    /\ sending' = None
    /\ pump' = "select"
    /\ UNCHANGED <<shell, produced, read, input, closed, closer, pc, seen, typed,
                   reason, exitSent>>

\* EOF: the pump leaves its loop and closes the terminal if nobody else has.
PumpEof ==
    /\ pump = "select" /\ ~closed /\ shell = "dead" /\ produced = read
    /\ pump' = "over"
    /\ closed' = TRUE /\ closer' = "calling"
    /\ UNCHANGED <<shell, produced, read, input, sending, attached, queue, pc,
                   seen, typed, reason, exitSent, removed>>

PumpStop ==
    /\ pump = "select" /\ closed
    /\ pump' = "over"
    /\ UNCHANGED <<shell, produced, read, input, sending, closed, closer, attached,
                   queue, pc, seen, typed, reason, exitSent, removed>>

-----------------------------------------------------------------------------
(* shutdown, by whichever closer came first (module TerminalRegistry).     *)

Close ==
    /\ ~closed
    /\ closed' = TRUE /\ closer' = "calling"
    /\ UNCHANGED <<shell, produced, read, input, pump, sending, attached, queue,
                   pc, seen, typed, reason, exitSent, removed>>

\* term.close answered; the attachment is taken and told.
CloseEnds ==
    /\ closer = "calling"
    /\ closer' = "done"
    /\ shell' = "dead"
    /\ IF attached = None THEN UNCHANGED <<attached, removed, queue>>
       ELSE FinishAttach(attached, "deleted")
    /\ UNCHANGED <<produced, read, input, pump, sending, closed, pc, seen, typed,
                   reason, exitSent>>

-----------------------------------------------------------------------------
(* attach: lookup in the registry may have been before the close.          *)

\* The scrollback holds the last chunks.
Oldest == IF read > ScrollCap THEN read - ScrollCap ELSE 0

\* What the new client gets first: everything in the scrollback.
Replay == IF read = 0 THEN <<>> ELSE <<Data(Oldest + 1, read)>>

\* Under the lock: the replay is queued and the sender installed; the previous
\* attachment is told that it was replaced, if its queue has room.
Install(c) ==
    /\ pc[c] = "new"
    /\ pc' = [pc EXCEPT ![c] = "check"]
    /\ seen' = [seen EXCEPT ![c] = Oldest]
    /\ attached' = c
    /\ LET q == [queue EXCEPT ![c] = Replay] IN
       IF attached = None THEN queue' = q /\ UNCHANGED removed
       ELSE /\ queue' = TrySend(q, attached, ClosedFor("replaced"))
            /\ removed' = [removed EXCEPT ![attached] = "replaced"]
    /\ UNCHANGED <<shell, produced, read, input, pump, sending, closed, closer,
                   typed, reason, exitSent>>

\* Afterwards a close that has been faster is made up for.
CheckClosed(c) ==
    IF closed THEN FinishAttach(c, "exited") ELSE UNCHANGED <<attached, removed, queue>>

Check(c) ==
    /\ pc[c] = "check"
    /\ pc' = [pc EXCEPT ![c] = "loop"]
    /\ CheckClosed(c)
    /\ UNCHANGED <<shell, produced, read, input, pump, sending, closed, closer,
                   seen, typed, reason, exitSent>>

-----------------------------------------------------------------------------
(* serve: the loop of the WebSocket.                                       *)

\* attachment.next(): data goes to the browser, Closed ends the loop.
Receive(c) ==
    /\ pc[c] = "loop" /\ queue[c] # <<>>
    /\ LET ev == Head(queue[c]) IN
       IF ev.kind = "data"
       THEN /\ seen' = [seen EXCEPT ![c] = ev.to]
            /\ pc' = [pc EXCEPT ![c] = "send"]
            /\ UNCHANGED reason
       ELSE /\ reason' = [reason EXCEPT ![c] = ev.why]
            /\ pc' = [pc EXCEPT ![c] = "end"]
            /\ UNCHANGED seen
    /\ queue' = [queue EXCEPT ![c] = Tail(@)]
    /\ UNCHANGED <<shell, produced, read, input, pump, sending, closed, closer,
                   attached, typed, exitSent, removed>>

\* ... and so does the end of the channel.
ReceiveNone(c) ==
    /\ pc[c] = "loop" /\ queue[c] = <<>> /\ ~SenderAlive(c)
    /\ pc' = [pc EXCEPT ![c] = "end"]
    /\ UNCHANGED <<shell, produced, read, input, pump, sending, closed, closer,
                   attached, queue, seen, typed, reason, exitSent, removed>>

\* The browser takes the message, or its connection is broken.
SendToBrowser(c) ==
    /\ pc[c] = "send"
    /\ \E next \in {"loop", "end"} : pc' = [pc EXCEPT ![c] = next]
    /\ UNCHANGED <<shell, produced, read, input, pump, sending, closed, closer,
                   attached, queue, seen, typed, reason, exitSent, removed>>

\* A key press: the loop awaits its write, and neither receives nor notices
\* the end of the connection meanwhile.
Type(c) ==
    /\ pc[c] = "loop" /\ typed[c] < MaxIn
    /\ typed' = [typed EXCEPT ![c] = @ + 1]
    /\ pc' = [pc EXCEPT ![c] = "write"]
    /\ UNCHANGED <<shell, produced, read, input, pump, sending, closed, closer,
                   attached, queue, seen, reason, exitSent, removed>>

\* The input fits, or there is nobody at the other end; an error is ignored.
Write(c) ==
    /\ pc[c] = "write"
    /\ \/ shell = "dead" /\ UNCHANGED input
       \/ shell # "dead" /\ input < InputCap /\ input' = input + 1
    /\ pc' = [pc EXCEPT ![c] = "loop"]
    /\ UNCHANGED <<shell, produced, read, pump, sending, closed, closer, attached,
                   queue, seen, typed, reason, exitSent, removed>>

BrowserLeaves(c) ==
    /\ pc[c] = "loop"
    /\ pc' = [pc EXCEPT ![c] = "end"]
    /\ UNCHANGED <<shell, produced, read, input, pump, sending, closed, closer,
                   attached, queue, seen, typed, reason, exitSent, removed>>

\* A slip: any reason will do.
AnyReason(why) == why # "none"

\* CloseReason::is_terminal_gone: by the reason, not by its presence.
TerminalGone(why) == why \in {"exited", "deleted"}

\* A slip: whoever is attached.
DetachAny(c) == None

\* detach_if(seq): only this client.
DetachOwn(c) == IF attached = c THEN None ELSE attached

\* The exit frame, the end of the WebSocket, and the drop of the Attachment.
Leave(c) ==
    /\ pc[c] = "end"
    /\ pc' = [pc EXCEPT ![c] = "gone"]
    /\ exitSent' = IF TerminalGone(reason[c]) THEN exitSent \cup {c} ELSE exitSent
    /\ attached' = DetachOwn(c)
    /\ queue' = [queue EXCEPT ![c] = <<>>]
    /\ seen' = [seen EXCEPT ![c] = 0]
    /\ reason' = [reason EXCEPT ![c] = "none"]
    /\ UNCHANGED <<shell, produced, read, input, pump, sending, closed, closer,
                   typed, removed>>

-----------------------------------------------------------------------------
PumpStep == PumpRead \/ PumpSend \/ PumpWaited \/ PumpEof \/ PumpStop

LoopStep(c) == Check(c) \/ Receive(c) \/ ReceiveNone(c) \/ Write(c) \/ Leave(c)

\* The bound: the terminal is closed and every client is gone.
AllOver == (closer = "done" /\ \A c \in Clients : pc[c] = "gone") /\ UNCHANGED vars

Next ==
    \/ ShellWrite \/ ShellWritten \/ ShellRead \/ ShellExit
    \/ PumpStep \/ Stall \/ Close \/ CloseEnds
    \/ \E c \in Clients : \/ Install(c) \/ LoopStep(c)
                          \/ SendToBrowser(c) \/ Type(c) \/ BrowserLeaves(c)
    \/ AllOver

Spec == Init /\ [][Next]_vars

\* The tasks of the host run, its timers fire, term.close is answered and the
\* kernel wakes a writer that has room.  Nothing is assumed of the browsers, and
\* no shell has to read.
FairSpec ==
    /\ Spec
    /\ WF_vars(PumpStep) /\ WF_vars(Stall) /\ WF_vars(CloseEnds) /\ WF_vars(ShellWritten)
    /\ \A c \in Clients : WF_vars(LoopStep(c))

-----------------------------------------------------------------------------
(* Safety.                                                                 *)

\* The chunks before event i of the queue of c, and all that c has been sent.
Before(c, i) ==
    LET data == {j \in 1..(i - 1) : queue[c][j].kind = "data"}
    IN IF data = {} THEN seen[c]
       ELSE queue[c][CHOOSE j \in data : \A k \in data : k <= j].to
Total(c) == Before(c, Len(queue[c]) + 1)

\* What the attached client has been shown, what waits in its queue and the
\* chunk in the hands of the pump are, without gap or repetition, everything
\* the pump has read since the oldest chunk of its replay.
NothingIsLost ==
    /\ \A c \in Clients : \A i \in 1..Len(queue[c]) :
         queue[c][i].kind = "data" => queue[c][i].from = Before(c, i) + 1
    /\ attached # None =>
         Total(attached) = IF sending = attached THEN read - 1 ELSE read

\* The terminal lets go of a client that did not leave only because another one
\* came, because it did not read, or because the terminal was closed: the late
\* drop of an old attachment does not end the new one.
NobodyIsDroppedByMistake ==
    \A c \in Clients : Serving(c) /\ attached # c => removed[c] # "no"

\* The exit frame is sent only for a terminal that is closed: a client that was
\* replaced or stalled may come back.
ExitFrameIsTrue ==
    \A c \in exitSent : closed /\ removed[c] \in {"exited", "deleted"}

\* Nobody but the one attached client keeps the idle sweep away: a client that
\* has gone is not attached any more.
GoneIsDetached ==
    \A c \in Clients : pc[c] \in {"new", "gone"} => attached # c

\* Who serves is attached or was let go of for a reason, and who is attached serves.
ClientsAreServed == TypeOK /\ NobodyIsDroppedByMistake /\ GoneIsDetached

-----------------------------------------------------------------------------
(* Liveness, under FairSpec.                                               *)

\* ATTACH_STALL_LIMIT: a shell is never blocked for ever by a browser that does
\* not read, not even when its WebSocket waits to write to that shell while the
\* shell waits for the WebSocket.
ShellIsNeverStuck == (shell = "writing") ~> (shell # "writing")

\* No client waits for ever on a terminal that is closed, however its attach and
\* the close have met: it ends, or it is its browser that does not read.
ClosedEndsClients ==
    \A c \in Clients : (closed /\ Serving(c)) ~> (~Serving(c) \/ pc[c] = "send")

\* Neither the shell nor a client waits for the other for ever.
NobodyWaitsForEver == ShellIsNeverStuck /\ ClosedEndsClients
=============================================================================
