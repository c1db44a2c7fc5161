---------------------------- MODULE ControlClient ----------------------------
(***************************************************************************)
(* The browser's end of the control connection (WsClient): one instance    *)
(* for the page, told of logins and locks by the session store, used by    *)
(* every view that follows a channel.  The script has one thread, so a     *)
(* handler is one step; between two of them come the events of sockets     *)
(* and timers, in the order the browser pleases.                           *)
(*                                                                         *)
(* A frame is the channel it is about and what it says; ids and payloads   *)
(* are left out.  The server is seen as the frames it takes and answers.   *)
(***************************************************************************)
EXTENDS Naturals, SequencesExt

CONSTANTS
    MaxSock,    \* sockets are 1..MaxSock, in the order they are made
    Channels,
    Views,      \* listeners
    Mishaps,    \* of "drop", "cut", "late", "end"
    WireCap,    \* frames under way in one direction
    MaxActs,    \* bound of what the user does
    MaxBad,     \* bound of the connections that break and the sources that end
    None

Socks == 1..MaxSock

VARIABLES
    ws,         \* this.ws
    locked,     \* this.closed
    armed,      \* the timeout of this.reconnectTimer is pending
    orphans,    \* older timeouts that are pending
    confirming, \* the interval of this.confirmTimer runs
    listeners,  \* this.subs: a channel is in the map while it has a listener
    confirmed,
    sock,       \* of a socket: none, connecting, open, closing, done
    up, down,   \* frames on the way to the server and back
    served,     \* channels the server serves on it
    over,       \* channels whose source has ended there
    late,       \* history: a socket that was closed has ended after the next login
    acts, bad   \* counters of the bounds

client == <<ws, locked, armed, orphans, confirming, listeners, confirmed>>
wire   == <<sock, up, down, served, over>>
vars   == <<client, wire, late, acts, bad>>

Init ==
    /\ ws = None
    /\ locked = TRUE
    /\ armed = FALSE /\ orphans = 0 /\ confirming = FALSE
    /\ listeners = [ch \in Channels |-> {}]
    /\ confirmed = [ch \in Channels |-> FALSE]
    /\ sock = [s \in Socks |-> "none"]
    /\ up = [s \in Socks |-> <<>>] /\ down = [s \in Socks |-> <<>>]
    /\ served = [s \in Socks |-> {}] /\ over = [s \in Socks |-> {}]
    /\ late = FALSE
    /\ acts = 0 /\ bad = 0

Frame(kind, ch) == [kind |-> kind, ch |-> ch]

Act == acts < MaxActs /\ acts' = acts + 1

-----------------------------------------------------------------------------
(* Sockets. *)

Made == {s \in Socks : sock[s] # "none"}
NextSock == CHOOSE s \in Socks \ Made : \A r \in Socks \ Made : s <= r

\* open(): this.ws is the new socket, whatever it was before.
Open(states) ==
    /\ Made # Socks
    /\ ws' = NextSock
    /\ sock' = [states EXCEPT ![NextSock] = "connecting"]

\* send(): only on the socket that is this.ws, and only while it is open.
Sends == ws # None /\ sock[ws] = "open"
Sent(frame) == IF Sends THEN [up EXCEPT ![ws] = Append(@, frame)] ELSE up
Room == Sends => Len(up[ws]) < WireCap

Entries == {ch \in Channels : listeners[ch] # {}}

\* flushSubs: a frame for each entry that is not confirmed.
SubFrames(S) == LET order == SetToSeq(S) IN [i \in 1..Len(order) |-> Frame("sub", order[i])]

\* The socket ends, with what is on its way.
Ends(s) ==
    /\ sock' = [sock EXCEPT ![s] = "done"]
    /\ up' = [up EXCEPT ![s] = <<>>]
    /\ down' = [down EXCEPT ![s] = <<>>]
    /\ served' = [served EXCEPT ![s] = {}]
    /\ over' = [over EXCEPT ![s] = {}]

-----------------------------------------------------------------------------
(* What the user does. *)

\* connect(), at a login or when the page finds its token.  Without "late" the
\* socket of the last session has ended by then.
Login ==
    /\ locked /\ Act
    /\ "late" \in Mishaps \/ \A s \in Socks : sock[s] # "closing"
    /\ locked' = FALSE
    /\ Open(sock)
    /\ UNCHANGED <<armed, orphans, confirming, listeners, confirmed, up, down, served, over, late, bad>>

\* close(): the newest timeout goes, this.ws begins to close.
Lock ==
    /\ ~locked /\ Act
    /\ locked' = TRUE /\ armed' = FALSE /\ confirming' = FALSE
    /\ sock' = IF ws = None THEN sock ELSE [sock EXCEPT ![ws] = "closing"]
    /\ ws' = None
    /\ UNCHANGED <<orphans, listeners, confirmed, up, down, served, over, late, bad>>

\* subscribe(): the first listener of a channel makes its entry and asks for it.
Subscribe(v, ch) ==
    /\ v \notin listeners[ch] /\ Act /\ Room
    /\ listeners' = [listeners EXCEPT ![ch] = @ \cup {v}]
    /\ IF listeners[ch] = {}
       THEN /\ confirmed' = [confirmed EXCEPT ![ch] = FALSE]
            /\ up' = Sent(Frame("sub", ch))
       ELSE UNCHANGED <<confirmed, up>>
    /\ UNCHANGED <<ws, locked, armed, orphans, confirming, sock, down, served, over, late, bad>>

\* The function subscribe() returns: the last listener takes the entry with it.
Unsubscribe(v, ch) ==
    /\ v \in listeners[ch] /\ Act /\ Room
    /\ listeners' = [listeners EXCEPT ![ch] = @ \ {v}]
    /\ IF listeners[ch] = {v}
       THEN /\ confirmed' = [confirmed EXCEPT ![ch] = FALSE]
            /\ up' = Sent(Frame("unsub", ch))
       ELSE UNCHANGED <<confirmed, up>>
    /\ UNCHANGED <<ws, locked, armed, orphans, confirming, sock, down, served, over, late, bad>>

-----------------------------------------------------------------------------
(* Events of sockets and timers. *)

\* A slip: what the last connection confirmed still counts.
OnOpenKept(s) ==
    /\ sock[s] = "connecting"
    /\ sock' = [sock EXCEPT ![s] = "open"]
    /\ confirming' = TRUE
    /\ \E lost \in {FALSE} \cup ({TRUE} \cap {"drop" \in Mishaps}) :
        up' = IF ws = s /\ ~lost
              THEN [up EXCEPT ![s] = @ \o SubFrames({ch \in Entries : ~confirmed[ch]})] ELSE up
    /\ UNCHANGED <<ws, locked, armed, orphans, listeners, confirmed, down, served, over, late, acts, bad>>

\* onopen: every entry has to be confirmed again.  A proxy may lose what is sent
\* at once ("drop").
OnOpen(s) ==
    /\ sock[s] = "connecting"
    /\ sock' = [sock EXCEPT ![s] = "open"]
    /\ confirmed' = [ch \in Channels |-> FALSE]
    /\ confirming' = TRUE
    /\ \E lost \in {FALSE} \cup ({TRUE} \cap {"drop" \in Mishaps}) :
        up' = IF ws = s /\ ~lost THEN [up EXCEPT ![s] = @ \o SubFrames(Entries)] ELSE up
    /\ UNCHANGED <<ws, locked, armed, orphans, listeners, down, served, over, late, acts, bad>>

\* onclose: whichever socket it is about, this.ws is forgotten, and unless the
\* page is locked a timeout is set.
OnClose(s) ==
    /\ Ends(s)
    /\ ws' = None
    /\ armed' = (armed \/ ~locked)
    /\ orphans' = IF armed /\ ~locked THEN orphans + 1 ELSE orphans
    /\ UNCHANGED <<locked, confirming, listeners, confirmed, acts>>

\* The handshake of close() is over.
Closed(s) ==
    /\ sock[s] = "closing"
    /\ OnClose(s)
    /\ late' = (late \/ ~locked)
    /\ UNCHANGED bad

\* A connection breaks or is refused.
Cut(s) ==
    /\ "cut" \in Mishaps /\ bad < MaxBad /\ sock[s] \in {"connecting", "open"}
    /\ OnClose(s)
    /\ bad' = bad + 1
    /\ UNCHANGED late

\* A timeout fires: open(), which does nothing without a token.
Reconnect ==
    /\ \/ armed /\ armed' = FALSE /\ UNCHANGED orphans
       \/ orphans > 0 /\ orphans' = orphans - 1 /\ UNCHANGED armed
    /\ IF locked THEN UNCHANGED <<ws, sock>> ELSE Open(sock)
    /\ UNCHANGED <<locked, confirming, listeners, confirmed, up, down, served, over, late, acts, bad>>

\* The interval fires: what is not confirmed is asked for again.
Resend ==
    LET pending == {ch \in Entries : ~confirmed[ch]} IN
    /\ confirming /\ Sends /\ pending # {} /\ Room
    /\ up' = [up EXCEPT ![ws] = @ \o SubFrames(pending)]
    /\ UNCHANGED <<client, sock, down, served, over, late, acts, bad>>

\* onmessage: a frame of data or an answer confirms the entry, an error nothing.
OnMessage(s) ==
    /\ sock[s] = "open" /\ down[s] # <<>>
    /\ LET f == Head(down[s]) IN
        confirmed' = IF f.ch \in Entries /\ f.kind # "err"
                     THEN [confirmed EXCEPT ![f.ch] = TRUE] ELSE confirmed
    /\ down' = [down EXCEPT ![s] = Tail(@)]
    /\ UNCHANGED <<ws, locked, armed, orphans, confirming, listeners, sock, up, served, over, late, acts, bad>>

-----------------------------------------------------------------------------
(* The server's end of a socket. *)

Answered(s, frame) == down' = [down EXCEPT ![s] = Append(@, frame)]
Answers(s) == sock[s] = "open" /\ Len(down[s]) < WireCap

\* The next frame: a sub has an id and is answered, an unsub is not.
Serve(s) ==
    /\ Answers(s) /\ up[s] # <<>>
    /\ LET f == Head(up[s]) IN
        IF f.kind = "sub"
        THEN served' = [served EXCEPT ![s] = @ \cup {f.ch}] /\ Answered(s, Frame("resp", f.ch))
        ELSE served' = [served EXCEPT ![s] = @ \ {f.ch}] /\ UNCHANGED down
    /\ over' = [over EXCEPT ![s] = @ \ {Head(up[s]).ch}]
    /\ up' = [up EXCEPT ![s] = Tail(@)]
    /\ UNCHANGED <<client, sock, late, acts, bad>>

\* A frame of a channel.
Push(s, ch) ==
    /\ Answers(s) /\ ch \in served[s]
    /\ Answered(s, Frame("data", ch))
    /\ UNCHANGED <<client, sock, up, served, over, late, acts, bad>>

\* The source of a channel ends, which the browser is told with an error.
End(s, ch) ==
    /\ "end" \in Mishaps /\ bad < MaxBad /\ Answers(s) /\ ch \in served[s]
    /\ bad' = bad + 1
    /\ served' = [served EXCEPT ![s] = @ \ {ch}]
    /\ over' = [over EXCEPT ![s] = @ \cup {ch}]
    /\ Answered(s, Frame("err", ch))
    /\ UNCHANGED <<client, sock, up, late, acts>>

-----------------------------------------------------------------------------
Next ==
    \/ Login
    \/ Lock
    \/ \E v \in Views, ch \in Channels : Subscribe(v, ch) \/ Unsubscribe(v, ch)
    \/ Reconnect
    \/ Resend
    \/ \E s \in Socks :
        \/ OnOpen(s) \/ Closed(s) \/ Cut(s) \/ OnMessage(s)
        \/ Serve(s)
        \/ \E ch \in Channels : Push(s, ch) \/ End(s, ch)
    \/ acts = MaxActs /\ UNCHANGED vars   \* the bound

Spec == Init /\ [][Next]_vars

\* Timers fire, handshakes end, the server takes the frames of a socket in turn
\* with those of its channels.  Nothing is asked of the user or the sources.
Fairness ==
    /\ WF_vars(Reconnect) /\ WF_vars(Resend)
    /\ \A s \in Socks :
        WF_vars(OnOpen(s)) /\ WF_vars(Closed(s)) /\ WF_vars(OnMessage(s)) /\ SF_vars(Serve(s))

FairSpec == Spec /\ Fairness

-----------------------------------------------------------------------------
TypeOK ==
    /\ ws \in Socks \cup {None}
    /\ {locked, armed, confirming} \subseteq BOOLEAN /\ orphans \in Nat
    /\ listeners \in [Channels -> SUBSET Views] /\ confirmed \in [Channels -> BOOLEAN]
    /\ sock \in [Socks -> {"none", "connecting", "open", "closing", "done"}]
    /\ up \in [Socks -> Seq([kind : {"sub", "unsub"}, ch : Channels])]
    /\ down \in [Socks -> Seq([kind : {"resp", "data", "err"}, ch : Channels])]
    /\ served \in [Socks -> SUBSET Channels] /\ over \in [Socks -> SUBSET Channels]
    /\ late \in BOOLEAN

\* A page has one connection or one timeout that will make it, and none at all
\* while it is locked: nothing is delivered twice, and nothing after a lock.  Only
\* the end of an old socket that comes after the next login breaks this.
OneConnection ==
    late \/
    /\ \A s \in Socks : sock[s] \in {"connecting", "open"} => s = ws /\ ~locked
    /\ armed => ws = None /\ ~locked
    /\ orphans = 0

\* The server follows what the page shows: a channel with a listener is served on
\* the open connection until its source ends, whatever frames a proxy lost and
\* whatever connections broke, and one without is not.
ServerFollowsPage ==
    \A ch \in Channels :
        /\ (~locked /\ listeners[ch] # {})
            ~> (late \/ locked \/ listeners[ch] = {}
                     \/ (Sends /\ ch \in served[ws] \cup over[ws]))
        /\ listeners[ch] = {}
            ~> (late \/ listeners[ch] # {} \/ \A s \in Socks : ch \notin served[s])
=============================================================================
