----------------------------- MODULE AgentLink -----------------------------
(***************************************************************************)
(* An agent and its server: the agent dials, says hello, learns from which *)
(* time the server lacks its rows, and pushes them in batches, first the   *)
(* backlog, then the new ones.  It dials again when the connection ends.   *)
(* The server may learn of that end later than the agent, so the tasks of  *)
(* several connections of one agent may be alive at once.                  *)
(*                                                                         *)
(* A row is its key <<minute, series>>; the agent's rows of one minute     *)
(* appear together (one transaction per flush) and do not change.  A       *)
(* connection is a pair of bounded streams of frames and is used once.     *)
(***************************************************************************)
EXTENDS Integers, Sequences, FiniteSets

CONSTANTS
    MaxConn,    \* bound of the connections; the last one is not disturbed
    NSeries,    \* series of the agent
    MaxTs,      \* bound of the minutes the agent flushes
    Batch,      \* ROWS_PER_FRAME
    UpCap, DownCap,   \* frames a connection holds, to the server and back
    None,
    Faults      \* of "cut", "db", "restart"

ASSUME ConstantsAssumption ==
    /\ {MaxConn, NSeries, Batch, UpCap, DownCap} \subseteq Nat \ {0}
    /\ MaxTs \in Nat
    /\ None \notin Nat

Conns  == 1..MaxConn
Series == 1..NSeries
AllRows == (1..MaxTs) \X Series
Marks  == (-1..MaxTs) \X (Series \cup {NSeries + 1})

VARIABLES
    have,       \* the agent's m_1m
    snap,       \* a snapshot the connection has not sent yet, or 0
    apc,        \* the agent: backoff, hello, run, push
    conn,       \* its connection, None between two
    dialed,     \* how often it has dialed
    watermark,  \* (ts, series_id), of the connection
    up, down,   \* frames on the way, of each connection
    broken,     \* connections that ended before or without their agent
    spc,        \* the task of a connection at the server: none, hello, query,
                \* resume, loop, reply, gone
    since,      \* what it has read for the agent.resume
    connected,  \* Entry.connected of the node
    latest,     \* Entry.latest
    store,      \* the server's m_1m rows of the node
    failed      \* history: rows whose insert failed

agent  == <<have, snap, apc, conn, dialed, watermark>>
wire   == <<up, down, broken>>
server == <<spc, since, connected, latest, store, failed>>
vars   == <<agent, wire, server>>

Less(a, b)  == a[1] < b[1] \/ (a[1] = b[1] /\ a[2] < b[2])
NewestOf(rs) == CHOOSE r \in rs : \A q \in rs : q = r \/ Less(q, r)
NewestTs(rs) == IF rs = {} THEN 0 ELSE NewestOf(rs)[1]

Hello       == [kind |-> "hello"]
Resume(ts)  == [kind |-> "resume", since |-> ts]
Error       == [kind |-> "err"]
Rows(rs)    == [kind |-> "rows", rows |-> rs]
Snapshot(n) == [kind |-> "snapshot", n |-> n]

Room(q, cap) == Len(q) < cap

\* What is written to a connection that has ended goes nowhere.
Send(c, f)   == up' = IF c \in broken THEN up ELSE [up EXCEPT ![c] = Append(@, f)]
Answer(c, f) == down' = IF c \in broken THEN down ELSE [down EXCEPT ![c] = Append(@, f)]

\* Only connections before the last one may be disturbed.
MayFail(c, fault) == fault \in Faults /\ c < MaxConn

-----------------------------------------------------------------------------
(* The agent.                                                              *)

\* A minute is over: its rows are in the local table, and there is a snapshot, which
\* replaces the one that waits.
Flush ==
    /\ NewestTs(have) < MaxTs
    /\ have' = have \cup ({NewestTs(have) + 1} \X Series)
    /\ snap' = IF apc \in {"run", "push"} THEN NewestTs(have) + 1 ELSE 0
    /\ UNCHANGED <<apc, conn, dialed, watermark, wire, server>>

\* The backoff is over: dial and say hello.
Dial ==
    /\ apc = "backoff"
    /\ dialed < MaxConn
    /\ dialed' = dialed + 1
    /\ conn' = dialed'
    /\ apc' = "hello"
    /\ Send(conn', Hello)
    /\ spc' = [spc EXCEPT ![conn'] = "hello"]
    /\ UNCHANGED <<have, snap, watermark, down, broken, since, connected, latest, store, failed>>

\* A slip: rows of the minute the server has some rows of are taken as sent.
StartAfter(ts) == <<ts, NSeries + 1>>

\* The first row that is wanted is the first one of `ts' itself.
StartFrom(ts) == <<ts - 1, NSeries + 1>>

GetResume ==
    /\ apc = "hello"
    /\ down[conn] # << >>
    /\ down' = [down EXCEPT ![conn] = Tail(@)]
    /\ IF Head(down[conn]).kind = "resume"
       THEN /\ watermark' = StartFrom(Head(down[conn]).since)
            /\ apc' = "run"
       ELSE UNCHANGED <<watermark, apc>>
    /\ UNCHANGED <<have, snap, conn, dialed, up, broken, server>>

\* The tick of sync_interval.
SyncTick ==
    /\ apc = "run"
    /\ apc' = "push"
    /\ UNCHANGED <<have, snap, conn, dialed, watermark, wire, server>>

Todo   == {r \in have : Less(watermark, r)}
\* A slip: pages by the minute alone.
ExportByMinute ==
    LET newer == {r \in have : r[1] > watermark[1]} IN
    {r \in newer : Cardinality({q \in newer : Less(q, r)}) < Batch}

Export == {r \in Todo : Cardinality({q \in Todo : Less(q, r)}) < Batch}
\* One batch after the other until one is not full.  Meanwhile the agent does not read.
PushRows ==
    /\ apc = "push" /\ Export # {}
    /\ Room(up[conn], UpCap)
    /\ Send(conn, Rows(Export))
    /\ watermark' = NewestOf(Export)
    /\ apc' = IF Cardinality(Export) = Batch THEN "push" ELSE "run"
    /\ UNCHANGED <<have, snap, conn, dialed, down, broken, server>>

PushNothing ==
    /\ apc = "push" /\ Export = {}
    /\ apc' = "run"
    /\ UNCHANGED <<have, snap, conn, dialed, watermark, wire, server>>

PushSnapshot ==
    /\ apc = "run" /\ snap # 0
    /\ Room(up[conn], UpCap)
    /\ Send(conn, Snapshot(snap))
    /\ snap' = 0
    /\ UNCHANGED <<have, apc, conn, dialed, watermark, down, broken, server>>

\* An error the server reports says nothing to the agent.
Ignore ==
    /\ apc = "run"
    /\ down[conn] # << >>
    /\ down' = [down EXCEPT ![conn] = Tail(@)]
    /\ UNCHANGED <<agent, up, broken, server>>

\* The connection is dropped, on both sides; the agent waits before the next one.
HangUp ==
    /\ apc' = "backoff"
    /\ conn' = None
    /\ broken' = broken \cup {conn}
    /\ snap' = 0
    /\ UNCHANGED <<have, dialed, watermark, up, down, server>>

\* A read or a write fails, or the answer to the hello does not come in time.
Lost == conn \in broken /\ HangUp
ResumeTimeout == apc = "hello" /\ MayFail(conn, "cut") /\ HangUp

\* The agent ends and starts again.
AgentRestart == conn # None /\ MayFail(conn, "restart") /\ HangUp

\* The network loses the connection, and with it the last frames on the way.
Cut(c) ==
    /\ MayFail(c, "cut") /\ c <= dialed /\ c \notin broken
    /\ broken' = broken \cup {c}
    /\ \E n \in 0..Len(up[c]) : up' = [up EXCEPT ![c] = SubSeq(@, 1, n)]
    /\ UNCHANGED <<agent, down, server>>

-----------------------------------------------------------------------------
(* The server.                                                             *)

\* The frame is the first one; its node is that of the token.
Accept(c) ==
    /\ spc[c] = "hello" /\ up[c] # << >>
    /\ up' = [up EXCEPT ![c] = Tail(@)]
    /\ connected' = TRUE
    /\ spc' = [spc EXCEPT ![c] = "query"]
    /\ UNCHANGED <<agent, down, broken, since, latest, store, failed>>

\* A slip: an end that leaves the registry alone.
StayConnected == UNCHANGED connected

\* What every end of `serve' does with the registry.
Disconnect == connected' = FALSE

End(c) ==
    /\ Disconnect
    /\ spc' = [spc EXCEPT ![c] = "gone"]
    /\ UNCHANGED <<agent, since, latest, store, failed>>

\* tier_max_ts of m_1m.
MaxStored == NewestTs(store)

Query(c) ==
    /\ spc[c] = "query"
    /\ since' = [since EXCEPT ![c] = MaxStored]
    /\ spc' = [spc EXCEPT ![c] = "resume"]
    /\ UNCHANGED <<agent, wire, connected, latest, store, failed>>

QueryFails(c) ==
    /\ spc[c] = "query" /\ MayFail(c, "db")
    /\ broken' = broken \cup {c}
    /\ End(c)
    /\ UNCHANGED <<up, down>>

SendResume(c) ==
    /\ spc[c] = "resume" /\ Room(down[c], DownCap)
    /\ Answer(c, Resume(since[c]))
    /\ spc' = [spc EXCEPT ![c] = "loop"]
    /\ UNCHANGED <<agent, up, broken, since, connected, latest, store, failed>>

Ready(c, kind) == spc[c] = "loop" /\ up[c] # << >> /\ Head(up[c]).kind = kind
Take(c)        == up' = [up EXCEPT ![c] = Tail(@)]

\* A frame of rows is one transaction.
ApplyRows(c) ==
    /\ Ready(c, "rows")
    /\ Take(c)
    /\ store' = store \cup Head(up[c]).rows
    /\ UNCHANGED <<agent, down, broken, spc, since, connected, latest, failed>>

\* A frame that fails is answered by an error; the connection goes on.
ApplyFails(c) ==
    /\ Ready(c, "rows") /\ "db" \in Faults /\ failed = {}
    /\ Take(c)
    /\ failed' = failed \cup Head(up[c]).rows
    /\ spc' = [spc EXCEPT ![c] = "reply"]
    /\ UNCHANGED <<agent, down, broken, since, connected, latest, store>>

\* Whether it could be sent is not asked.
SendError(c) ==
    /\ spc[c] = "reply"
    /\ \/ Room(down[c], DownCap) /\ Answer(c, Error)
       \/ c \in broken /\ UNCHANGED down
    /\ spc' = [spc EXCEPT ![c] = "loop"]
    /\ UNCHANGED <<agent, up, broken, since, connected, latest, store, failed>>

Publish(c) ==
    /\ Ready(c, "snapshot")
    /\ Take(c)
    /\ latest' = Head(up[c]).n
    /\ UNCHANGED <<agent, down, broken, spc, since, connected, store, failed>>

\* The end of the connection, behind all that it has delivered.
Ended(c) ==
    /\ c \in broken
    /\ spc[c] = "resume" \/ (spc[c] = "loop" /\ up[c] = << >>)
    /\ End(c)
    /\ UNCHANGED wire

\* A connection that ends before its hello was never known.
EndedEarly(c) ==
    /\ c \in broken
    /\ spc[c] = "hello" /\ up[c] = << >>
    /\ spc' = [spc EXCEPT ![c] = "gone"]
    /\ UNCHANGED <<agent, wire, since, connected, latest, store, failed>>

\* The server ends and starts again: tasks and registry are gone, the tables stay.
ServerRestart ==
    /\ "restart" \in Faults /\ dialed < MaxConn
    /\ \E c \in Conns : spc[c] \notin {"none", "gone"}
    /\ spc' = [c \in Conns |-> IF c <= dialed THEN "gone" ELSE "none"]
    /\ broken' = broken \cup 1..dialed
    /\ up' = [c \in Conns |-> << >>]
    /\ connected' = FALSE
    /\ latest' = 0
    /\ UNCHANGED <<agent, down, since, store, failed>>

-----------------------------------------------------------------------------
Init ==
    /\ have = {} /\ snap = 0
    /\ apc = "backoff" /\ conn = None /\ dialed = 0
    /\ watermark = <<-1, NSeries + 1>>
    /\ up = [c \in Conns |-> << >>] /\ down = [c \in Conns |-> << >>]
    /\ broken = {}
    /\ spc = [c \in Conns |-> "none"]
    /\ since = [c \in Conns |-> 0]
    /\ connected = FALSE /\ latest = 0
    /\ store = {} /\ failed = {}

AgentStep ==
    \/ Dial \/ GetResume \/ SyncTick \/ PushRows \/ PushNothing \/ PushSnapshot
    \/ Ignore \/ Lost

Handle(c) ==
    \/ Accept(c) \/ Query(c) \/ SendResume(c) \/ SendError(c) \/ Publish(c)
    \/ ApplyRows(c)

ServerStep(c) ==
    Handle(c) \/ QueryFails(c) \/ ApplyFails(c) \/ Ended(c) \/ EndedEarly(c)

Next ==
    \/ Flush \/ AgentStep
    \/ ResumeTimeout \/ AgentRestart \/ ServerRestart
    \/ \E c \in Conns : Cut(c) \/ ServerStep(c)

Spec == Init /\ [][Next]_vars

\* The agent's task goes on and notices the end of its connection; so do the
\* tasks of the server, which need not notice it.  No minute has to come.
Fairness ==
    /\ WF_vars(Dial) /\ WF_vars(GetResume) /\ WF_vars(SyncTick)
    /\ WF_vars(PushRows) /\ WF_vars(PushNothing) /\ WF_vars(Lost)
    /\ \A c \in Conns : WF_vars(Handle(c))

FairSpec == Spec /\ Fairness

-----------------------------------------------------------------------------
UpFrames ==
    {Hello} \cup [kind : {"rows"}, rows : SUBSET AllRows] \cup [kind : {"snapshot"}, n : 1..MaxTs]

DownFrames == {Error} \cup [kind : {"resume"}, since : 0..MaxTs]

TypeOK ==
    /\ have \in SUBSET AllRows /\ store \in SUBSET AllRows /\ failed \in SUBSET AllRows
    /\ snap \in 0..MaxTs /\ latest \in 0..MaxTs
    /\ apc \in {"backoff", "hello", "run", "push"}
    /\ conn \in Conns \cup {None} /\ dialed \in 0..MaxConn
    /\ apc = "backoff" <=> conn = None
    /\ watermark \in Marks
    /\ up \in [Conns -> Seq(UpFrames)] /\ down \in [Conns -> Seq(DownFrames)]
    /\ \A c \in Conns : Len(up[c]) <= UpCap /\ Len(down[c]) <= DownCap
    /\ broken \subseteq Conns
    /\ spc \in [Conns -> {"none", "hello", "query", "resume", "loop", "reply", "gone"}]
    /\ since \in [Conns -> 0..MaxTs]
    /\ connected \in BOOLEAN

\* Tasks that have added themselves to the registry and not left it.
Serving == {c \in Conns : spc[c] \in {"query", "resume", "loop", "reply"}}

\* Rows on the way in a connection.
InFlight(c) ==
    UNION {up[c][i].rows : i \in {j \in 1..Len(up[c]) : up[c][j].kind = "rows"}}

(* `online': a node is shown as online only while a task serves it, whichever*)
(* way the tasks of its earlier connections, or the server, have ended.      *)
OnlineIsBacked == connected => Serving # {}

\* The same, with every stream and every mark within its bounds.
OnlineHasServer == TypeOK /\ OnlineIsBacked

(* client.rs: sends are not kept account of.  Whatever a connection has moved *)
(* its watermark past is at the server, or on the way to it in this very      *)
(* connection, or an insert of it has failed there.                          *)
WatermarkIsBacked ==
    apc \in {"run", "push"} /\ conn \notin broken =>
        \A r \in have : ~Less(watermark, r) => r \in store \cup failed \cup InFlight(conn)

(* `tier_max_ts' is all that the next connection starts from: there is no gap *)
(* below the server's newest minute, although minutes are cut into frames and *)
(* old connections may still deliver theirs.                                  *)
NoGap ==
    \A r \in have : r[1] < MaxStored => r \in store \cup failed

(* The server catches up with the agent again and again, however often the    *)
(* connection or the server ends, unless an insert fails.                     *)
Delivered == []<>(have \subseteq store \/ failed # {})

-----------------------------------------------------------------------------
(* `online': whether there is a living connection at this moment.  Refuted:   *)
(* the late end of an old connection hides the new one.                       *)
OnlineIsTrue == Serving # {} => connected
=============================================================================
