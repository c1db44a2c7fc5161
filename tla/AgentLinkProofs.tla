--------------------------- MODULE AgentLinkProofs ---------------------------
(***************************************************************************)
(* The agent and its server for any number of connections, series and      *)
(* minutes, any size of a batch and of the streams: no row is passed over, *)
(* and no node is online without a task that serves it.                    *)
(*                                                                         *)
(* NoGap is about the rows at the server alone and says nothing of what    *)
(* several connections still carry.  Each frame on the way has to be       *)
(* backed in its own right: what is older than its rows is at the server,  *)
(* or before it in the same connection (FramesAreBacked).  A frame is cut  *)
(* from what lies behind a watermark, so that needs WatermarkIsBacked; and *)
(* a watermark starts where an agent.resume says, so what is older than    *)
(* such a time must be at the server as long as it is on its way           *)
(* (ResumesAreBacked).                                                     *)
(***************************************************************************)
EXTENDS AgentLink, FiniteSetTheorems, TLAPS

\* The frame i of a connection carries the row.
Carries(c, i, r) == up[c][i].kind = "rows" /\ r \in up[c][i].rows

\* At the server, or lost there by an insert that failed.
Arrived(r) == r \in store \cup failed

\* Minutes are flushed one after the other, as a whole.
MinutesAreWhole == have = (1..NewestTs(have)) \X Series

\* Whatever is on the way or at the server is the agent's.
RowsAreTheAgents ==
    /\ store \subseteq have /\ failed \subseteq have
    /\ \A c \in Conns : \A i \in 1..Len(up[c]) : \A r \in AllRows : Carries(c, i, r) => r \in have

\* Connections are dialed in their order and used from then on.  A server that has not
\* taken the hello was sent nothing else and has sent nothing.
ConnectionsAreInOrder ==
    /\ \A c \in Conns :
        /\ spc[c] = "none" <=> c > dialed
        /\ spc[c] = "none" => up[c] = << >>
        /\ spc[c] = "hello" => \A i \in 1..Len(up[c]) : up[c][i].kind = "hello"
        /\ spc[c] \in {"none", "hello"} => down[c] = << >>
    /\ apc \in {"run", "push"} => spc[conn] \notin {"none", "hello"}

\* Everything older than the time has arrived.
BackedTime(ts) ==
    /\ ts <= NewestTs(have)
    /\ \A r \in have : r[1] < ts => Arrived(r)

\* A time the server has read, or sent with an agent.resume, stays one that all older
\* rows have arrived for.
ResumesAreBacked ==
    \A c \in Conns :
        /\ spc[c] = "resume" => BackedTime(since[c])
        /\ \A i \in 1..Len(down[c]) : down[c][i].kind = "resume" => BackedTime(down[c][i].since)

\* What is older than a row on the way has arrived or comes before it.
FramesAreBacked ==
    \A c \in Conns : \A i \in 1..Len(up[c]) : \A q, r \in have :
        Carries(c, i, q) /\ Less(r, q) => Arrived(r) \/ \E j \in 1..i : Carries(c, j, r)

\* NoGap, of every row at the server instead of the newest.
StoreIsBacked == \A q \in store, r \in have : r[1] < q[1] => Arrived(r)

\* No watermark is ahead of what there is.
WatermarkIsPast == apc \in {"run", "push"} => watermark[1] <= NewestTs(have)

IInv ==
    /\ OnlineHasServer
    /\ MinutesAreWhole /\ RowsAreTheAgents /\ ConnectionsAreInOrder
    /\ ResumesAreBacked /\ FramesAreBacked /\ StoreIsBacked
    /\ WatermarkIsPast /\ WatermarkIsBacked

-----------------------------------------------------------------------------
(* The newest of some rows.                                                *)

\* A bounded set of numbers has a greatest one.
LEMMA GreatestExists ==
    ASSUME NEW S, S \subseteq Nat, S # {}, NEW b \in Nat, \A x \in S : x <= b
    PROVE  \E m \in S : \A x \in S : x <= m
  <1> DEFINE T == {n \in Nat : \E x \in S : n = b - x}
             R == {p \in Nat \X Nat : p[1] < p[2]}
  <1>1. T \subseteq Nat /\ T # {}
    <2>1. PICK x \in S : TRUE
      OBVIOUS
    <2>2. b - x \in T
      BY <2>1
    <2> QED
      BY <2>2
  <1>2. PICK n \in T : \A k \in T : <<k, n>> \notin R
    <2>1. IsWellFoundedOn(R, Nat)
      BY NatLessThanWellFounded DEF OpToRel
    <2> HIDE DEF T, R
    <2> QED
      BY <1>1, <2>1, WFMin
  <1>3. \A k \in T : n <= k
    <2>1. \A k, l \in Nat : <<k, l>> \notin R => l <= k
      OBVIOUS
    <2> HIDE DEF T, R
    <2> QED
      BY <1>1, <1>2, <2>1
  <1>4. PICK m \in S : n = b - m
    BY <1>2
  <1>5. \A x \in S : x <= m
    <2> TAKE x \in S
    <2>1. b - x \in T
      OBVIOUS
    <2> QED
      BY <1>3, <1>4, <2>1
  <1> QED
    BY <1>5

\* The newest row is one of them, and no other is newer.
LEMMA NewestIsNewest ==
    ASSUME NEW rs, rs \subseteq AllRows, rs # {}
    PROVE  NewestOf(rs) \in rs /\ \A q \in rs : q = NewestOf(rs) \/ Less(q, NewestOf(rs))
  <1> USE ConstantsAssumption DEF AllRows, Series
  <1> DEFINE minutes == {q[1] : q \in rs}
  <1>1. minutes \subseteq Nat /\ minutes # {} /\ \A x \in minutes : x <= MaxTs
    OBVIOUS
  <1>2. PICK m \in minutes : \A x \in minutes : x <= m
    <2> HIDE DEF minutes
    <2> QED
      BY <1>1, GreatestExists
  <1> DEFINE last == {k \in Series : <<m, k>> \in rs}
  <1>3. last \subseteq Nat /\ last # {} /\ \A x \in last : x <= NSeries
    BY <1>2
  <1>4. PICK k \in last : \A x \in last : x <= k
    <2> HIDE DEF last
    <2> QED
      BY <1>3, GreatestExists
  <1>5. <<m, k>> \in rs /\ \A q \in rs : q = <<m, k>> \/ Less(q, <<m, k>>)
    <2> SUFFICES ASSUME NEW q \in rs
                 PROVE  q = <<m, k>> \/ Less(q, <<m, k>>)
      BY <1>4
    <2>1. q = <<q[1], q[2]>> /\ q[1] \in Nat /\ q[2] \in Series /\ q[1] <= m
      BY <1>2
    <2>2. CASE q[1] = m
      BY <1>4, <2>1, <2>2 DEF Less
    <2> QED
      BY <1>1, <1>2, <2>1, <2>2 DEF Less
  <1> QED
    BY <1>5 DEF NewestOf

\* The newest minute of some rows.
LEMMA NewestMinute ==
    ASSUME NEW rs, rs \subseteq AllRows
    PROVE  /\ NewestTs(rs) \in 0..MaxTs
           /\ \A q \in rs : q[1] \in 1..MaxTs /\ q[1] <= NewestTs(rs)
           /\ rs # {} => \E q \in rs : q[1] = NewestTs(rs)
  <1>1. CASE rs = {}
    BY <1>1, ConstantsAssumption DEF NewestTs
  <1>2. CASE rs # {}
    <2>1. NewestTs(rs) = NewestOf(rs)[1] /\ NewestOf(rs) \in rs
      BY <1>2, NewestIsNewest DEF NewestTs
    <2>2. \A q \in rs : q[1] \in 1..MaxTs
      BY DEF AllRows
    <2>3. \A q \in rs : q[1] <= NewestOf(rs)[1]
      BY <1>2, <2>1, <2>2, NewestIsNewest, ConstantsAssumption DEF Less
    <2> QED
      BY <2>1, <2>2, <2>3, ConstantsAssumption
  <1> QED
    BY <1>1, <1>2

\* The newest of whole minutes.
LEMMA NewestOfWhole ==
    ASSUME NEW n \in 0..MaxTs
    PROVE  NewestTs((1..n) \X Series) = n
  <1> DEFINE rs == (1..n) \X Series
  <1>1. rs \subseteq AllRows /\ \A q \in rs : q[1] <= n
    BY ConstantsAssumption DEF AllRows, Series
  <1>2. n > 0 => <<n, 1>> \in rs
    BY ConstantsAssumption DEF Series
  <1>3. n = 0 => rs = {}
    BY ConstantsAssumption
  <1>4. n > 0 => n <= NewestTs(rs)
    <2> HIDE DEF rs
    <2>1. \A q \in rs : q[1] <= NewestTs(rs)
      BY <1>1, NewestMinute
    <2> QED
      BY <1>2, <2>1
  <1>5. NewestTs(rs) \in Nat /\ (NewestTs(rs) <= n)
    <2> HIDE DEF rs
    <2>1. CASE rs = {}
      BY <2>1, ConstantsAssumption DEF NewestTs
    <2> QED
      BY <1>1, <2>1, NewestMinute
  <1> QED
    BY <1>3, <1>4, <1>5

\* A batch takes the oldest rows first: what is wanted and older than one of its rows is
\* in it.
LEMMA ExportIsPrefix ==
    ASSUME TypeOK, NEW q \in Export, NEW r \in have, Less(watermark, r), Less(r, q)
    PROVE  r \in Export
  <1>1. IsFiniteSet(AllRows)
    <2>1. IsFiniteSet(1..MaxTs) /\ IsFiniteSet(Series)
      BY FS_Interval, ConstantsAssumption DEF Series
    <2> QED
      BY <2>1, FS_Product DEF AllRows
  <1> DEFINE older(x) == {p \in Todo : Less(p, x)}
  <1>2. q \in Todo /\ r \in Todo /\ Todo \subseteq AllRows /\ Cardinality(older(q)) < Batch
    BY DEF Export, Todo, TypeOK
  <1>3. older(r) \subseteq older(q)
    <2> SUFFICES ASSUME NEW p \in Todo, Less(p, r)
                 PROVE  Less(p, q)
      OBVIOUS
    <2> QED
      BY <1>2, ConstantsAssumption DEF Less, AllRows, Series
  <1>4. IsFiniteSet(older(q)) /\ IsFiniteSet(older(r))
    BY <1>1, <1>2, FS_Subset
  <1>5. Cardinality(older(r)) <= Cardinality(older(q))
    BY <1>3, <1>4, FS_Subset
  <1>6. Cardinality(older(r)) \in Nat /\ Cardinality(older(q)) \in Nat
    BY <1>4, FS_CardinalityType
  <1>7. Cardinality(older(r)) < Batch
    BY <1>2, <1>5, <1>6, ConstantsAssumption
  <1> QED
    BY <1>2, <1>7 DEF Export

\* What a connection carries.
LEMMA InFlightIsCarried ==
    ASSUME TypeOK, NEW c \in Conns, NEW r
    PROVE  r \in InFlight(c) <=> \E i \in 1..Len(up[c]) : Carries(c, i, r)
  BY DEF InFlight, Carries

-----------------------------------------------------------------------------
(* What happens to the frames of one connection while the others stay.     *)

UpOK == up \in [Conns -> Seq(UpFrames)] /\ \A c \in Conns : Len(up[c]) <= UpCap

\* The first frame is taken: the others move up.
LEMMA TakeMovesUp ==
    ASSUME UpOK, NEW c \in Conns, up[c] # << >>, Take(c)
    PROVE  /\ UpOK'
           /\ Head(up[c]) = up[c][1] /\ 1 \in 1..Len(up[c])
           /\ Len(up'[c]) = Len(up[c]) - 1
           /\ \A i \in 1..Len(up'[c]) : i + 1 \in 1..Len(up[c]) /\ up'[c][i] = up[c][i + 1]
           /\ \A d \in Conns \ {c} : up'[d] = up[d]
  <1>1. up[c] \in Seq(UpFrames) /\ Len(up[c]) \in Nat \ {0}
    BY DEF UpOK
  <1>2. up'[c] = Tail(up[c]) /\ \A d \in Conns \ {c} : up'[d] = up[d]
    BY DEF Take, UpOK
  <1>3. up' \in [Conns -> Seq(UpFrames)]
    BY <1>1 DEF Take, UpOK
  <1> QED
    BY <1>1, <1>2, <1>3, ConstantsAssumption DEF UpOK

\* A frame is sent: it comes last.
LEMMA SendAddsLast ==
    ASSUME UpOK, NEW c \in Conns \ broken, NEW f \in UpFrames, Len(up[c]) < UpCap, Send(c, f)
    PROVE  /\ UpOK'
           /\ Len(up'[c]) = Len(up[c]) + 1 /\ up'[c][Len(up[c]) + 1] = f
           /\ \A i \in 1..Len(up[c]) : up'[c][i] = up[c][i]
           /\ \A d \in Conns \ {c} : up'[d] = up[d]
  <1>1. up[c] \in Seq(UpFrames) /\ Len(up[c]) \in Nat
    BY DEF UpOK
  <1>2. up'[c] = Append(up[c], f) /\ \A d \in Conns \ {c} : up'[d] = up[d]
    BY DEF Send, UpOK
  <1>3. up' \in [Conns -> Seq(UpFrames)]
    BY <1>1 DEF Send, UpOK
  <1>4. /\ Len(up'[c]) = Len(up[c]) + 1 /\ up'[c][Len(up[c]) + 1] = f
        /\ \A i \in 1..Len(up[c]) : up'[c][i] = up[c][i]
    BY <1>1, <1>2
  <1>5. \A d \in Conns : Len(up'[d]) <= UpCap
    BY <1>1, <1>2, <1>4, ConstantsAssumption DEF UpOK
  <1> QED
    BY <1>2, <1>3, <1>4, <1>5 DEF UpOK

\* The last frames are lost: the others stay.
LEMMA CutKeepsFirst ==
    ASSUME UpOK, NEW c \in Conns, NEW n \in 0..Len(up[c]),
           up' = [up EXCEPT ![c] = SubSeq(@, 1, n)]
    PROVE  /\ UpOK'
           /\ Len(up'[c]) = n
           /\ \A i \in 1..n : up'[c][i] = up[c][i]
           /\ \A d \in Conns \ {c} : up'[d] = up[d]
  <1>1. up[c] \in Seq(UpFrames) /\ Len(up[c]) \in Nat
    BY DEF UpOK
  <1>2. up'[c] = SubSeq(up[c], 1, n) /\ \A d \in Conns \ {c} : up'[d] = up[d]
    BY DEF UpOK
  <1>3. SubSeq(up[c], 1, n) \in Seq(UpFrames) /\ Len(SubSeq(up[c], 1, n)) = n
    BY <1>1
  <1>4. up' \in [Conns -> Seq(UpFrames)]
    BY <1>3 DEF UpOK
  <1>5. \A i \in 1..n : up'[c][i] = up[c][i]
    BY <1>1, <1>2
  <1> QED
    BY <1>1, <1>2, <1>3, <1>4, <1>5, ConstantsAssumption DEF UpOK

-----------------------------------------------------------------------------
(* The rows of those frames.                                               *)

\* What is said of the rows on the way and of the watermark.
Flow == FramesAreBacked /\ RowsAreTheAgents /\ WatermarkIsBacked

\* A frame can be taken once its rows have arrived.
LEMMA TakeKeepsFlow ==
    ASSUME TypeOK, TypeOK', Flow, NEW c \in Conns, up[c] # << >>, Take(c),
           UNCHANGED <<have, apc, conn, watermark, broken>>,
           store \subseteq store' /\ failed \subseteq failed' /\ store' \cup failed' \subseteq have,
           \A r \in have : Carries(c, 1, r) => r \in store' \cup failed'
    PROVE  Flow'
  <1>1. UpOK
    BY DEF TypeOK, UpOK
  <1>2. /\ Len(up'[c]) = Len(up[c]) - 1
        /\ \A i \in 1..Len(up'[c]) : i + 1 \in 1..Len(up[c]) /\ up'[c][i] = up[c][i + 1]
        /\ \A d \in Conns \ {c} : up'[d] = up[d]
    BY <1>1, TakeMovesUp
  <1>3. \A d \in Conns : Len(up[d]) \in Nat /\ Len(up'[d]) \in Nat
    BY SMTT(30) DEF TypeOK
  <1>4. /\ \A i \in 1..Len(up'[c]) : \A r : Carries(c, i, r)' <=> Carries(c, i + 1, r)
        /\ \A d \in Conns \ {c} : \A i : \A r : Carries(d, i, r)' <=> Carries(d, i, r)
    BY <1>2 DEF Carries
  <1>5. RowsAreTheAgents'
    BY <1>2, <1>4 DEF Flow, RowsAreTheAgents
  <1>6. ASSUME NEW r \in have, NEW i \in 1..Len(up[c]), Carries(c, i, r), r \notin store' \cup failed'
        PROVE  i - 1 \in 1..Len(up'[c]) /\ Carries(c, i - 1, r)'
    <2>1. i # 1
      BY <1>6
    <2>2. i - 1 \in 1..Len(up'[c]) /\ (i - 1) + 1 = i
      BY <1>2, <1>3, <2>1
    <2> QED
      BY <1>4, <1>6, <2>2
  <1>7. FramesAreBacked'
    <2> SUFFICES ASSUME NEW d \in Conns, NEW i \in 1..Len(up'[d]), NEW q \in have, NEW r \in have,
                        Carries(d, i, q)', Less(r, q), r \notin store' \cup failed'
                 PROVE  \E j \in 1..i : Carries(d, j, r)'
      BY DEF FramesAreBacked, Arrived
    <2>1. CASE d # c
      BY <1>2, <1>4, <2>1 DEF Flow, FramesAreBacked, Arrived
    <2>2. CASE d = c
      <3>1. PICK j \in 1..(i + 1) : Carries(c, j, r)
        BY <1>2, <1>4, <2>2 DEF Flow, FramesAreBacked, Arrived
      <3>2. j \in 1..Len(up[c])
        BY <1>2, <1>3, <2>2
      <3>3. j - 1 \in 1..Len(up'[c]) /\ Carries(c, j - 1, r)'
        BY <1>6, <3>1, <3>2
      <3>4. j - 1 \in 1..i
        BY <1>3, <2>2, <3>1, <3>3
      <3> QED
        BY <2>2, <3>3, <3>4
    <2> QED
      BY <2>1, <2>2
  <1>8. WatermarkIsBacked'
    <2> SUFFICES ASSUME apc \in {"run", "push"}, conn \notin broken,
                        NEW r \in have, ~Less(watermark, r), r \notin store' \cup failed'
                 PROVE  r \in InFlight(conn)'
      BY DEF WatermarkIsBacked
    <2>1. conn \in Conns
      BY DEF TypeOK
    <2>2. PICK i \in 1..Len(up[conn]) : Carries(conn, i, r)
      BY <2>1, InFlightIsCarried DEF Flow, WatermarkIsBacked
    <2>3. \E j \in 1..Len(up'[conn]) : Carries(conn, j, r)'
      BY <1>2, <1>4, <1>6, <2>1, <2>2
    <2> QED
      BY <2>1, <2>3 DEF InFlight, Carries, TypeOK
  <1> QED
    BY <1>5, <1>7, <1>8 DEF Flow

\* A frame can be sent if what is older than its rows has arrived, or is on the way in front
\* of it or in it.
LEMMA SendKeepsFrames ==
    ASSUME TypeOK, FramesAreBacked, RowsAreTheAgents,
           NEW c \in Conns \ broken, NEW f \in UpFrames, Len(up[c]) < UpCap, Send(c, f),
           UNCHANGED <<have, store, failed>>,
           f.kind = "rows" =>
               /\ f.rows \subseteq have
               /\ \A q \in f.rows, r \in have : Less(r, q) =>
                   Arrived(r) \/ r \in f.rows \/ \E j \in 1..Len(up[c]) : Carries(c, j, r)
    PROVE  /\ FramesAreBacked' /\ RowsAreTheAgents'
           /\ \A r : r \in InFlight(c) \/ (f.kind = "rows" /\ r \in f.rows) => r \in InFlight(c)'
  <1>1. UpOK
    BY DEF TypeOK, UpOK
  <1>0. PICK n \in Nat : n = Len(up[c])
    BY DEF TypeOK
  <1>2. /\ Len(up'[c]) = n + 1 /\ up'[c][n + 1] = f
        /\ \A i \in 1..n : up'[c][i] = up[c][i]
        /\ \A d \in Conns \ {c} : up'[d] = up[d]
    BY <1>1, <1>0, SendAddsLast
  <1>3. \A d \in Conns : Len(up[d]) \in Nat
    BY DEF TypeOK
  <1>4. /\ \A i \in 1..n : \A r : Carries(c, i, r)' <=> Carries(c, i, r)
        /\ \A r : Carries(c, n + 1, r)' <=> f.kind = "rows" /\ r \in f.rows
        /\ \A d \in Conns \ {c} : \A i : \A r : Carries(d, i, r)' <=> Carries(d, i, r)
    BY <1>2 DEF Carries
  <1>5. \A i \in 1..Len(up'[c]) : i \in 1..n \/ i = n + 1
    BY <1>2, <1>3
  <1>6. \A i \in 1..n : i \in 1..Len(up'[c])
    BY <1>2, <1>3
  <1>7. RowsAreTheAgents'
    BY <1>0, <1>2, <1>4, <1>5 DEF RowsAreTheAgents
  <1>8. FramesAreBacked'
    <2> SUFFICES ASSUME NEW d \in Conns, NEW i \in 1..Len(up'[d]), NEW q \in have, NEW r \in have,
                        Carries(d, i, q)', Less(r, q), ~Arrived(r)
                 PROVE  \E j \in 1..i : Carries(d, j, r)'
      BY DEF FramesAreBacked, Arrived
    <2>1. CASE d # c
      BY <1>2, <1>4, <2>1 DEF FramesAreBacked
    <2>2. CASE d = c /\ i \in 1..n
      <3>1. PICK j \in 1..i : Carries(c, j, r)
        BY <1>0, <1>4, <2>2 DEF FramesAreBacked
      <3>2. j \in 1..n
        BY <1>3, <2>2
      <3> QED
        BY <1>4, <2>2, <3>1, <3>2
    <2>3. CASE d = c /\ i = n + 1
      <3>1. r \in f.rows \/ \E j \in 1..n : Carries(c, j, r)
        BY <1>0, <1>4, <2>3
      <3>2. i \in 1..i /\ \A j \in 1..n : j \in 1..i
        BY <1>3, <2>3
      <3> QED
        BY <1>4, <2>3, <3>1, <3>2
    <2> QED
      BY <1>5, <2>1, <2>2, <2>3
  <1>9. n + 1 \in 1..Len(up'[c])
    BY <1>2, <1>3
  <1>10. ASSUME NEW r, r \in InFlight(c) \/ (f.kind = "rows" /\ r \in f.rows)
         PROVE  r \in InFlight(c)'
    <2>1. \E i \in 1..Len(up'[c]) : Carries(c, i, r)'
      BY <1>0, <1>4, <1>6, <1>9, <1>10, InFlightIsCarried
    <2> QED
      BY <2>1 DEF InFlight, Carries
  <1> QED
    BY <1>7, <1>8, <1>10

\* What the network loses is the end of what a connection carries, and nobody relies on
\* the connection any more.
LEMMA CutKeepsFlow ==
    ASSUME TypeOK, Flow, NEW c \in Conns, NEW n \in 0..Len(up[c]),
           up' = [up EXCEPT ![c] = SubSeq(@, 1, n)], broken' = broken \cup {c},
           UNCHANGED <<have, apc, conn, watermark, store, failed>>
    PROVE  Flow'
  <1>1. UpOK
    BY DEF TypeOK, UpOK
  <1>2. /\ Len(up'[c]) = n
        /\ \A i \in 1..n : up'[c][i] = up[c][i]
        /\ \A d \in Conns \ {c} : up'[d] = up[d]
    BY <1>1, CutKeepsFirst
  <1>3. \A d \in Conns : Len(up[d]) \in Nat
    BY DEF TypeOK
  <1>4. \A d \in Conns : \A i \in 1..Len(up'[d]) :
            i \in 1..Len(up[d]) /\ \A r : Carries(d, i, r)' <=> Carries(d, i, r)
    BY <1>2, <1>3 DEF Carries
  <1>5. RowsAreTheAgents'
    BY <1>4 DEF Flow, RowsAreTheAgents
  <1>6. FramesAreBacked'
    <2> SUFFICES ASSUME NEW d \in Conns, NEW i \in 1..Len(up'[d]), NEW q \in have, NEW r \in have,
                        Carries(d, i, q)', Less(r, q), ~Arrived(r)
                 PROVE  \E j \in 1..i : Carries(d, j, r)'
      BY DEF FramesAreBacked, Arrived
    <2>1. PICK j \in 1..i : Carries(d, j, r)
      BY <1>4 DEF Flow, FramesAreBacked
    <2>2. Len(up'[d]) \in Nat
      BY <1>2, <1>3
    <2>3. j \in 1..Len(up'[d])
      BY <2>2
    <2> QED
      BY <1>4, <2>1, <2>3
  <1>7. WatermarkIsBacked'
    <2> SUFFICES ASSUME apc \in {"run", "push"}, conn \notin broken \cup {c},
                        NEW r \in have, ~Less(watermark, r)
                 PROVE  r \in store \cup failed \cup InFlight(conn)'
      BY DEF WatermarkIsBacked
    <2>1. conn \in Conns \ {c}
      BY DEF TypeOK
    <2>2. InFlight(conn)' = InFlight(conn)
      BY <1>2, <2>1 DEF InFlight
    <2> QED
      BY <2>2 DEF Flow, WatermarkIsBacked
  <1> QED
    BY <1>5, <1>6, <1>7 DEF Flow

\* Nothing happens to the frames.
LEMMA FramesStay ==
    ASSUME FramesAreBacked, RowsAreTheAgents, UNCHANGED <<up, have, store, failed>>
    PROVE  FramesAreBacked' /\ RowsAreTheAgents'
  BY DEF FramesAreBacked, RowsAreTheAgents, Carries, Arrived

\* Times the server has read stay backed, since rows that have arrived stay.
LEMMA ResumesStay ==
    ASSUME ResumesAreBacked, UNCHANGED have, store \subseteq store', failed \subseteq failed',
           \A d \in Conns : spc'[d] = "resume" => spc[d] = "resume" /\ since'[d] = since[d],
           \A d \in Conns : \A i \in 1..Len(down'[d]) : \E j \in 1..Len(down[d]) : down'[d][i] = down[d][j]
    PROVE  ResumesAreBacked'
  <1>1. \A ts : BackedTime(ts) => BackedTime(ts)'
    BY DEF BackedTime, Arrived
  <1> QED
    BY <1>1, SMTT(30) DEF ResumesAreBacked

-----------------------------------------------------------------------------
(* The invariant holds at first.                                           *)

\* At first nothing is under way and both ends are empty.
LEMMA InitIInv == Init => IInv
  <1> SUFFICES ASSUME Init
               PROVE  IInv
    OBVIOUS
  <1> USE ConstantsAssumption DEF Init
  <1>1. TypeOK
    <2>1. << >> \in Seq(UpFrames) /\ << >> \in Seq(DownFrames) /\ Len(<< >>) = 0
      OBVIOUS
    <2>2. watermark \in Marks
      BY DEF Marks, Series
    <2>3. up \in [Conns -> Seq(UpFrames)] /\ down \in [Conns -> Seq(DownFrames)]
      BY <2>1
    <2>4. \A c \in Conns : Len(up[c]) <= UpCap /\ Len(down[c]) <= DownCap
      BY <2>1
    <2>5. 0 \in 0..MaxTs /\ 0 \in 0..MaxConn
      OBVIOUS
    <2>6. /\ since \in [Conns -> 0..MaxTs]
          /\ spc \in [Conns -> {"none", "hello", "query", "resume", "loop", "reply", "gone"}]
      BY <2>5
    <2> QED
      BY <2>2, <2>3, <2>4, <2>5, <2>6 DEF TypeOK
  <1>2. NewestTs(have) = 0 /\ MinutesAreWhole
    BY DEF NewestTs, MinutesAreWhole
  <1>3. ConnectionsAreInOrder
    BY DEF ConnectionsAreInOrder, Conns
  <1>4. ResumesAreBacked
    BY DEF ResumesAreBacked, Conns
  <1> QED
    BY <1>1, <1>2, <1>3, <1>4
       DEF IInv, OnlineHasServer, OnlineIsBacked, RowsAreTheAgents, FramesAreBacked, StoreIsBacked,
           WatermarkIsPast, WatermarkIsBacked

-----------------------------------------------------------------------------
(* Steps that leave the rows alone.                                        *)

\* What is left to show of a step that moves no row and no mark.
LEMMA RowsStay ==
    ASSUME IInv, TypeOK', OnlineIsBacked', ConnectionsAreInOrder', ResumesAreBacked',
           UNCHANGED <<have, up, store, failed>>, broken \subseteq broken',
           apc' \in {"run", "push"} => apc \in {"run", "push"} /\ UNCHANGED <<conn, watermark>>
    PROVE  IInv'
  <1>1. FramesAreBacked' /\ RowsAreTheAgents'
    BY FramesStay DEF IInv
  <1>2. MinutesAreWhole' /\ StoreIsBacked' /\ WatermarkIsPast'
    BY DEF IInv, MinutesAreWhole, StoreIsBacked, Arrived, WatermarkIsPast
  <1>3. WatermarkIsBacked'
    <2> SUFFICES ASSUME apc' \in {"run", "push"}, conn' \notin broken'
                 PROVE  \A r \in have : ~Less(watermark, r) => r \in store \cup failed \cup InFlight(conn)
      BY DEF WatermarkIsBacked, InFlight
    <2> QED
      BY DEF IInv, WatermarkIsBacked
  <1> QED
    BY <1>1, <1>2, <1>3 DEF IInv, OnlineHasServer

\* The agent takes an answer.
LEMMA AnswerTaken ==
    ASSUME TypeOK, NEW c \in Conns, down[c] # << >>, down' = [down EXCEPT ![c] = Tail(@)]
    PROVE  /\ down' \in [Conns -> Seq(DownFrames)] /\ \A d \in Conns : Len(down'[d]) <= DownCap
           /\ \A d \in Conns : \A i \in 1..Len(down'[d]) :
                \E j \in 1..Len(down[d]) : down'[d][i] = down[d][j]
           /\ \A d \in Conns : down[d] = << >> => down'[d] = << >>
           /\ Head(down[c]) = down[c][1] /\ 1 \in 1..Len(down[c]) /\ down[c][1] \in DownFrames
  <1>1. down[c] \in Seq(DownFrames) /\ Len(down[c]) \in Nat \ {0}
    BY DEF TypeOK
  <1>2. down'[c] = Tail(down[c]) /\ \A d \in Conns \ {c} : down'[d] = down[d]
    BY DEF TypeOK
  <1>3. down' \in [Conns -> Seq(DownFrames)]
    BY <1>1 DEF TypeOK
  <1>0. \A d \in Conns : Len(down[d]) <= DownCap
    BY DEF TypeOK
  <1>4. Len(down'[c]) = Len(down[c]) - 1 /\ \A i \in 1..Len(down'[c]) : down'[c][i] = down[c][i + 1]
    <2>1. Len(Tail(down[c])) = Len(down[c]) - 1
      BY <1>1
    <2>2. \A i \in 1..(Len(down[c]) - 1) : Tail(down[c])[i] = down[c][i + 1]
      BY <1>1
    <2> QED
      BY <1>2, <2>1, <2>2
  <1>5. \A d \in Conns : Len(down'[d]) <= DownCap
    BY <1>0, <1>1, <1>2, <1>4, ConstantsAssumption
  <1>6. \A i \in 1..Len(down'[c]) : i + 1 \in 1..Len(down[c])
    BY <1>1, <1>4
  <1>7. \A d \in Conns : \A i \in 1..Len(down'[d]) : \E j \in 1..Len(down[d]) : down'[d][i] = down[d][j]
    BY <1>2, <1>4, <1>6
  <1> QED
    BY <1>1, <1>2, <1>3, <1>5, <1>7

\* The server sends an answer.
LEMMA AnswerSent ==
    ASSUME TypeOK, NEW c \in Conns, NEW f \in DownFrames, Len(down[c]) < DownCap, Answer(c, f)
    PROVE  /\ down' \in [Conns -> Seq(DownFrames)] /\ \A d \in Conns : Len(down'[d]) <= DownCap
           /\ \A d \in Conns : \A i \in 1..Len(down'[d]) :
                \/ \E j \in 1..Len(down[d]) : down'[d][i] = down[d][j]
                \/ d = c /\ down'[d][i] = f
           /\ \A d \in Conns \ {c} : down'[d] = down[d]
  <1>1. CASE c \in broken
    BY <1>1 DEF TypeOK, Answer
  <1>2. CASE c \notin broken
    <2>1. down[c] \in Seq(DownFrames) /\ Len(down[c]) \in Nat
      BY DEF TypeOK
    <2>2. down'[c] = Append(down[c], f) /\ \A d \in Conns \ {c} : down'[d] = down[d]
      BY <1>2 DEF TypeOK, Answer
    <2>3. down' \in [Conns -> Seq(DownFrames)]
      BY <1>2, <2>1 DEF TypeOK, Answer
    <2>4. /\ Len(down'[c]) = Len(down[c]) + 1 /\ down'[c][Len(down[c]) + 1] = f
          /\ \A i \in 1..Len(down[c]) : down'[c][i] = down[c][i]
      BY <2>1, <2>2
    <2>5. \A i \in 1..Len(down'[c]) : i \in 1..Len(down[c]) \/ i = Len(down[c]) + 1
      BY <2>1, <2>4
    <2>0. \A d \in Conns : Len(down[d]) <= DownCap
      BY DEF TypeOK
    <2>6. \A d \in Conns : Len(down'[d]) <= DownCap
      BY <2>0, <2>1, <2>2, <2>4, ConstantsAssumption, SMTT(30)
    <2> QED
      BY <2>2, <2>3, <2>4, <2>5, <2>6
  <1> QED
    BY <1>1, <1>2

-----------------------------------------------------------------------------
(* The agent.                                                              *)

\* The minute a flush adds is the newest from then on.
LEMMA NextMinuteIsNewest ==
    ASSUME NEW n \in 0..MaxTs, n < MaxTs
    PROVE  NewestTs((1..(n + 1)) \X Series) = n + 1
  <1>1. n + 1 \in 0..MaxTs
    BY ConstantsAssumption
  <1> QED
    BY <1>1, NewestOfWhole

\* A new minute is after all that was read, sent or taken.
LEMMA FlushIInv == ASSUME IInv, Flush PROVE IInv'
  <1> USE ConstantsAssumption DEF Flush, agent, wire, server, IInv, OnlineHasServer
  <1>1. PICK n \in 0..MaxTs : n = NewestTs(have) /\ n < MaxTs
    BY NewestMinute DEF TypeOK
  <1>2. have = (1..n) \X Series /\ have' = (1..(n + 1)) \X Series
    BY <1>1 DEF MinutesAreWhole
  <1>0. NewestTs((1..(n + 1)) \X Series) = n + 1
    BY <1>1, NextMinuteIsNewest
  <1>3. NewestTs(have') = n + 1
    BY <1>0, <1>2, Zenon
  <1>4. /\ have \subseteq have' /\ \A r \in have : r[1] <= n
        /\ \A r \in have' \ have : r[1] = n + 1
    BY <1>2, SMTT(30)
  <1>5. TypeOK'
    <2>1. have' \in SUBSET AllRows
      BY <1>1, <1>2 DEF AllRows
    <2> QED
      BY <1>1, <2>1, SMTT(30) DEF TypeOK
  <1>6. MinutesAreWhole'
    BY <1>2, <1>3 DEF MinutesAreWhole
  <1>7. RowsAreTheAgents' /\ ConnectionsAreInOrder' /\ OnlineIsBacked'
    BY <1>4 DEF RowsAreTheAgents, ConnectionsAreInOrder, OnlineIsBacked, Serving, Carries
  <1>8. ResumesAreBacked'
    <2>1. ASSUME NEW ts \in 0..MaxTs, BackedTime(ts)
          PROVE  BackedTime(ts)'
      BY <1>1, <1>3, <1>4, <2>1 DEF BackedTime, Arrived
    <2>2. \A c \in Conns : since[c] \in 0..MaxTs
      BY DEF TypeOK
    <2>3. \A c \in Conns : \A i \in 1..Len(down[c]) :
              down[c][i].kind = "resume" => down[c][i].since \in 0..MaxTs
      BY DEF TypeOK, DownFrames, Error
    <2> QED
      BY <2>1, <2>2, <2>3 DEF ResumesAreBacked
  <1>9. FramesAreBacked'
    <2> SUFFICES ASSUME NEW c \in Conns, NEW i \in 1..Len(up[c]), NEW q \in have', NEW r \in have',
                        Carries(c, i, q), Less(r, q)
                 PROVE  Arrived(r) \/ \E j \in 1..i : Carries(c, j, r)
      BY DEF FramesAreBacked, Carries, Arrived
    <2>1. q \in have
      BY <1>5 DEF RowsAreTheAgents, TypeOK
    <2>2. q[1] \in 1..n /\ r[1] \in 1..(n + 1)
      BY <1>2, <2>1
    <2>3. r[1] # n + 1
      BY <2>2 DEF Less
    <2>4. r \in have
      BY <1>4, <2>3
    <2> QED
      BY <2>1, <2>4 DEF FramesAreBacked
  <1>10. StoreIsBacked'
    <2> SUFFICES ASSUME NEW q \in store, NEW r \in have', r[1] < q[1]
                 PROVE  Arrived(r)
      BY DEF StoreIsBacked, Arrived
    <2>1. q \in have /\ q[1] \in 1..n /\ r[1] \in 1..(n + 1)
      BY <1>2 DEF RowsAreTheAgents
    <2>2. r \in have
      BY <1>4, <2>1
    <2> QED
      BY <2>2 DEF StoreIsBacked
  <1>11. apc \in {"run", "push"} => watermark[1] \in Int /\ watermark[1] <= n
    BY <1>1 DEF WatermarkIsPast, TypeOK, Marks
  <1>12. WatermarkIsPast'
    BY <1>1, <1>3, <1>11 DEF WatermarkIsPast
  <1>13. WatermarkIsBacked'
    <2> SUFFICES ASSUME apc \in {"run", "push"}, conn \notin broken,
                        NEW r \in have', ~Less(watermark, r)
                 PROVE  r \in store \cup failed \cup InFlight(conn)
      BY DEF WatermarkIsBacked, InFlight
    <2>1. r \in have
      BY <1>1, <1>4, <1>11 DEF Less
    <2> QED
      BY <2>1 DEF WatermarkIsBacked
  <1> QED
    BY <1>5, <1>6, <1>7, <1>8, <1>9, <1>10, <1>12, <1>13

\* A connection is new and carries the hello.
LEMMA DialIInv == ASSUME IInv, Dial PROVE IInv'
  <1> USE ConstantsAssumption DEF Dial, IInv, OnlineHasServer
  <1>1. PICK c \in Conns : c = dialed + 1 /\ conn' = c /\ dialed' = c
    BY DEF TypeOK, Conns
  <1>2. spc[c] = "none" /\ up[c] = << >> /\ down[c] = << >>
    BY <1>1 DEF ConnectionsAreInOrder, TypeOK, Conns
  <1>3. Hello \in UpFrames /\ Hello.kind = "hello"
    BY DEF UpFrames, Hello
  <1>4. UpOK' /\ (\A d \in Conns \ {c} : up'[d] = up[d]) /\ \A i \in 1..Len(up'[c]) : up'[c][i].kind = "hello"
    <2>1. CASE c \in broken
      BY <1>1, <1>2, <2>1 DEF Send, UpOK, TypeOK
    <2>2. CASE c \notin broken
      <3>1. UpOK /\ Len(up[c]) = 0 /\ Len(up[c]) < UpCap
        BY <1>2 DEF UpOK, TypeOK
      <3>2. Send(c, Hello)
        BY <1>1
      <3> QED
        BY <1>3, <2>2, <3>1, <3>2, SendAddsLast
    <2> QED
      BY <2>1, <2>2
  <1>5. TypeOK'
    <2>1. spc' \in [Conns -> {"none", "hello", "query", "resume", "loop", "reply", "gone"}]
      BY <1>1 DEF TypeOK
    <2>2. conn' # None /\ dialed' \in 0..MaxConn
      BY <1>1 DEF Conns
    <2> QED
      BY <1>1, <1>4, <2>1, <2>2 DEF TypeOK, UpOK
  <1>6. ConnectionsAreInOrder'
    BY <1>1, <1>2, <1>4 DEF ConnectionsAreInOrder, TypeOK, Conns
  <1>7. OnlineIsBacked'
    BY <1>1, <1>2 DEF OnlineIsBacked, Serving, TypeOK
  <1>8. ResumesAreBacked'
    <2>1. \A d \in Conns : spc'[d] = "resume" => spc[d] = "resume"
      BY <1>1 DEF TypeOK
    <2> QED
      BY <2>1, ResumesStay
  <1>9. \A d \in Conns : \A i : \A r : i \in 1..Len(up'[d]) /\ Carries(d, i, r)' =>
            d # c /\ i \in 1..Len(up[d]) /\ Carries(d, i, r)
    BY <1>4 DEF Carries
  <1>10. RowsAreTheAgents'
    BY <1>9 DEF RowsAreTheAgents
  <1>11. FramesAreBacked'
    <2> SUFFICES ASSUME NEW d \in Conns, NEW i \in 1..Len(up'[d]), NEW q \in have, NEW r \in have,
                        Carries(d, i, q)', Less(r, q), ~Arrived(r)
                 PROVE  \E j \in 1..i : Carries(d, j, r)'
      BY DEF FramesAreBacked, Arrived
    <2>1. d # c /\ i \in 1..Len(up[d]) /\ Carries(d, i, q)
      BY <1>9
    <2>2. PICK j \in 1..i : Carries(d, j, r)
      BY <2>1 DEF FramesAreBacked
    <2> QED
      BY <1>4, <2>1, <2>2 DEF Carries
  <1>12. MinutesAreWhole' /\ StoreIsBacked' /\ WatermarkIsPast' /\ WatermarkIsBacked'
    BY DEF MinutesAreWhole, StoreIsBacked, Arrived, WatermarkIsPast, WatermarkIsBacked
  <1> QED
    BY <1>5, <1>6, <1>7, <1>8, <1>10, <1>11, <1>12

\* The agent starts at the time it is told, and everything older has arrived.
LEMMA GetResumeIInv == ASSUME IInv, GetResume PROVE IInv'
  <1> USE ConstantsAssumption DEF GetResume, wire, server, IInv, OnlineHasServer
  <1>1. conn \in Conns
    BY DEF TypeOK
  <1>2. /\ down' \in [Conns -> Seq(DownFrames)] /\ \A d \in Conns : Len(down'[d]) <= DownCap
        /\ \A d \in Conns : \A i \in 1..Len(down'[d]) :
             \E j \in 1..Len(down[d]) : down'[d][i] = down[d][j]
        /\ \A d \in Conns : down[d] = << >> => down'[d] = << >>
        /\ Head(down[conn]) = down[conn][1] /\ 1 \in 1..Len(down[conn]) /\ down[conn][1] \in DownFrames
    BY <1>1, AnswerTaken
  <1> DEFINE f == Head(down[conn])
  <1>3. f.kind = "resume" => f.since \in 0..MaxTs /\ BackedTime(f.since)
    BY <1>1, <1>2 DEF ResumesAreBacked, DownFrames, Error
  <1>4. f.kind = "resume" => watermark' = <<f.since - 1, NSeries + 1>> /\ watermark' \in Marks
    BY <1>3, SMTT(30) DEF StartFrom, Marks
  <1>5. TypeOK'
    BY <1>1, <1>2, <1>4 DEF TypeOK
  <1>6. ConnectionsAreInOrder' /\ OnlineIsBacked'
    BY <1>1, <1>2 DEF ConnectionsAreInOrder, OnlineIsBacked, Serving
  <1>7. ResumesAreBacked'
    BY <1>2, ResumesStay
  <1>8. FramesAreBacked' /\ RowsAreTheAgents'
    BY FramesStay
  <1>9. MinutesAreWhole' /\ StoreIsBacked'
    BY DEF MinutesAreWhole, StoreIsBacked, Arrived
  <1>10. NewestTs(have) \in Nat
    BY NewestMinute DEF TypeOK
  <1>11. WatermarkIsPast'
    BY <1>3, <1>4, <1>10 DEF WatermarkIsPast, BackedTime
  <1>12. ASSUME f.kind = "resume", NEW r \in have, ~Less(<<f.since - 1, NSeries + 1>>, r)
         PROVE  Arrived(r)
    <2>1. r[1] \in Nat /\ r[2] \in 1..NSeries
      BY SMTT(30) DEF TypeOK, AllRows, Series
    <2>2. r[1] < f.since
      BY <1>3, <1>12, <2>1, SMTT(30) DEF Less
    <2> QED
      BY <1>3, <1>12, <2>2 DEF BackedTime
  <1>13. WatermarkIsBacked'
    BY <1>4, <1>12 DEF WatermarkIsBacked, Arrived
  <1> QED
    BY <1>5, <1>6, <1>7, <1>8, <1>9, <1>11, <1>13

\* A batch holds the oldest rows that are wanted: older ones than its own have arrived,
\* are on the way in the same connection, or are in it.
LEMMA PushRowsIInv == ASSUME IInv, PushRows PROVE IInv'
  <1> USE ConstantsAssumption DEF PushRows, server, IInv, OnlineHasServer
  <1> DEFINE f == Rows(Export)
  <1>1. conn \in Conns /\ apc = "push"
    BY DEF TypeOK
  <1>2. Export \subseteq have /\ have \subseteq AllRows
    BY DEF Export, Todo, TypeOK
  <1>3. f \in UpFrames /\ f.kind = "rows" /\ f.rows = Export
    BY <1>2 DEF UpFrames, Rows
  <1>4. watermark' \in Export /\ \A q \in Export : q = watermark' \/ Less(q, watermark')
    BY <1>2, NewestIsNewest
  <1>5. watermark' \in Marks
    BY <1>2, <1>4 DEF AllRows, Marks
  <1>6. ASSUME NEW q \in Export, NEW r \in have, Less(r, q), conn \notin broken
        PROVE  Arrived(r) \/ r \in Export \/ r \in InFlight(conn)
    <2>1. CASE Less(watermark, r)
      BY <1>6, <2>1, ExportIsPrefix
    <2>2. CASE ~Less(watermark, r)
      BY <1>1, <1>6, <2>2 DEF WatermarkIsBacked, Arrived
    <2> QED
      BY <2>1, <2>2
  <1>7. UpOK' /\ (\A d \in Conns \ {conn} : up'[d] = up[d]) /\ FramesAreBacked' /\ RowsAreTheAgents'
    <2>1. CASE conn \in broken
      <3>1. UNCHANGED <<up, have, store, failed>>
        BY <2>1 DEF Send
      <3> QED
        BY <3>1, FramesStay DEF TypeOK, UpOK
    <2>2. CASE conn \notin broken
      <3>1. UpOK /\ Len(up[conn]) < UpCap
        BY DEF UpOK, TypeOK, Room
      <3>2. \A q \in f.rows, r \in have : Less(r, q) =>
                Arrived(r) \/ r \in f.rows \/ \E j \in 1..Len(up[conn]) : Carries(conn, j, r)
        BY <1>1, <1>3, <1>6, <2>2, InFlightIsCarried
      <3>3. UpOK' /\ \A d \in Conns \ {conn} : up'[d] = up[d]
        BY <1>1, <1>3, <2>2, <3>1, SendAddsLast
      <3> QED
        BY <1>1, <1>2, <1>3, <2>2, <3>1, <3>2, <3>3, SendKeepsFrames
    <2> QED
      BY <2>1, <2>2
  <1>8. TypeOK'
    BY <1>1, <1>5, <1>7 DEF TypeOK, UpOK
  <1>9. ConnectionsAreInOrder' /\ OnlineIsBacked'
    BY <1>1, <1>7 DEF ConnectionsAreInOrder, OnlineIsBacked, Serving
  <1>10. ResumesAreBacked'
    BY ResumesStay
  <1>11. MinutesAreWhole' /\ StoreIsBacked' /\ WatermarkIsPast'
    BY <1>2, <1>4, NewestMinute DEF MinutesAreWhole, StoreIsBacked, Arrived, WatermarkIsPast
  <1>12. WatermarkIsBacked'
    <2> SUFFICES ASSUME conn \notin broken, NEW r \in have, ~Less(watermark', r)
                 PROVE  r \in store \cup failed \cup InFlight(conn)'
      BY DEF WatermarkIsBacked
    <2>1. \A x : x \in InFlight(conn) \/ x \in Export => x \in InFlight(conn)'
      <3>1. Len(up[conn]) < UpCap
        BY DEF Room
      <3>2. \A q \in f.rows, p \in have : Less(p, q) =>
                Arrived(p) \/ p \in f.rows \/ \E j \in 1..Len(up[conn]) : Carries(conn, j, p)
        BY <1>1, <1>3, <1>6, InFlightIsCarried
      <3>3. UNCHANGED <<have, store, failed>> /\ conn' = conn
        OBVIOUS
      <3> QED
        BY <1>1, <1>2, <1>3, <3>1, <3>2, <3>3, SendKeepsFrames
    <2>2. r = watermark' \/ Less(r, watermark')
      BY <1>2, <1>4 DEF Less, AllRows, Series
    <2> QED
      BY <1>4, <1>6, <2>1, <2>2 DEF Arrived
  <1> QED
    BY <1>7, <1>8, <1>9, <1>10, <1>11, <1>12

\* A snapshot carries no rows.
LEMMA PushSnapshotIInv == ASSUME IInv, PushSnapshot PROVE IInv'
  <1> USE ConstantsAssumption DEF PushSnapshot, server, IInv, OnlineHasServer
  <1> DEFINE f == Snapshot(snap)
  <1>1. conn \in Conns /\ Len(up[conn]) < UpCap
    BY DEF TypeOK, Room
  <1>2. f \in UpFrames /\ f.kind # "rows"
    BY DEF UpFrames, Snapshot, TypeOK
  <1>3. /\ UpOK' /\ FramesAreBacked' /\ RowsAreTheAgents'
        /\ \A d \in Conns \ {conn} : up'[d] = up[d]
        /\ conn \notin broken => \A x : x \in InFlight(conn) => x \in InFlight(conn)'
    <2>1. CASE conn \in broken
      <3>1. UNCHANGED <<up, have, store, failed>>
        BY <2>1 DEF Send
      <3> QED
        BY <2>1, <3>1, FramesStay DEF TypeOK, UpOK
    <2>2. CASE conn \notin broken
      <3>1. UpOK /\ UNCHANGED <<have, store, failed>> /\ conn' = conn
        BY DEF UpOK, TypeOK
      <3>2. UpOK' /\ \A d \in Conns \ {conn} : up'[d] = up[d]
        BY <1>1, <1>2, <2>2, <3>1, SendAddsLast
      <3>3. /\ FramesAreBacked' /\ RowsAreTheAgents'
            /\ \A x : x \in InFlight(conn) => x \in InFlight(conn)'
        BY <1>1, <1>2, <2>2, <3>1, SendKeepsFrames
      <3> QED
        BY <3>2, <3>3
    <2> QED
      BY <2>1, <2>2
  <1>4. TypeOK'
    BY <1>1, <1>3 DEF TypeOK, UpOK
  <1>5. ConnectionsAreInOrder' /\ OnlineIsBacked'
    BY <1>1, <1>3 DEF ConnectionsAreInOrder, OnlineIsBacked, Serving
  <1>6. ResumesAreBacked'
    BY ResumesStay
  <1>7. MinutesAreWhole' /\ StoreIsBacked' /\ WatermarkIsPast'
    BY DEF MinutesAreWhole, StoreIsBacked, Arrived, WatermarkIsPast
  <1>8. WatermarkIsBacked'
    BY <1>3 DEF WatermarkIsBacked
  <1> QED
    BY <1>3, <1>4, <1>5, <1>6, <1>7, <1>8

\* The tick, a batch without rows, and what ends a connection for its agent.
LEMMA AgentRestsIInv ==
    ASSUME IInv, SyncTick \/ PushNothing \/ Lost \/ ResumeTimeout \/ AgentRestart
    PROVE  IInv'
  <1> USE DEF wire, server, IInv, OnlineHasServer
  <1>1. CASE SyncTick \/ PushNothing
    <2> USE <1>1 DEF SyncTick, PushNothing
    <2>1. TypeOK' /\ OnlineIsBacked' /\ ConnectionsAreInOrder'
      BY DEF TypeOK, OnlineIsBacked, Serving, ConnectionsAreInOrder
    <2>2. ResumesAreBacked'
      BY ResumesStay
    <2> QED
      BY <2>1, <2>2, RowsStay
  <1>2. CASE Lost \/ ResumeTimeout \/ AgentRestart
    <2>1. HangUp /\ conn \in Conns
      BY <1>2 DEF Lost, ResumeTimeout, AgentRestart, TypeOK
    <2> USE <2>1 DEF HangUp
    <2>0. broken' \subseteq Conns /\ snap' \in 0..MaxTs
      BY ConstantsAssumption DEF TypeOK
    <2>4. TypeOK'
      BY <2>0 DEF TypeOK
    <2>2. OnlineIsBacked' /\ ConnectionsAreInOrder'
      BY DEF OnlineIsBacked, Serving, ConnectionsAreInOrder
    <2>3. ResumesAreBacked'
      BY ResumesStay
    <2> QED
      BY <2>2, <2>3, <2>4, RowsStay
  <1> QED
    BY <1>1, <1>2

\* An answer that is ignored is still one the server has given.
LEMMA IgnoreIInv == ASSUME IInv, Ignore PROVE IInv'
  <1> USE DEF Ignore, agent, server, IInv, OnlineHasServer
  <1>1. conn \in Conns
    BY DEF TypeOK
  <1>2. /\ down' \in [Conns -> Seq(DownFrames)] /\ \A d \in Conns : Len(down'[d]) <= DownCap
        /\ \A d \in Conns : \A i \in 1..Len(down'[d]) :
             \E j \in 1..Len(down[d]) : down'[d][i] = down[d][j]
        /\ \A d \in Conns : down[d] = << >> => down'[d] = << >>
    BY <1>1, AnswerTaken
  <1>3. TypeOK' /\ OnlineIsBacked' /\ ConnectionsAreInOrder'
    BY <1>2 DEF TypeOK, OnlineIsBacked, Serving, ConnectionsAreInOrder
  <1>4. ResumesAreBacked'
    BY <1>2, ResumesStay
  <1> QED
    BY <1>3, <1>4, RowsStay

\* The network loses a connection.
LEMMA CutIInv == ASSUME IInv, NEW c \in Conns, Cut(c) PROVE IInv'
  <1> USE DEF Cut, agent, server, IInv, OnlineHasServer
  <1>1. PICK n \in 0..Len(up[c]) : up' = [up EXCEPT ![c] = SubSeq(@, 1, n)]
    OBVIOUS
  <1>2. UpOK
    BY DEF TypeOK, UpOK
  <1>3. /\ UpOK'
        /\ Len(up'[c]) = n
        /\ \A i \in 1..n : up'[c][i] = up[c][i]
        /\ \A d \in Conns \ {c} : up'[d] = up[d]
    BY <1>1, <1>2, CutKeepsFirst
  <1>4. TypeOK'
    BY <1>3 DEF TypeOK, UpOK
  <1>5. Flow'
    BY <1>1, CutKeepsFlow DEF Flow
  <1>6. n \in 0..Len(up[c]) /\ Len(up[c]) \in Nat /\ (up[c] = << >> => up'[c] = << >>)
    BY <1>1, <1>2, <1>3 DEF UpOK
  <1>7. \A d \in Conns : (up[d] = << >> => up'[d] = << >>)
                      /\ \A i \in 1..Len(up'[d]) : i \in 1..Len(up[d]) /\ up'[d][i] = up[d][i]
    BY <1>3, <1>6
  <1>8. ConnectionsAreInOrder' /\ OnlineIsBacked'
    BY <1>7 DEF ConnectionsAreInOrder, OnlineIsBacked, Serving
  <1>9. ResumesAreBacked'
    BY ResumesStay
  <1>10. MinutesAreWhole' /\ StoreIsBacked' /\ WatermarkIsPast'
    BY DEF MinutesAreWhole, StoreIsBacked, Arrived, WatermarkIsPast
  <1> QED
    BY <1>4, <1>5, <1>8, <1>9, <1>10 DEF Flow

-----------------------------------------------------------------------------
(* The server.                                                             *)

\* What is left to show of a step of a task that takes a frame, once its rows are
\* at the server or lost there.
LEMMA FrameTaken ==
    ASSUME IInv, NEW c \in Conns, up[c] # << >>, Take(c), TypeOK', OnlineIsBacked',
           UNCHANGED <<agent, down, broken, since>>,
           spc[c] # "none", NEW s, s \notin {"none", "hello", "resume"}, spc' = [spc EXCEPT ![c] = s],
           store \subseteq store', failed \subseteq failed',
           \A r \in (store' \ store) \cup (failed' \ failed) : Carries(c, 1, r) /\ r \in AllRows,
           \A r \in have : Carries(c, 1, r) => r \in store' \cup failed'
    PROVE  IInv'
  <1> USE DEF agent, IInv, OnlineHasServer
  <1>1. UpOK
    BY DEF TypeOK, UpOK
  <1>2. /\ 1 \in 1..Len(up[c])
        /\ Len(up'[c]) = Len(up[c]) - 1
        /\ \A i \in 1..Len(up'[c]) : i + 1 \in 1..Len(up[c]) /\ up'[c][i] = up[c][i + 1]
        /\ \A d \in Conns \ {c} : up'[d] = up[d]
    BY <1>1, TakeMovesUp
  <1>3. store' \cup failed' \subseteq have
    BY <1>2 DEF RowsAreTheAgents
  <1>4. Flow'
    BY <1>3, TakeKeepsFlow DEF Flow
  <1>5. ASSUME NEW q \in store', NEW r \in have, r[1] < q[1]
        PROVE  r \in store' \cup failed'
    <2>1. CASE q \in store
      BY <1>5, <2>1 DEF StoreIsBacked, Arrived
    <2>2. CASE q \notin store
      <3>1. Carries(c, 1, q) /\ Less(r, q) /\ q \in have
        BY <1>3, <1>5, <2>2 DEF Less
      <3>2. Arrived(r) \/ \E j \in 1..1 : Carries(c, j, r)
        BY <1>2, <3>1 DEF FramesAreBacked
      <3> QED
        BY <3>2 DEF Arrived
    <2> QED
      BY <2>1, <2>2
  <1>6. StoreIsBacked'
    BY <1>5 DEF StoreIsBacked, Arrived
  <1>7. \A d \in Conns : spc'[d] = IF d = c THEN s ELSE spc[d]
    BY DEF TypeOK
  <1>8. ConnectionsAreInOrder'
    <2>1. \A d \in Conns : /\ spc'[d] = "none" <=> spc[d] = "none"
                           /\ spc'[d] = "hello" => d # c /\ spc[d] = "hello"
      BY <1>7
    <2> QED
      BY <1>2, <2>1 DEF ConnectionsAreInOrder
  <1>9. ResumesAreBacked'
    BY <1>7, ResumesStay
  <1>10. MinutesAreWhole' /\ WatermarkIsPast'
    BY DEF MinutesAreWhole, WatermarkIsPast
  <1> QED
    BY <1>4, <1>6, <1>8, <1>9, <1>10 DEF Flow

\* The hello is taken: the node is online, and this task serves it.
LEMMA AcceptIInv == ASSUME IInv, NEW c \in Conns, Accept(c) PROVE IInv'
  <1> USE DEF Accept, agent, IInv, OnlineHasServer
  <1>1. UpOK
    BY DEF TypeOK, UpOK
  <1>2. 1 \in 1..Len(up[c]) /\ Take(c) /\ UpOK'
    BY <1>1, TakeMovesUp DEF Take
  <1>3. TypeOK'
    BY <1>2 DEF TypeOK, UpOK
  <1>4. OnlineIsBacked'
    <2>1. c \in Serving'
      BY DEF Serving, TypeOK
    <2> QED
      BY <2>1 DEF OnlineIsBacked
  <1>5. \A r : ~Carries(c, 1, r)
    BY <1>2 DEF ConnectionsAreInOrder, Carries
  <1> QED
    BY <1>2, <1>3, <1>4, <1>5, FrameTaken

\* The rows are inserted, or the insert fails.
LEMMA RowsIInv == ASSUME IInv, NEW c \in Conns, ApplyRows(c) \/ ApplyFails(c) PROVE IInv'
  <1> USE DEF ApplyRows, ApplyFails, Ready, agent, IInv, OnlineHasServer
  <1>1. UpOK /\ up[c] # << >> /\ Take(c)
    BY DEF TypeOK, UpOK
  <1>2. UpOK' /\ 1 \in 1..Len(up[c]) /\ Head(up[c]) = up[c][1]
    BY <1>1, TakeMovesUp
  <1> DEFINE f == up[c][1]
  <1>3. f.kind = "rows" /\ f \in UpFrames
    BY <1>1, <1>2 DEF UpOK
  <1>4. f.rows \subseteq AllRows /\ \A r : Carries(c, 1, r) <=> r \in f.rows
    BY <1>3 DEF UpFrames, Hello, Carries
  <1>5. TypeOK'
    BY <1>2, <1>4 DEF TypeOK, UpOK
  <1>6. CASE ApplyRows(c)
    <2>1. spc' = [spc EXCEPT ![c] = "loop"] /\ OnlineIsBacked'
      BY <1>6 DEF TypeOK, OnlineIsBacked, Serving
    <2> QED
      BY <1>1, <1>2, <1>4, <1>5, <1>6, <2>1, FrameTaken
  <1>7. CASE ApplyFails(c)
    <2>1. OnlineIsBacked'
      BY <1>7 DEF TypeOK, OnlineIsBacked, Serving
    <2> QED
      BY <1>1, <1>2, <1>4, <1>5, <1>7, <2>1, FrameTaken
  <1> QED
    BY <1>6, <1>7

\* A snapshot is taken.
LEMMA PublishIInv == ASSUME IInv, NEW c \in Conns, Publish(c) PROVE IInv'
  <1> USE DEF Publish, Ready, agent, IInv, OnlineHasServer
  <1>1. UpOK /\ up[c] # << >> /\ Take(c)
    BY DEF TypeOK, UpOK
  <1>2. UpOK' /\ 1 \in 1..Len(up[c]) /\ Head(up[c]) = up[c][1]
    BY <1>1, TakeMovesUp
  <1>3. up[c][1].kind = "snapshot" /\ up[c][1] \in UpFrames
    BY <1>1, <1>2 DEF UpOK
  <1>4. up[c][1].n \in 1..MaxTs
    BY <1>3 DEF UpFrames, Hello
  <1>5. TypeOK'
    <2>1. latest' \in 0..MaxTs
      BY <1>2, <1>4, ConstantsAssumption
    <2> QED
      BY <1>2, <2>1 DEF TypeOK, UpOK
  <1>6. spc' = [spc EXCEPT ![c] = "loop"] /\ OnlineIsBacked' /\ \A r : ~Carries(c, 1, r)
    BY <1>3 DEF TypeOK, OnlineIsBacked, Serving, Carries
  <1> QED
    BY <1>1, <1>5, <1>6, FrameTaken

\* Everything older than the server's newest minute has arrived.
LEMMA NewestIsBacked == ASSUME IInv PROVE MaxStored \in 0..MaxTs /\ BackedTime(MaxStored)
  <1> USE ConstantsAssumption DEF IInv, OnlineHasServer, MaxStored
  <1>1. store \subseteq have /\ store \subseteq AllRows /\ have \subseteq AllRows
    BY DEF RowsAreTheAgents, TypeOK
  <1>2. /\ NewestTs(store) \in 0..MaxTs /\ NewestTs(have) \in 0..MaxTs
        /\ \A q \in have : q[1] \in 1..MaxTs /\ q[1] <= NewestTs(have)
        /\ store # {} => \E q \in store : q[1] = NewestTs(store)
    BY <1>1, NewestMinute
  <1>3. CASE store = {}
    BY <1>2, <1>3 DEF NewestTs, BackedTime
  <1>4. CASE store # {}
    <2>1. PICK q \in store : q[1] = NewestTs(store)
      BY <1>2, <1>4
    <2> QED
      BY <1>1, <1>2, <2>1 DEF StoreIsBacked, BackedTime
  <1> QED
    BY <1>3, <1>4

\* The server asks its table for the newest minute.
LEMMA QueryIInv == ASSUME IInv, NEW c \in Conns, Query(c) PROVE IInv'
  <1> USE DEF Query, agent, wire, IInv, OnlineHasServer
  <1>1. MaxStored \in 0..MaxTs /\ BackedTime(MaxStored)
    BY NewestIsBacked
  <1>2. /\ \A d \in Conns : since'[d] = IF d = c THEN MaxStored ELSE since[d]
        /\ \A d \in Conns : spc'[d] = IF d = c THEN "resume" ELSE spc[d]
    BY DEF TypeOK
  <1>3. TypeOK'
    <2> HIDE DEF MaxStored
    <2> QED
      BY <1>1 DEF TypeOK
  <1>4. OnlineIsBacked'
    <2>1. Serving' = Serving
      BY <1>2 DEF Serving
    <2> QED
      BY <2>1 DEF OnlineIsBacked
  <1>5. ConnectionsAreInOrder'
    BY <1>2 DEF ConnectionsAreInOrder, TypeOK
  <1>6. ResumesAreBacked'
    BY <1>1, <1>2 DEF ResumesAreBacked, BackedTime, Arrived
  <1> QED
    BY <1>3, <1>4, <1>5, <1>6, RowsStay

\* The time goes on its way to the agent.
LEMMA SendResumeIInv == ASSUME IInv, NEW c \in Conns, SendResume(c) PROVE IInv'
  <1> USE DEF SendResume, agent, IInv, OnlineHasServer
  <1> DEFINE f == Resume(since[c])
  <1>1. f \in DownFrames /\ f.since = since[c] /\ BackedTime(since[c]) /\ Len(down[c]) < DownCap
    BY DEF DownFrames, Resume, TypeOK, ResumesAreBacked, Room
  <1>2. /\ down' \in [Conns -> Seq(DownFrames)] /\ \A d \in Conns : Len(down'[d]) <= DownCap
        /\ \A d \in Conns : \A i \in 1..Len(down'[d]) :
             \/ \E j \in 1..Len(down[d]) : down'[d][i] = down[d][j]
             \/ d = c /\ down'[d][i] = f
        /\ \A d \in Conns \ {c} : down'[d] = down[d]
    BY <1>1, AnswerSent
  <1>3. \A d \in Conns : spc'[d] = IF d = c THEN "loop" ELSE spc[d]
    BY DEF TypeOK
  <1>4. TypeOK'
    BY <1>2 DEF TypeOK
  <1>5. OnlineIsBacked'
    <2>1. Serving' = Serving
      BY <1>3 DEF Serving
    <2> QED
      BY <2>1 DEF OnlineIsBacked
  <1>6. ConnectionsAreInOrder'
    BY <1>2, <1>3 DEF ConnectionsAreInOrder, TypeOK
  <1>7. ResumesAreBacked'
    <2>1. \A ts : BackedTime(ts) => BackedTime(ts)'
      BY DEF BackedTime, Arrived
    <2>2. ASSUME NEW d \in Conns, NEW i \in 1..Len(down'[d]), down'[d][i].kind = "resume"
          PROVE  BackedTime(down'[d][i].since)
      BY <1>1, <1>2, <2>2 DEF ResumesAreBacked
    <2> QED
      BY <1>3, <2>1, <2>2 DEF ResumesAreBacked
  <1> QED
    BY <1>4, <1>5, <1>6, <1>7, RowsStay

\* An insert that failed is reported, if there is somebody to report it to.
LEMMA SendErrorIInv == ASSUME IInv, NEW c \in Conns, SendError(c) PROVE IInv'
  <1> USE DEF SendError, agent, IInv, OnlineHasServer
  <1>1. /\ down' \in [Conns -> Seq(DownFrames)] /\ \A d \in Conns : Len(down'[d]) <= DownCap
        /\ \A d \in Conns : \A i \in 1..Len(down'[d]) :
             \/ \E j \in 1..Len(down[d]) : down'[d][i] = down[d][j]
             \/ d = c /\ down'[d][i] = Error
        /\ \A d \in Conns \ {c} : down'[d] = down[d]
    <2>1. CASE UNCHANGED down
      BY <2>1 DEF TypeOK
    <2>2. CASE Room(down[c], DownCap) /\ Answer(c, Error)
      <3>1. Error \in DownFrames /\ Len(down[c]) < DownCap
        BY <2>2 DEF DownFrames, Room
      <3> QED
        BY <2>2, <3>1, AnswerSent
    <2> QED
      BY <2>1, <2>2
  <1>2. \A d \in Conns : spc'[d] = IF d = c THEN "loop" ELSE spc[d]
    BY DEF TypeOK
  <1>3. TypeOK'
    BY <1>1 DEF TypeOK
  <1>4. OnlineIsBacked'
    <2>1. Serving' = Serving
      BY <1>2 DEF Serving
    <2> QED
      BY <2>1 DEF OnlineIsBacked
  <1>5. ConnectionsAreInOrder'
    BY <1>1, <1>2 DEF ConnectionsAreInOrder, TypeOK
  <1>6. ResumesAreBacked'
    <2>1. \A ts : BackedTime(ts) => BackedTime(ts)'
      BY DEF BackedTime, Arrived
    <2>2. ASSUME NEW d \in Conns, NEW i \in 1..Len(down'[d]), down'[d][i].kind = "resume"
          PROVE  BackedTime(down'[d][i].since)
      <3>1. down'[d][i] # Error
        BY <2>2 DEF Error
      <3> QED
        BY <1>1, <2>2, <3>1 DEF ResumesAreBacked
    <2> QED
      BY <1>2, <2>1, <2>2 DEF ResumesAreBacked
  <1> QED
    BY <1>3, <1>4, <1>5, <1>6, RowsStay

\* A task ends: the node is offline, whoever else serves it.
LEMMA EndIInv ==
    ASSUME IInv, NEW c \in Conns, QueryFails(c) \/ Ended(c) \/ EndedEarly(c)
    PROVE  IInv'
  <1> USE DEF QueryFails, Ended, EndedEarly, End, Disconnect, agent, wire, IInv, OnlineHasServer
  <1>1. /\ \A d \in Conns : spc'[d] = IF d = c THEN "gone" ELSE spc[d]
        /\ spc[c] \in {"query", "resume", "loop", "hello"}
        /\ UNCHANGED <<agent, up, down, since, latest, store, failed>>
        /\ broken \subseteq broken' /\ broken' \subseteq broken \cup {c}
        /\ connected' = FALSE \/ (spc[c] = "hello" /\ UNCHANGED connected)
    BY DEF TypeOK
  <1>2. TypeOK'
    BY <1>1 DEF TypeOK
  <1>3. OnlineIsBacked'
    <2>1. CASE spc[c] = "hello" /\ UNCHANGED connected
      <3>1. Serving' = Serving
        BY <1>1, <2>1 DEF Serving
      <3> QED
        BY <2>1, <3>1 DEF OnlineIsBacked
    <2> QED
      BY <1>1, <2>1 DEF OnlineIsBacked
  <1>4. ConnectionsAreInOrder'
    BY <1>1 DEF ConnectionsAreInOrder, TypeOK
  <1>5. ResumesAreBacked'
    BY <1>1, ResumesStay
  <1> QED
    BY <1>1, <1>2, <1>3, <1>4, <1>5, RowsStay

\* The server starts again: nothing is on the way, and every connection has ended.
LEMMA ServerRestartIInv == ASSUME IInv, ServerRestart PROVE IInv'
  <1> USE ConstantsAssumption DEF ServerRestart, agent, IInv, OnlineHasServer
  <1>1. /\ \A d \in Conns : spc'[d] = IF d <= dialed THEN "gone" ELSE "none"
        /\ \A d \in Conns : up'[d] = << >> /\ Len(up'[d]) = 0
        /\ dialed \in Nat /\ Conns \subseteq Nat
    BY DEF TypeOK, Conns
  <1>2. TypeOK'
    <2>1. << >> \in Seq(UpFrames) /\ Len(<< >>) = 0
      OBVIOUS
    <2>2. up' \in [Conns -> Seq(UpFrames)] /\ \A d \in Conns : Len(up'[d]) <= UpCap
      BY <1>1, <2>1
    <2>3. broken' \subseteq Conns /\ latest' \in 0..MaxTs
      BY DEF TypeOK, Conns
    <2>4. spc' \in [Conns -> {"none", "hello", "query", "resume", "loop", "reply", "gone"}]
      OBVIOUS
    <2> QED
      BY <2>2, <2>3, <2>4 DEF TypeOK
  <1>3. apc \in {"run", "push"} => conn \in 1..dialed
    BY <1>1 DEF ConnectionsAreInOrder, TypeOK, Conns
  <1>4. ConnectionsAreInOrder'
    BY <1>1, <1>3 DEF ConnectionsAreInOrder, TypeOK
  <1>5. ResumesAreBacked'
    BY <1>1, ResumesStay
  <1>6. RowsAreTheAgents' /\ FramesAreBacked'
    BY <1>1 DEF RowsAreTheAgents, FramesAreBacked
  <1>7. WatermarkIsBacked'
    BY <1>3 DEF WatermarkIsBacked
  <1>8. MinutesAreWhole' /\ StoreIsBacked' /\ WatermarkIsPast' /\ OnlineIsBacked'
    BY DEF MinutesAreWhole, StoreIsBacked, Arrived, WatermarkIsPast, OnlineIsBacked
  <1> QED
    BY <1>2, <1>4, <1>5, <1>6, <1>7, <1>8

-----------------------------------------------------------------------------
(* The invariant and what it is for.                                       *)

\* Every step of the agent, the server or the connection keeps the invariant.
LEMMA NextIInv == ASSUME IInv, [Next]_vars PROVE IInv'
  <1>1. CASE Flush \/ Dial \/ GetResume \/ PushRows \/ PushSnapshot \/ Ignore
    BY <1>1, FlushIInv, DialIInv, GetResumeIInv, PushRowsIInv, PushSnapshotIInv, IgnoreIInv
  <1>2. CASE SyncTick \/ PushNothing \/ Lost \/ ResumeTimeout \/ AgentRestart
    BY <1>2, AgentRestsIInv
  <1>3. CASE ServerRestart
    BY <1>3, ServerRestartIInv
  <1>4. ASSUME NEW c \in Conns, Cut(c) \/ ServerStep(c)
        PROVE  IInv'
    <2>1. CASE Cut(c)
      BY <2>1, CutIInv
    <2>2. CASE Accept(c) \/ Query(c) \/ SendResume(c)
      BY <2>2, AcceptIInv, QueryIInv, SendResumeIInv
    <2>3. CASE SendError(c) \/ Publish(c) \/ ApplyRows(c) \/ ApplyFails(c)
      BY <2>3, SendErrorIInv, PublishIInv, RowsIInv
    <2>4. CASE QueryFails(c) \/ Ended(c) \/ EndedEarly(c)
      BY <2>4, EndIInv
    <2> QED
      BY <1>4, <2>1, <2>2, <2>3, <2>4 DEF ServerStep, Handle
  <1>5. CASE UNCHANGED vars
    <2>1. UNCHANGED <<have, snap, apc, conn, dialed, watermark>>
      BY <1>5 DEF vars, agent
    <2>2. UNCHANGED <<up, down, broken>>
      BY <1>5 DEF vars, wire
    <2>3. UNCHANGED <<spc, since, connected, latest, store, failed>>
      BY <1>5 DEF vars, server
    <2>4. TypeOK' /\ OnlineIsBacked' /\ ConnectionsAreInOrder' /\ ResumesAreBacked'
      BY <2>1, <2>2, <2>3 DEF IInv, OnlineHasServer, TypeOK, OnlineIsBacked, Serving,
                             ConnectionsAreInOrder, ResumesAreBacked, BackedTime, Arrived
    <2> QED
      BY <2>1, <2>2, <2>3, <2>4, RowsStay
  <1> QED
    BY <1>1, <1>2, <1>3, <1>4, <1>5 DEF Next, AgentStep

\* The invariant holds in every reachable state.
THEOREM LinkIsInOrder == Spec => []IInv
  <1>1. Init => IInv
    BY InitIInv
  <1>2. IInv /\ [Next]_vars => IInv'
    BY NextIInv
  <1> QED
    BY <1>1, <1>2, PTL DEF Spec

\* Every stream and mark keeps its bounds, and a node is shown as online only while a task
\* of the server serves it (registry.rs), however connections, tasks and server end.
THEOREM OnlineAlwaysHasServer == Spec => []OnlineHasServer
  <1>1. IInv => OnlineHasServer
    BY DEF IInv
  <1> QED
    BY <1>1, LinkIsInOrder, PTL

\* What a connection has moved its watermark past (client.rs) is at the server, on the way
\* to it in this very connection, or was lost in an insert that failed.
THEOREM NothingSentIsLost == Spec => []WatermarkIsBacked
  <1>1. IInv => WatermarkIsBacked
    BY DEF IInv
  <1> QED
    BY <1>1, LinkIsInOrder, PTL

\* There is no gap below the time the server resumes from (tier_max_ts), although old
\* connections may still deliver their frames.
THEOREM StoreHasNoGap == Spec => []NoGap
  <1>1. IInv => NoGap
    BY NewestIsBacked DEF NoGap, BackedTime, Arrived
  <1> QED
    BY <1>1, LinkIsInOrder, PTL

=============================================================================
