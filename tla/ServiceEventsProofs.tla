------------------------ MODULE ServiceEventsProofs ------------------------
(***************************************************************************)
(* The listener for systemd units and the poller of Windows, for any       *)
(* number of subscribers and units and any capacity of the streams.        *)
(***************************************************************************)
EXTENDS MCServiceEvents, FiniteSetTheorems, FunctionTheorems, TLAPS

(* What is under way between this process and systemd: calls one way, and   *)
(* replies between the signals the other way, each in the order it was sent.*)

\* Whether a call or a reply is that of a caller; a signal is nobody's.
IsOf(m, by) == "by" \in DOMAIN m /\ m.by = by

\* Its places in a queue, and how many there are.
At(q, by)   == {i \in 1..Len(q) : IsOf(q[i], by)}
Many(q, by) == Cardinality(At(q, by))

\* The last of them is about one of ops.
LastIn(q, by, ops) == \A i \in At(q, by) : (\A j \in At(q, by) : j <= i) => q[i].op \in ops

\* Both directions together.
Underway(by)      == Many(calls, by) + Many(wire, by)
LastCallIn(out, back, by, ops) ==
    /\ LastIn(out, by, ops)
    /\ Many(out, by) = 0 => LastIn(back, by, ops)

Ops     == {"subscribe", "unsubscribe", "match", "get"}
Orders  == [by : {"listener"}, op : {"subscribe", "unsubscribe"}, n : {0}]
           \cup [by : {"listener"}, op : {"match"}, n : Kinds]
           \cup [by : {"flusher"}, op : {"get"}, n : Units]
Replies == [kind : {"reply"}, by : {"listener"}, op : Ops \ {"get"}, v : 0..MaxVer]
           \cup [kind : {"reply"}, by : {"flusher"}, op : {"get"}, v : 0..MaxVer]
Signals == [kind : {"signal"}, k : Kinds, u : Units]

TypeInv ==
    /\ TypeOK
    /\ calls \in Seq(Orders)
    /\ wire \in Seq(Replies \cup Signals)

SomeSetup == \E t \in Subscribers : SettingUp(t)
SomeLoop  == \E t \in Subscribers : Polling(t)
SomeUnsub == \E t \in Subscribers : lpc[t] = "unsub"

\* A reply that is under way is awaited, or known to be nobody's.
RepliesAreCounted ==
    up => \A by \in Callers : Underway(by) = skip[by] + (IF by \in waiting THEN 1 ELSE 0)

\* The listener awaits a reply only in its setup and when it unsubscribes.
WaitsForAReason == "listener" \in waiting => SomeSetup \/ SomeUnsub

\* What the last call of the listener may be about: a match rule in a setup only that
\* has come so far.
Expected == IF SomeSetup /\ phase > 0 THEN Ops ELSE Ops \ {"match"}

LastIsExplained == up /\ "listener" \in waiting => LastCallIn(calls, wire, "listener", Expected)

\* Streams are those of the setup that makes them, or of the loop that reads them.
StreamsAreOwned ==
    /\ streams # 0 => SomeSetup \/ SomeLoop
    /\ SomeSetup => streams <= phase
    /\ SomeSetup /\ "listener" \in waiting /\ phase > 0 => streams < phase

PipeInv == RepliesAreCounted /\ WaitsForAReason /\ LastIsExplained /\ StreamsAreOwned

\* A flusher belongs to a loop, or to one that waits for it.
FlusherIsOwned == fpc # "gone" => \E t \in Subscribers : lpc[t] \in {"loop", "drain"}

\* A connection that is closed brings nothing more, and counts as a fault.
CutIsTrouble == ~up => trouble > 0 /\ wire = <<>>

\* The flag has one holder, without the cardinality, and in one role.
HolderInv ==
    /\ flag <=> Holders # {}
    /\ \A a, b \in Holders : a = b
    /\ \A t \in Subscribers : spc[t] = "setup" => lpc[t] = "none"

ListenerInv ==
    /\ TypeInv
    /\ HolderInv
    /\ PipeInv
    /\ FlusherIsOwned /\ CutIsTrouble /\ FloodLosesNothing

-----------------------------------------------------------------------------
(* Queues.                                                                  *)

\* There are finitely many places of a caller in a queue.
LEMMA ManyIsNat ==
    ASSUME NEW S, NEW q \in Seq(S), NEW by
    PROVE  /\ IsFiniteSet(At(q, by)) /\ Many(q, by) \in Nat
           /\ Many(q, by) = 0 <=> At(q, by) = {}
  <1>1. Len(q) \in Nat /\ At(q, by) \subseteq 1..Len(q)
    BY DEF At
  <1>2. IsFiniteSet(1..Len(q))
    BY <1>1, FS_Interval
  <1>3. IsFiniteSet(At(q, by))
    BY <1>1, <1>2, FS_Subset
  <1> QED
    BY <1>3, FS_CardinalityType, FS_EmptySet DEF Many

\* A message that is appended is the last one of its caller.
LEMMA Appended ==
    ASSUME NEW S, NEW q \in Seq(S), NEW e \in S, NEW by, NEW ops
    PROVE  /\ Many(Append(q, e), by) = IF IsOf(e, by) THEN Many(q, by) + 1 ELSE Many(q, by)
           /\ (IF IsOf(e, by) THEN e.op \in ops ELSE LastIn(q, by, ops)) => LastIn(Append(q, e), by, ops)
  <1>1. Len(q) \in Nat /\ Len(Append(q, e)) = Len(q) + 1
    OBVIOUS
  <1>2. \A i \in 1..(Len(q) + 1) : Append(q, e)[i] = IF i = Len(q) + 1 THEN e ELSE q[i]
    OBVIOUS
  <1>3. \A i : i \in 1..(Len(q) + 1) <=> i \in 1..Len(q) \/ i = Len(q) + 1
    BY <1>1
  <1>4. Len(q) + 1 \notin At(q, by)
    BY <1>1 DEF At
  <1>5. CASE IsOf(e, by)
    <2>1. At(Append(q, e), by) = At(q, by) \cup {Len(q) + 1}
      BY <1>1, <1>2, <1>3, <1>5 DEF At
    <2>2. Many(Append(q, e), by) = Many(q, by) + 1
      BY <1>4, <2>1, ManyIsNat, FS_AddElement DEF Many
    <2>3. ASSUME e.op \in ops PROVE LastIn(Append(q, e), by, ops)
      <3> SUFFICES ASSUME NEW i \in At(Append(q, e), by), \A j \in At(Append(q, e), by) : j <= i
                   PROVE  Append(q, e)[i].op \in ops
        BY DEF LastIn
      <3>1. i \in 1..(Len(q) + 1) /\ Len(q) + 1 <= i
        BY <1>1, <2>1 DEF At
      <3>2. i = Len(q) + 1
        BY <1>1, <3>1
      <3> QED
        BY <1>2, <2>3, <3>1, <3>2
    <2> QED
      BY <1>5, <2>2, <2>3
  <1>6. CASE ~IsOf(e, by)
    <2>1. At(Append(q, e), by) = At(q, by)
      BY <1>1, <1>2, <1>3, <1>6 DEF At
    <2>2. \A i \in At(q, by) : Append(q, e)[i] = q[i]
      BY <1>1, <1>2 DEF At
    <2> QED
      BY <1>6, <2>1, <2>2 DEF Many, LastIn
  <1> QED
    BY <1>5, <1>6

\* A message that is taken was the last one of its caller only if it was the only one.
LEMMA Taken ==
    ASSUME NEW S, NEW q \in Seq(S), q # <<>>, NEW by, NEW ops
    PROVE  /\ Many(q, by) = IF IsOf(Head(q), by) THEN Many(Tail(q), by) + 1 ELSE Many(Tail(q), by)
           /\ LastIn(q, by, ops) => LastIn(Tail(q), by, ops)
           /\ LastIn(q, by, ops) /\ IsOf(Head(q), by) /\ Many(Tail(q), by) = 0 => Head(q).op \in ops
  <1>1. Len(q) \in Nat \ {0} /\ Len(Tail(q)) = Len(q) - 1 /\ Head(q) = q[1]
    OBVIOUS
  <1>2. \A i \in 1..(Len(q) - 1) : Tail(q)[i] = q[i + 1]
    OBVIOUS
  <1> DEFINE Rest == {i \in 2..Len(q) : IsOf(q[i], by)}
             next == [i \in At(Tail(q), by) |-> i + 1]
  <1>3. next \in Bijection(At(Tail(q), by), Rest)
    <2>1. \A i \in At(Tail(q), by) : i \in Nat /\ i + 1 \in Rest
      BY <1>1, <1>2 DEF At
    <2>2. \A i, j \in At(Tail(q), by) : next[i] = next[j] => i = j
      BY <2>1
    <2>3. ASSUME NEW j \in Rest
          PROVE  \E i \in At(Tail(q), by) : next[i] = j
      <3>1. j - 1 \in 1..(Len(q) - 1) /\ (j - 1) + 1 = j /\ IsOf(q[j], by)
        BY <1>1
      <3>2. j - 1 \in At(Tail(q), by)
        BY <1>1, <1>2, <3>1 DEF At
      <3> QED
        BY <3>1, <3>2
    <2> QED
      BY <2>1, <2>2, <2>3, Fun_IsBij
  <1>4. Tail(q) \in Seq(S)
    OBVIOUS
  <1>5. IsFiniteSet(At(Tail(q), by))
    BY <1>4, ManyIsNat
  <1>6. IsFiniteSet(Rest) /\ Cardinality(Rest) = Many(Tail(q), by)
    <2> HIDE DEF Rest, next
    <2> QED
      BY <1>3, <1>5, FS_Bijection DEF Many, ExistsBijection
  <1>7. 1 \notin Rest
    OBVIOUS
  <1>8. \A i : i \in 1..Len(q) <=> i = 1 \/ i \in 2..Len(q)
    BY <1>1
  <1>9. Many(q, by) = IF IsOf(Head(q), by) THEN Many(Tail(q), by) + 1 ELSE Many(Tail(q), by)
    <2>1. At(q, by) = IF IsOf(Head(q), by) THEN Rest \cup {1} ELSE Rest
      BY <1>1, <1>8 DEF At
    <2> HIDE DEF Rest
    <2> QED
      BY <1>6, <1>7, <2>1, FS_AddElement DEF Many
  <1>10. ASSUME LastIn(q, by, ops)
         PROVE  LastIn(Tail(q), by, ops)
    <2> SUFFICES ASSUME NEW i \in At(Tail(q), by), \A j \in At(Tail(q), by) : j <= i
                 PROVE  Tail(q)[i].op \in ops
      BY DEF LastIn
    <2>1. i \in 1..(Len(q) - 1) /\ i + 1 \in At(q, by)
      BY <1>1, <1>2 DEF At
    <2>2. ASSUME NEW j \in At(q, by)
          PROVE  j <= i + 1
      <3>1. CASE j = 1
        BY <2>1, <3>1
      <3>2. CASE j # 1
        <4>1. j \in Rest
          BY <1>8, <3>2 DEF At
        <4>2. PICK k \in At(Tail(q), by) : next[k] = j
          <5>1. next \in Surjection(At(Tail(q), by), Rest)
            BY <1>3 DEF Bijection
          <5> QED
            BY <4>1, <5>1 DEF Surjection
        <4>3. k \in Nat /\ j = k + 1 /\ k <= i
          BY <1>1, <4>2 DEF At
        <4> QED
          BY <2>1, <4>3
      <3> QED
        BY <3>1, <3>2
    <2> QED
      BY <1>2, <1>10, <2>1, <2>2 DEF LastIn
  <1>11. ASSUME LastIn(q, by, ops), IsOf(Head(q), by), Many(Tail(q), by) = 0
         PROVE  Head(q).op \in ops
    <2>1. 1 \in At(q, by)
      BY <1>1, <1>11 DEF At
    <2>2. At(Tail(q), by) = {}
      BY <1>4, <1>11, ManyIsNat
    <2>3. \A j \in At(q, by) : j = 1
      <3>1. ASSUME NEW j \in At(q, by), j # 1
            PROVE  FALSE
        <4>1. j \in Rest
          BY <1>8, <3>1 DEF At
        <4>2. j - 1 \in 1..(Len(q) - 1) /\ Tail(q)[j - 1] = q[j]
          BY <1>1, <1>2, <4>1
        <4>3. j - 1 \in At(Tail(q), by)
          BY <1>1, <4>1, <4>2 DEF At
        <4> QED
          BY <2>2, <4>3
      <3> QED
        BY <3>1
    <2> QED
      BY <1>1, <1>11, <2>1, <2>3 DEF LastIn
  <1> QED
    BY <1>9, <1>10, <1>11

-----------------------------------------------------------------------------
(* What a step does to the queues.                                          *)

\* Whose a message is.
LEMMA CallersOfMessages ==
    /\ \A m \in Orders \cup Replies : \A by : IsOf(m, by) <=> m.by = by
    /\ \A m \in Signals : \A by : ~IsOf(m, by)
  <1>1. ASSUME NEW m \in Orders \cup Replies
        PROVE  "by" \in DOMAIN m
    BY DEF Orders, Replies
  <1>2. ASSUME NEW m \in Signals
        PROVE  "by" \notin DOMAIN m
    BY DEF Signals
  <1> QED
    BY <1>1, <1>2 DEF IsOf

\* A caller that gives up is written down as one that may still be answered.
LEMMA SkippedIsTyped ==
    ASSUME TypeOK, NEW by \in Callers,
           waiting' = waiting \ {by},
           skip' = IF up THEN [skip EXCEPT ![by] = @ + 1] ELSE skip,
           trouble' = trouble \/ (Mishap("slow") /\ trouble' = trouble + 1)
    PROVE  waiting' \subseteq Callers /\ skip' \in [Callers -> Nat] /\ trouble' \in 0..MaxTrouble
  <1>1. waiting \subseteq Callers /\ skip \in [Callers -> Nat]
    BY DEF TypeOK
  <1>2. trouble \in 0..MaxTrouble /\ MaxTrouble \in Nat
    BY ConstantsAssumption DEF TypeOK
  <1>3. trouble' \in 0..MaxTrouble
    BY <1>2 DEF Mishap
  <1> QED
    BY <1>1, <1>3

\* A call over the open connection is the last one of its caller.
LEMMA CallEffect ==
    ASSUME TypeInv, NEW c, NEW op, NEW n, [by |-> c, op |-> op, n |-> n] \in Orders,
           Call(c, op, n), UNCHANGED wire
    PROVE  /\ calls' \in Seq(Orders)
           /\ up => /\ Underway(c)' = Underway(c) + 1
                    /\ \A x : x # c => Underway(x)' = Underway(x)
                    /\ \A ops : op \in ops => LastCallIn(calls', wire', c, ops)
                    /\ \A x, ops : x # c /\ LastCallIn(calls, wire, x, ops) => LastCallIn(calls', wire', x, ops)
  <1> DEFINE m == [by |-> c, op |-> op, n |-> n]
  <1>1. calls \in Seq(Orders) /\ wire \in Seq(Replies \cup Signals) /\ up \in BOOLEAN
    BY DEF TypeInv, TypeOK
  <1>2. calls' = IF up THEN Append(calls, m) ELSE calls
    BY DEF Call
  <1>3. \A x : IsOf(m, x) <=> x = c
    BY CallersOfMessages
  <1>4. m.op = op
    OBVIOUS
  <1> HIDE DEF m
  <1>5. m \in Orders
    BY DEF m
  <1>6. calls' \in Seq(Orders)
    BY <1>1, <1>2, <1>5
  <1>7. ASSUME up
        PROVE  /\ Underway(c)' = Underway(c) + 1
               /\ \A x : x # c => Underway(x)' = Underway(x)
               /\ \A ops : op \in ops => LastCallIn(calls', wire', c, ops)
               /\ \A x, ops : x # c /\ LastCallIn(calls, wire, x, ops) => LastCallIn(calls', wire', x, ops)
    <2>1. calls' = Append(calls, m)
      BY <1>2, <1>7
    <2>2. \A x : Many(calls, x) \in Nat /\ Many(wire, x) \in Nat
      BY <1>1, ManyIsNat
    <2>3. \A x : Many(calls', x) = IF x = c THEN Many(calls, x) + 1 ELSE Many(calls, x)
      BY <1>1, <1>3, <1>5, <2>1, Appended
    <2>4. \A ops : op \in ops => LastIn(calls', c, ops)
      BY <1>1, <1>3, <1>4, <1>5, <2>1, Appended
    <2>5. \A x, ops : x # c /\ LastIn(calls, x, ops) => LastIn(calls', x, ops)
      BY <1>1, <1>3, <1>5, <2>1, Appended
    <2>6. \A x : Underway(x) = Many(calls, x) + Many(wire, x) /\ Underway(x)' = Many(calls', x) + Many(wire, x)
      BY DEF Underway
    <2>7. Many(calls', c) # 0
      BY <2>2, <2>3
    <2>8. Underway(c)' = Underway(c) + 1
      BY <2>2, <2>3, <2>6
    <2>9. \A x : x # c => Underway(x)' = Underway(x)
      BY <2>3, <2>6
    <2>10. \A ops : op \in ops => LastCallIn(calls', wire', c, ops)
      BY <2>4, <2>7 DEF LastCallIn
    <2>11. \A x, ops : x # c /\ LastCallIn(calls, wire, x, ops) => LastCallIn(calls', wire', x, ops)
      BY <2>3, <2>5 DEF LastCallIn
    <2> QED
      BY <2>8, <2>9, <2>10, <2>11
  <1> QED
    BY <1>6, <1>7

\* The next call becomes a reply: nothing is under way that was not before.
LEMMA ProcessEffect ==
    ASSUME TypeInv, Process
    PROVE  /\ calls' \in Seq(Orders) /\ wire' \in Seq(Replies \cup Signals)
           /\ \A x : Underway(x)' = Underway(x)
           /\ \A x, ops : LastCallIn(calls, wire, x, ops) => LastCallIn(calls', wire', x, ops)
  <1> DEFINE c == Head(calls)
             m == [kind |-> "reply", by |-> c.by, op |-> c.op, v |-> IF c.op = "get" THEN ver[c.n] ELSE 0]
  <1>1. calls \in Seq(Orders) /\ wire \in Seq(Replies \cup Signals) /\ ver \in [Units -> 0..MaxVer]
    BY DEF TypeInv, TypeOK
  <1>2. calls # <<>> /\ calls' = Tail(calls) /\ wire' = Append(wire, m)
    BY DEF Process
  <1>3. c \in Orders
    BY <1>1, <1>2
  <1>4. m \in Replies
    <2>1. /\ c.by \in Callers /\ c.op \in Ops /\ (c.op = "get" => c.n \in Units)
          /\ c.by = "flusher" <=> c.op = "get"
      BY <1>3 DEF Orders, Callers, Ops
    <2>2. (IF c.op = "get" THEN ver[c.n] ELSE 0) \in 0..MaxVer
      BY <1>1, <2>1, ConstantsAssumption
    <2> QED
      BY <2>1, <2>2 DEF Replies, Callers
  <1>5. m.by = c.by /\ m.op = c.op
    OBVIOUS
  <1> HIDE DEF m, c
  <1>6. \A x : (IsOf(m, x) <=> x = c.by) /\ (IsOf(c, x) <=> x = c.by)
    BY <1>3, <1>4, <1>5, CallersOfMessages
  <1>7. calls' \in Seq(Orders) /\ wire' \in Seq(Replies \cup Signals)
    BY <1>1, <1>2, <1>4
  <1>8. \A x : Many(calls', x) \in Nat /\ Many(wire, x) \in Nat
    BY <1>1, <1>7, ManyIsNat
  <1>9. \A x : Many(calls, x) = IF x = c.by THEN Many(calls', x) + 1 ELSE Many(calls', x)
    BY <1>1, <1>2, <1>6, Taken DEF c
  <1>10. \A x : Many(wire', x) = IF x = c.by THEN Many(wire, x) + 1 ELSE Many(wire, x)
    <2>1. wire \in Seq(Replies \cup Signals) /\ m \in Replies \cup Signals /\ wire' = Append(wire, m)
      BY <1>1, <1>2, <1>4
    <2> QED
      BY <1>6, <2>1, Appended
  <1>11. ASSUME NEW x, NEW ops, LastCallIn(calls, wire, x, ops)
         PROVE  LastCallIn(calls', wire', x, ops)
    <2>1. LastIn(calls', x, ops)
      BY <1>1, <1>2, <1>11, Taken DEF LastCallIn
    <2>2. ASSUME Many(calls', x) = 0
          PROVE  LastIn(wire', x, ops)
      <3>1. CASE x = c.by
        <4>1. IsOf(c, x) /\ IsOf(m, x)
          BY <1>6, <3>1
        <4>2. c.op \in ops
          BY <1>1, <1>2, <1>11, <2>2, <4>1, Taken DEF LastCallIn, c
        <4> QED
          BY <1>1, <1>2, <1>4, <1>5, <4>1, <4>2, Appended
      <3>2. CASE x # c.by
        <4>1. ~IsOf(m, x)
          BY <1>6, <3>2
        <4>2. LastIn(wire, x, ops)
          BY <1>9, <1>11, <2>2, <3>2 DEF LastCallIn
        <4> QED
          BY <1>1, <1>2, <1>4, <4>1, <4>2, Appended
      <3> QED
        BY <3>1, <3>2
    <2> QED
      BY <2>1, <2>2 DEF LastCallIn
  <1>12. \A x : Underway(x)' = Underway(x)
    <2>1. ASSUME NEW x
          PROVE  Many(calls', x) + Many(wire', x) = Many(calls, x) + Many(wire, x)
      <3>1. PICK a \in Nat, b \in Nat : a = Many(calls', x) /\ b = Many(wire, x)
        BY <1>8
      <3> QED
        BY <1>9, <1>10, <3>1
    <2> QED
      BY <2>1 DEF Underway
  <1> QED
    BY <1>7, <1>11, <1>12

\* The reading task takes a message.  The reply that is the only one left under way
\* answers the last call.
LEMMA ReadEffect ==
    ASSUME TypeInv, wire # <<>>, wire' = Tail(wire), UNCHANGED calls
    PROVE  /\ wire' \in Seq(Replies \cup Signals)
           /\ \A x : Underway(x) = IF IsOf(Head(wire), x) THEN Underway(x)' + 1 ELSE Underway(x)'
           /\ \A x, ops : LastCallIn(calls, wire, x, ops) => LastCallIn(calls', wire', x, ops)
           /\ \A x, ops : LastCallIn(calls, wire, x, ops) /\ IsOf(Head(wire), x) /\ Underway(x) = 1 => Head(wire).op \in ops
           /\ \A x : Underway(x)' \in Nat
  <1>1. calls \in Seq(Orders) /\ wire \in Seq(Replies \cup Signals)
    BY DEF TypeInv, TypeOK
  <1>2. wire' \in Seq(Replies \cup Signals)
    BY <1>1
  <1>3. \A x : Many(calls, x) \in Nat /\ Many(wire', x) \in Nat
    BY <1>1, <1>2, ManyIsNat
  <1>4. \A x : Many(wire, x) = IF IsOf(Head(wire), x) THEN Many(wire', x) + 1 ELSE Many(wire', x)
    BY <1>1, Taken
  <1>5. \A x : Underway(x) = Many(calls, x) + Many(wire, x) /\ Underway(x)' = Many(calls, x) + Many(wire', x)
    BY DEF Underway
  <1>6. \A x, ops : LastCallIn(calls, wire, x, ops) => LastCallIn(calls', wire', x, ops)
    BY <1>1, Taken DEF LastCallIn
  <1>7. ASSUME NEW x, NEW ops, LastCallIn(calls, wire, x, ops), IsOf(Head(wire), x), Underway(x) = 1
        PROVE  Head(wire).op \in ops
    <2>1. PICK a \in Nat, b \in Nat : a = Many(calls, x) /\ b = Many(wire', x)
      BY <1>3
    <2>2. a + (b + 1) = 1
      BY <1>4, <1>5, <1>7, <2>1
    <2>3. Many(calls, x) = 0 /\ Many(wire', x) = 0
      BY <2>1, <2>2
    <2>4. LastIn(wire, x, ops)
      BY <1>7, <2>3 DEF LastCallIn
    <2> QED
      BY <1>1, <1>7, <2>3, <2>4, Taken
  <1>8. \A x : Underway(x) = IF IsOf(Head(wire), x) THEN Underway(x)' + 1 ELSE Underway(x)'
    <2> SUFFICES ASSUME NEW x
                 PROVE  Underway(x) = IF IsOf(Head(wire), x) THEN Underway(x)' + 1 ELSE Underway(x)'
      OBVIOUS
    <2>1. PICK a \in Nat, b \in Nat : a = Many(calls, x) /\ b = Many(wire', x)
      BY <1>3
    <2> QED
      BY <1>4, <1>5, <2>1
  <1>9. \A x : Underway(x)' \in Nat
    BY <1>3, <1>5
  <1> QED
    BY <1>2, <1>6, <1>7, <1>8, <1>9

\* Signals are nobody's replies.
LEMMA ChangeEffect ==
    ASSUME TypeInv, NEW u \in Units, Change(u)
    PROVE  /\ wire' \in Seq(Replies \cup Signals)
           /\ \A x : Underway(x)' = Underway(x)
           /\ \A x, ops : LastCallIn(calls, wire, x, ops) => LastCallIn(calls', wire', x, ops)
  <1> DEFINE sig(k) == [kind |-> "signal", k |-> k, u |-> u]
  <1>1. calls \in Seq(Orders) /\ wire \in Seq(Replies \cup Signals) /\ calls' = calls
    BY DEF TypeInv, Change
  <1>2. \A k \in Kinds : sig(k) \in Signals
    BY DEF Signals
  <1>3. NStreams \in Kinds
    BY ConstantsAssumption DEF Kinds
  <1>4. \/ wire' = wire
        \/ \E k \in Kinds : wire' = Append(wire, sig(k))
        \/ \E k \in Kinds : wire' = Append(Append(wire, sig(k)), sig(NStreams))
    <2> DEFINE sent(k) == IF subscribed /\ k <= rules THEN <<sig(k)>> ELSE <<>>
    <2>1. \/ wire' = wire \o sent(NStreams)
          \/ \E k \in Kinds : wire' = wire \o sent(k) \o sent(NStreams)
      BY DEF Change
    <2>2. ASSUME NEW q \in Seq(Replies \cup Signals), NEW k
          PROVE  q \o sent(k) = q \/ q \o sent(k) = Append(q, sig(k))
      OBVIOUS
    <2>3. \A k \in Kinds : Append(wire, sig(k)) \in Seq(Replies \cup Signals)
      BY <1>1, <1>2
    <2> HIDE DEF sent, sig
    <2>4. CASE wire' = wire \o sent(NStreams)
      BY <1>1, <1>3, <2>2, <2>4
    <2>5. ASSUME NEW k \in Kinds, wire' = wire \o sent(k) \o sent(NStreams)
          PROVE  \/ wire' = wire
                 \/ \E j \in Kinds : wire' = Append(wire, sig(j))
                 \/ \E j \in Kinds : wire' = Append(Append(wire, sig(j)), sig(NStreams))
      <3>1. CASE wire \o sent(k) = wire
        BY <1>1, <1>3, <2>2, <2>5, <3>1
      <3>2. CASE wire \o sent(k) = Append(wire, sig(k))
        <4>1. wire' = Append(wire, sig(k)) \o sent(NStreams)
          BY <2>5, <3>2
        <4>2. wire' = Append(wire, sig(k)) \/ wire' = Append(Append(wire, sig(k)), sig(NStreams))
          BY <2>2, <2>3, <4>1
        <4> QED
          BY <4>2
      <3> QED
        BY <1>1, <2>2, <3>1, <3>2
    <2> QED
      BY <2>1, <2>4, <2>5
  <1> HIDE DEF sig
  <1>5. ASSUME NEW q \in Seq(Replies \cup Signals), NEW k \in Kinds
        PROVE  /\ Append(q, sig(k)) \in Seq(Replies \cup Signals)
               /\ \A x : Many(Append(q, sig(k)), x) = Many(q, x)
               /\ \A x, ops : LastIn(q, x, ops) => LastIn(Append(q, sig(k)), x, ops)
    <2>1. sig(k) \in Replies \cup Signals /\ \A x : ~IsOf(sig(k), x)
      BY <1>2, CallersOfMessages
    <2> QED
      BY <2>1, Appended
  <1> DEFINE Same(q) == /\ q \in Seq(Replies \cup Signals)
                        /\ \A x : Many(q, x) = Many(wire, x)
                        /\ \A x, ops : LastIn(wire, x, ops) => LastIn(q, x, ops)
  <1>6. Same(wire')
    <2>1. \A q : Same(q) => \A k \in Kinds : Same(Append(q, sig(k)))
      BY <1>5
    <2>2. Same(wire)
      BY <1>1
    <2> HIDE DEF Same
    <2> QED
      BY <1>3, <1>4, <2>1, <2>2
  <1> QED
    BY <1>1, <1>6 DEF Underway, LastCallIn

-----------------------------------------------------------------------------
(* Who listens.                                                             *)

\* A step of the one who holds the flag decides what the others see of it.
LEMMA HolderIsAlone ==
    ASSUME HolderInv
    PROVE  /\ \A t \in Holders : /\ SomeSetup <=> SettingUp(t)
                                 /\ SomeLoop <=> Polling(t)
                                 /\ SomeUnsub <=> lpc[t] = "unsub"
           /\ Holders = {} => ~SomeSetup /\ ~SomeLoop /\ ~SomeUnsub
  BY DEF HolderInv, Holders, SomeSetup, SomeLoop, SomeUnsub, SettingUp, Polling

\* The flag is taken only when it is free, and given back by its holder.
LEMMA NextHolderInv ==
    ASSUME TypeOK, HolderInv, Next
    PROVE  HolderInv'
  <1>0. /\ spc \in [Subscribers -> {"none", "rx", "setup", "ready"}]
        /\ lpc \in [Subscribers -> {"none", "loop", "drain", "unsub", "regrab", "setup"}]
    BY DEF TypeOK
  <1> USE DEF HolderInv, Holders
  <1>1. CASE UNCHANGED <<flag, spc, lpc>>
    BY <1>1
  <1>2. ASSUME NEW r \in Subscribers, Subscribe(r) \/ JoinListener(r) \/ Unsubscribe(r)
        PROVE  HolderInv'
    BY <1>0, <1>2 DEF Subscribe, JoinListener, Unsubscribe
  <1>3. ASSUME NEW r \in Subscribers, StartListener(r)
        PROVE  HolderInv'
    BY <1>0, <1>3 DEF StartListener
  <1>4. ASSUME NEW t \in Subscribers, SetupDone(t)
        PROVE  HolderInv'
    BY <1>0, <1>4 DEF SetupDone, Settled, SettingUp
  <1>5. ASSUME NEW t \in Subscribers, SetupFails(t)
        PROVE  HolderInv'
    BY <1>0, <1>5 DEF SetupFails, Settled, SettingUp
  <1>6. ASSUME NEW t \in Subscribers, NEW why, Exit(t, why)
        PROVE  HolderInv'
    BY <1>0, <1>6 DEF Exit, Polling
  <1>7. ASSUME NEW t \in Subscribers, BeginUnsubscribe(t) \/ Rebuild(t)
        PROVE  HolderInv'
    BY <1>0, <1>7 DEF BeginUnsubscribe, Rebuild, Drained
  <1>8. ASSUME NEW t \in Subscribers, FinishRetire(t) \/ EndDisconnected(t)
        PROVE  HolderInv'
    <2>1. /\ flag' = FALSE /\ spc' = spc /\ lpc[t] \in {"unsub", "drain"}
          /\ lpc' = [lpc EXCEPT ![t] = "none"] \/ lpc' = [lpc EXCEPT ![t] = "regrab"]
      BY <1>8 DEF FinishRetire, EndDisconnected, Drained
    <2>2. \A a \in Holders : a = t
      BY <2>1
    <2>3. Holders' = {}
      BY <1>0, <2>1, <2>2
    <2> QED
      BY <2>1, <2>3
  <1>9. ASSUME NEW t \in Subscribers, Regrab(t)
        PROVE  HolderInv'
    BY <1>0, <1>9 DEF Regrab
  <1>10. ASSUME NEW t \in Subscribers, StepBack(t)
         PROVE  HolderInv'
    BY <1>0, <1>10 DEF StepBack
  <1>11. ASSUME NEW t \in Subscribers, SetupStep(t) \/ Flush(t) \/ UnsubscribeFails(t)
                                       \/ \E k \in Kinds : Mark(t, k)
         PROVE  UNCHANGED <<flag, spc, lpc>>
    BY <1>11 DEF SetupStep, Flush, Mark, UnsubscribeFails, listener
  <1>12. ASSUME (\E u \in Units : Change(u)) \/ Bus \/ Flusher \/ Panic \/ Cut
         PROVE  UNCHANGED <<flag, spc, lpc>>
    BY <1>12 DEF Change, Bus, Process, ReadSignal, ReadReply, Flusher, TakeBatch, Fetch, Fetched,
                 FetchFails, Send, Panic, Cut, listener
  <1> QED
    BY <1>1, <1>2, <1>3, <1>4, <1>5, <1>6, <1>7, <1>8, <1>9, <1>10, <1>11, <1>12
       DEF Next, Setup, Loop, Retire, RetireIdle, Disconnected, FlusherGone

-----------------------------------------------------------------------------
(* The replies and the streams.                                             *)

\* More may be expected.
LEMMA MoreIsExpected ==
    ASSUME NEW q, NEW p, NEW x, NEW A, NEW B, A \subseteq B, LastCallIn(q, p, x, A)
    PROVE  LastCallIn(q, p, x, B)
  BY DEF LastCallIn, LastIn

\* A step that leaves the queues and whoever waits alone: setups and loops may come
\* and go as long as somebody still has the streams, and no setup is left waiting.
LEMMA QuietStep ==
    ASSUME PipeInv, UNCHANGED <<up, calls, wire, waiting, skip>>,
           "listener" \in waiting => (SomeSetup' <=> SomeSetup) /\ (SomeUnsub' <=> SomeUnsub) /\ phase' = phase,
           StreamsAreOwned'
    PROVE  PipeInv'
  <1>1. RepliesAreCounted'
    BY DEF PipeInv, RepliesAreCounted, Underway
  <1>2. WaitsForAReason'
    BY DEF PipeInv, WaitsForAReason
  <1>3. LastIsExplained'
    <2> SUFFICES ASSUME up', "listener" \in waiting'
                 PROVE  LastCallIn(calls', wire', "listener", Expected')
      BY DEF LastIsExplained
    <2>1. Expected' = Expected
      BY DEF Expected
    <2> QED
      BY <2>1 DEF PipeInv, LastIsExplained
  <1> QED
    BY <1>1, <1>2, <1>3 DEF PipeInv

\* The steps that leave the queues alone.
LEMMA QuietStepsKeepPipe ==
    ASSUME TypeInv, HolderInv, PipeInv, NEW t \in Subscribers,
           \/ Subscribe(t) \/ JoinListener(t) \/ Unsubscribe(t)
           \/ SetupDone(t) \/ Flush(t) \/ (\E k \in Kinds : Mark(t, k))
           \/ (\E why : Exit(t, why)) \/ FinishRetire(t) \/ StepBack(t) \/ EndDisconnected(t)
    PROVE  PipeInv'
  <1>0. /\ spc \in [Subscribers -> {"none", "rx", "setup", "ready"}]
        /\ lpc \in [Subscribers -> {"none", "loop", "drain", "unsub", "regrab", "setup"}]
        /\ streams \in 0..NStreams /\ phase \in 0..NStreams /\ NStreams \in Nat
    BY ConstantsAssumption DEF TypeInv, TypeOK
  <1>1. UNCHANGED <<up, calls, wire, waiting, skip>>
    BY DEF Subscribe, JoinListener, Unsubscribe, SetupDone, Flush, Mark, Exit, FinishRetire, StepBack,
           EndDisconnected, bus, client
  <1>2. CASE \/ Subscribe(t) \/ JoinListener(t) \/ Unsubscribe(t)
             \/ Flush(t) \/ (\E k \in Kinds : Mark(t, k)) \/ StepBack(t)
    <2>1. /\ SomeSetup' <=> SomeSetup
          /\ SomeLoop' <=> SomeLoop
          /\ SomeUnsub' <=> SomeUnsub
      BY <1>0, <1>2 DEF SomeSetup, SomeLoop, SomeUnsub, SettingUp, Polling,
                 Subscribe, JoinListener, Unsubscribe, Flush, Mark, StepBack
    <2>2. streams' = streams /\ phase' = phase
      BY <1>2 DEF Subscribe, JoinListener, Unsubscribe, Flush, Mark, StepBack, client
    <2>3. StreamsAreOwned'
      BY <1>1, <2>1, <2>2 DEF PipeInv, StreamsAreOwned
    <2> QED
      BY <1>1, <2>1, <2>2, <2>3, QuietStep
  <1>3. CASE SetupDone(t)
    <2>1. t \in Holders /\ SettingUp(t) /\ "listener" \notin waiting /\ lpc'[t] = "loop" /\ streams' = streams
      BY <1>0, <1>3 DEF SetupDone, Settled, SettingUp, Holders, Answered
    <2>2. SomeLoop' /\ ~SomeSetup'
      <3>1. /\ lpc' = [lpc EXCEPT ![t] = "loop"]
            /\ spc' = IF spc[t] = "setup" THEN [spc EXCEPT ![t] = "ready"] ELSE spc
        BY <1>3 DEF SetupDone, Settled
      <3>2. \A r \in Subscribers : r # t => ~SettingUp(r)
        BY <2>1 DEF HolderInv, Holders, SettingUp
      <3> QED
        BY <1>0, <2>1, <3>1, <3>2 DEF SomeLoop, SomeSetup, SettingUp, Polling
    <2>3. StreamsAreOwned'
      BY <2>2 DEF StreamsAreOwned
    <2> QED
      BY <1>1, <2>1, <2>3, QuietStep
  <1>4. ASSUME NEW why, Exit(t, why)
        PROVE  PipeInv'
    <2>1. t \in Holders /\ Polling(t) /\ streams' = 0 /\ phase' = phase
      BY <1>4 DEF Exit, Polling, Holders, DropStreams
    <2>3. (SomeSetup' <=> SomeSetup) /\ (SomeUnsub' <=> SomeUnsub)
      BY <1>0, <1>4 DEF SomeSetup, SomeUnsub, SettingUp, Exit, Polling
    <2>4. StreamsAreOwned'
      BY <1>0, <1>1, <2>1, <2>3 DEF PipeInv, StreamsAreOwned
    <2> QED
      BY <1>1, <2>1, <2>3, <2>4, QuietStep
  <1>5. CASE FinishRetire(t)
    <2>1. "listener" \notin waiting /\ t \in Holders /\ lpc[t] = "unsub" /\ streams' = streams
      BY <1>5 DEF FinishRetire, Answered, Holders
    <2>2. ~SomeLoop /\ (SomeSetup <=> SettingUp(t)) /\ (SomeSetup' <=> SomeSetup) /\ phase' = phase
      BY <1>0, <1>5, <2>1, HolderIsAlone DEF FinishRetire, SomeSetup, SettingUp, Polling
    <2>3. StreamsAreOwned'
      BY <1>1, <2>1, <2>2 DEF PipeInv, StreamsAreOwned
    <2> QED
      BY <1>1, <2>1, <2>3, QuietStep
  <1>6. CASE EndDisconnected(t)
    <2>1. t \in Holders /\ lpc[t] = "drain" /\ streams' = streams /\ phase' = phase
      BY <1>6 DEF EndDisconnected, Drained, Holders, client
    <2>2. ~SomeLoop /\ (SomeSetup' <=> SomeSetup) /\ (SomeUnsub' <=> SomeUnsub)
      BY <1>0, <1>6, <2>1, HolderIsAlone DEF EndDisconnected, SomeSetup, SomeUnsub, SettingUp, Polling
    <2>3. StreamsAreOwned'
      BY <1>1, <2>1, <2>2 DEF PipeInv, StreamsAreOwned
    <2> QED
      BY <1>1, <2>1, <2>2, <2>3, QuietStep
  <1> QED
    BY <1>2, <1>3, <1>4, <1>5, <1>6

\* What does not move the tasks of the listener leaves their roles alone.
LEMMA RolesStay ==
    ASSUME UNCHANGED <<spc, lpc>>
    PROVE  (SomeSetup' <=> SomeSetup) /\ (SomeLoop' <=> SomeLoop) /\ (SomeUnsub' <=> SomeUnsub)
  BY DEF SomeSetup, SomeLoop, SomeUnsub, SettingUp, Polling

\* The reply that answers the listener is about what it was expected to be about.
LEMMA AnswerIsExpected ==
    ASSUME TypeInv, PipeInv, up, wire # <<>>, Head(wire).kind = "reply", Head(wire).by = "listener",
           skip["listener"] = 0
    PROVE  /\ "listener" \in waiting
           /\ Head(wire).op = "match" => SomeSetup /\ phase > 0 /\ streams < phase
  <1> DEFINE m == Head(wire)
  <1>1. /\ wire \in Seq(Replies \cup Signals) /\ calls \in Seq(Orders)
        /\ Tail(wire) \in Seq(Replies \cup Signals)
    BY DEF TypeInv
  <1>2. m \in Replies
    BY <1>1 DEF Signals
  <1>3. IsOf(m, "listener")
    BY <1>2, CallersOfMessages
  <1>4. Underway("listener") = IF "listener" \in waiting THEN 1 ELSE 0
    BY DEF PipeInv, RepliesAreCounted, Callers
  <1>5. Underway("listener") \in Nat /\ Underway("listener") # 0
    <2>1. Many(calls, "listener") \in Nat /\ Many(Tail(wire), "listener") \in Nat
      BY <1>1, ManyIsNat
    <2>2. Many(wire, "listener") = Many(Tail(wire), "listener") + 1
      BY <1>1, <1>3, Taken
    <2> QED
      BY <2>1, <2>2 DEF Underway
  <1>6. "listener" \in waiting /\ Underway("listener") = 1
    BY <1>4, <1>5
  <1>7. LastCallIn(calls, wire, "listener", Expected)
    BY <1>6 DEF PipeInv, LastIsExplained
  <1>8. m.op \in Expected
    <2>1. Many(calls, "listener") = 0 /\ Many(Tail(wire), "listener") = 0
      <3>1. PICK a \in Nat, b \in Nat : a = Many(calls, "listener") /\ b = Many(Tail(wire), "listener")
        BY <1>1, ManyIsNat
      <3>2. Many(wire, "listener") = b + 1
        BY <1>1, <1>3, <3>1, Taken
      <3>3. a + (b + 1) = 1
        BY <1>6, <3>1, <3>2 DEF Underway
      <3> QED
        BY <3>1, <3>3
    <2> QED
      BY <1>1, <1>3, <1>7, <2>1, Taken DEF LastCallIn
  <1> QED
    BY <1>6, <1>8 DEF Expected, PipeInv, StreamsAreOwned

\* Units that change, and systemd that answers.
LEMMA SystemdKeepsPipe ==
    ASSUME TypeInv, PipeInv, (\E u \in Units : Change(u)) \/ Process
    PROVE  PipeInv'
  <1>1. UNCHANGED <<up, waiting, skip, streams, spc, lpc, phase>>
    BY DEF Change, Process, client, listener
  <1>2. /\ \A x : Underway(x)' = Underway(x)
        /\ \A x, ops : LastCallIn(calls, wire, x, ops) => LastCallIn(calls', wire', x, ops)
    BY ChangeEffect, ProcessEffect
  <1>3. RepliesAreCounted'
    BY <1>1, <1>2 DEF PipeInv, RepliesAreCounted
  <1>4. WaitsForAReason' /\ StreamsAreOwned' /\ Expected' = Expected
    BY <1>1, RolesStay DEF PipeInv, WaitsForAReason, StreamsAreOwned, Expected
  <1>5. LastIsExplained'
    BY <1>1, <1>2, <1>4 DEF PipeInv, LastIsExplained
  <1> QED
    BY <1>3, <1>4, <1>5 DEF PipeInv

\* The reading task.
LEMMA ReadingKeepsPipe ==
    ASSUME TypeInv, PipeInv, up, ReadSignal \/ ReadReply
    PROVE  PipeInv'
  <1> DEFINE m == Head(wire)
  <1>1. /\ UNCHANGED <<up, calls, spc, lpc, phase>> /\ wire # <<>> /\ wire' = Tail(wire)
        /\ wire \in Seq(Replies \cup Signals) /\ skip \in [Callers -> Nat] /\ waiting \subseteq Callers
        /\ streams \in 0..NStreams /\ NStreams \in Nat /\ phase \in Nat
    <2>1. /\ wire \in Seq(Replies \cup Signals) /\ skip \in [Callers -> Nat] /\ waiting \subseteq Callers
          /\ streams \in 0..NStreams /\ NStreams \in Nat /\ phase \in 0..NStreams
      BY ConstantsAssumption DEF TypeInv, TypeOK
    <2>2. UNCHANGED <<up, calls, spc, lpc, phase>> /\ wire # <<>> /\ wire' = Tail(wire)
      BY DEF ReadSignal, ReadReply, listener
    <2> QED
      BY <2>1, <2>2
  <1>2. /\ \A x : Underway(x) = IF IsOf(m, x) THEN Underway(x)' + 1 ELSE Underway(x)'
        /\ \A x, ops : LastCallIn(calls, wire, x, ops) => LastCallIn(calls', wire', x, ops)
        /\ \A x : Underway(x)' \in Nat
    BY <1>1, ReadEffect
  <1>3. m \in Replies \cup Signals
    BY <1>1
  <1>4. Expected' = Expected /\ (SomeSetup' <=> SomeSetup) /\ (SomeLoop' <=> SomeLoop) /\ (SomeUnsub' <=> SomeUnsub)
    BY <1>1, RolesStay DEF Expected
  <1>5. waiting' \subseteq waiting
    BY DEF ReadSignal, ReadReply
  <1>6. RepliesAreCounted'
    <2> SUFFICES ASSUME NEW x \in Callers
                 PROVE  Underway(x)' = skip'[x] + (IF x \in waiting' THEN 1 ELSE 0)
      BY DEF RepliesAreCounted
    <2>1. Underway(x) = skip[x] + (IF x \in waiting THEN 1 ELSE 0)
      BY DEF PipeInv, RepliesAreCounted
    <2>2. PICK n \in Nat, k \in Nat : n = Underway(x)' /\ k = skip[x]
      BY <1>1, <1>2
    <2>3. CASE ReadSignal
      <3>1. ~IsOf(m, x) /\ UNCHANGED <<skip, waiting>>
        BY <1>3, <2>3, CallersOfMessages DEF ReadSignal, Replies
      <3> QED
        BY <1>2, <2>1, <3>1
    <2>4. CASE ReadReply
      <3>1. m \in Replies /\ m.kind = "reply"
        BY <1>3, <2>4 DEF ReadReply, Signals
      <3>2. IsOf(m, x) <=> x = m.by
        BY <3>1, CallersOfMessages
      <3>3. CASE x # m.by
        <4>1. skip'[x] = skip[x] /\ (x \in waiting' <=> x \in waiting)
          BY <1>1, <2>4, <3>3 DEF ReadReply
        <4> QED
          BY <1>2, <2>1, <3>2, <3>3, <4>1
      <3>4. CASE x = m.by /\ skip[x] = 0
        <4>1. skip' = skip /\ x \notin waiting'
          BY <2>4, <3>4 DEF ReadReply
        <4>2. n + 1 = IF x \in waiting THEN 1 ELSE 0
          BY <1>2, <2>1, <2>2, <3>2, <3>4
        <4> QED
          BY <2>2, <3>4, <4>1, <4>2
      <3>5. CASE x = m.by /\ skip[x] # 0
        <4>1. skip'[x] = k - 1 /\ waiting' = waiting
          BY <1>1, <2>2, <2>4, <3>5 DEF ReadReply
        <4>2. n + 1 = k + (IF x \in waiting THEN 1 ELSE 0)
          BY <1>2, <2>1, <2>2, <3>2, <3>5
        <4> QED
          BY <2>2, <4>1, <4>2
      <3> QED
        BY <3>3, <3>4, <3>5
    <2> QED
      BY <2>3, <2>4
  <1>7. WaitsForAReason'
    BY <1>4, <1>5 DEF PipeInv, WaitsForAReason
  <1>8. LastIsExplained'
    BY <1>1, <1>2, <1>4, <1>5 DEF PipeInv, LastIsExplained
  <1>9. StreamsAreOwned'
    <2>1. CASE streams' = streams
      BY <1>1, <1>4, <1>5, <2>1 DEF PipeInv, StreamsAreOwned
    <2>2. CASE streams' # streams
      <3>1. ReadReply /\ m.kind = "reply" /\ skip[m.by] = 0 /\ m.op = "match" /\ streams' = streams + 1
        BY <2>2 DEF ReadSignal, ReadReply
      <3>2. m.by = "listener"
        <4>1. m \in Replies
          BY <1>3, <3>1 DEF Signals
        <4> QED
          BY <3>1, <4>1 DEF Replies
      <3>3. "listener" \in waiting /\ SomeSetup /\ phase > 0 /\ streams < phase
        BY <1>1, <3>1, <3>2, AnswerIsExpected
      <3>4. "listener" \notin waiting'
        BY <3>1, <3>2 DEF ReadReply
      <3> QED
        BY <1>1, <1>4, <3>1, <3>3, <3>4 DEF StreamsAreOwned
    <2> QED
      BY <2>1, <2>2
  <1> QED
    BY <1>6, <1>7, <1>8, <1>9 DEF PipeInv

\* A call of the listener, which awaited nothing before it.
LEMMA ListenerCalls ==
    ASSUME TypeInv, PipeInv, "listener" \notin waiting, NEW op, NEW n,
           [by |-> "listener", op |-> op, n |-> n] \in Orders,
           Call("listener", op, n), UNCHANGED <<up, wire, skip>>,
           SomeSetup' \/ SomeUnsub', op \in Expected', StreamsAreOwned'
    PROVE  PipeInv'
  <1>1. up => /\ Underway("listener")' = Underway("listener") + 1
              /\ \A x : x # "listener" => Underway(x)' = Underway(x)
              /\ \A ops : op \in ops => LastCallIn(calls', wire', "listener", ops)
    BY CallEffect
  <1>2. waiting' = waiting \cup {"listener"}
    BY DEF Call
  <1>3. RepliesAreCounted'
    <2> SUFFICES ASSUME up', NEW x \in Callers
                 PROVE  Underway(x)' = skip'[x] + (IF x \in waiting' THEN 1 ELSE 0)
      BY DEF RepliesAreCounted
    <2>1. Underway(x) = skip[x] + (IF x \in waiting THEN 1 ELSE 0) /\ skip[x] \in Nat
      BY DEF PipeInv, RepliesAreCounted, TypeInv, TypeOK
    <2> QED
      BY <1>1, <1>2, <2>1
  <1>4. LastIsExplained'
    BY <1>1 DEF LastIsExplained
  <1> QED
    BY <1>3, <1>4 DEF PipeInv, WaitsForAReason

\* The steps of the listener that call.
LEMMA CallingKeepsPipe ==
    ASSUME TypeInv, HolderInv, PipeInv, NEW t \in Subscribers,
           StartListener(t) \/ Regrab(t) \/ Rebuild(t) \/ SetupStep(t) \/ BeginUnsubscribe(t)
    PROVE  PipeInv'
  <1>0. /\ spc \in [Subscribers -> {"none", "rx", "setup", "ready"}]
        /\ lpc \in [Subscribers -> {"none", "loop", "drain", "unsub", "regrab", "setup"}]
        /\ streams \in 0..NStreams /\ phase \in 0..NStreams /\ NStreams \in Nat
    BY ConstantsAssumption DEF TypeInv, TypeOK
  <1>1. UNCHANGED <<up, wire, skip, streams>>
    BY DEF StartListener, Regrab, Rebuild, SetupStep, BeginUnsubscribe
  <1>2. CASE StartListener(t) \/ Regrab(t) \/ Rebuild(t)
    <2>1. Call("listener", "subscribe", 0) /\ phase' = 0
      BY <1>2 DEF StartListener, Regrab, Rebuild
    <2>2. ~SomeSetup /\ ~SomeLoop /\ ~SomeUnsub
      <3>1. CASE ~flag
        BY <3>1, HolderIsAlone DEF HolderInv
      <3>2. CASE lpc[t] = "drain"
        <4>1. t \in Holders
          BY <3>2 DEF Holders
        <4> QED
          BY <3>2, <4>1, HolderIsAlone DEF SettingUp, Polling, HolderInv
      <3> QED
        BY <1>2, <3>1, <3>2 DEF StartListener, Regrab, Rebuild, Drained
    <2>3. "listener" \notin waiting /\ streams = 0
      BY <2>2 DEF PipeInv, WaitsForAReason, StreamsAreOwned
    <2>4. SomeSetup'
      BY <1>0, <1>2 DEF SomeSetup, SettingUp, StartListener, Regrab, Rebuild
    <2>5. StreamsAreOwned'
      BY <1>1, <2>1, <2>3 DEF StreamsAreOwned
    <2>6. "subscribe" \in Expected' /\ [by |-> "listener", op |-> "subscribe", n |-> 0] \in Orders
      BY DEF Expected, Ops, Orders
    <2> QED
      BY <1>1, <2>1, <2>3, <2>4, <2>5, <2>6, ListenerCalls
  <1>3. CASE SetupStep(t)
    <2>1. /\ Call("listener", "match", phase + 1) /\ phase' = phase + 1 /\ "listener" \notin waiting
          /\ SettingUp(t) /\ phase < NStreams /\ UNCHANGED <<spc, lpc>>
      BY <1>3 DEF SetupStep, Answered
    <2>2. SomeSetup /\ SomeSetup'
      BY <2>1 DEF SomeSetup, SettingUp
    <2>3. StreamsAreOwned'
      BY <1>0, <1>1, <2>1, <2>2 DEF PipeInv, StreamsAreOwned
    <2>4. "match" \in Expected'
      BY <1>0, <2>1, <2>2 DEF Expected, Ops
    <2>5. [by |-> "listener", op |-> "match", n |-> phase + 1] \in Orders
      BY <1>0, <2>1 DEF Orders, Kinds
    <2> QED
      BY <1>1, <2>1, <2>2, <2>3, <2>4, <2>5, ListenerCalls
  <1>4. CASE BeginUnsubscribe(t)
    <2>1. /\ Call("listener", "unsubscribe", 0) /\ phase' = phase /\ t \in Holders /\ lpc[t] = "drain"
          /\ lpc' = [lpc EXCEPT ![t] = "unsub"]
      BY <1>4 DEF BeginUnsubscribe, Drained, Holders
    <2>2. ~SomeSetup /\ ~SomeLoop /\ ~SomeUnsub
      BY <2>1, HolderIsAlone DEF SettingUp, Polling, HolderInv
    <2>3. "listener" \notin waiting /\ streams = 0
      BY <2>2 DEF PipeInv, WaitsForAReason, StreamsAreOwned
    <2>4. SomeUnsub' /\ ~SomeSetup'
      BY <1>0, <1>4, <2>1, <2>2 DEF SomeSetup, SomeUnsub, SettingUp, BeginUnsubscribe
    <2>5. StreamsAreOwned'
      BY <1>1, <2>3, <2>4 DEF StreamsAreOwned
    <2>6. "unsubscribe" \in Expected' /\ [by |-> "listener", op |-> "unsubscribe", n |-> 0] \in Orders
      BY DEF Expected, Ops, Orders
    <2> QED
      BY <1>1, <2>1, <2>3, <2>4, <2>5, <2>6, ListenerCalls
  <1> QED
    BY <1>2, <1>3, <1>4

\* A caller that gives up leaves a reply that nobody awaits.
LEMMA GivingUpKeepsCount ==
    ASSUME TypeInv, PipeInv, UNCHANGED <<up, calls, wire>>, NEW c \in Callers, c \in waiting,
           waiting' = waiting \ {c}, skip' = IF up THEN [skip EXCEPT ![c] = @ + 1] ELSE skip
    PROVE  RepliesAreCounted'
  <1> SUFFICES ASSUME up', NEW x \in Callers
               PROVE  Underway(x)' = skip'[x] + (IF x \in waiting' THEN 1 ELSE 0)
    BY DEF RepliesAreCounted
  <1>1. /\ Underway(x) = skip[x] + (IF x \in waiting THEN 1 ELSE 0)
        /\ skip \in [Callers -> Nat] /\ Underway(x)' = Underway(x)
    BY DEF PipeInv, RepliesAreCounted, TypeInv, TypeOK, Underway
  <1> QED
    BY <1>1

\* The listener gives up.
LEMMA GivingUpKeepsPipe ==
    ASSUME TypeInv, HolderInv, PipeInv, NEW t \in Subscribers, SetupFails(t) \/ UnsubscribeFails(t)
    PROVE  PipeInv'
  <1>1. /\ UNCHANGED <<up, calls, wire>> /\ "listener" \in waiting /\ waiting' = waiting \ {"listener"}
        /\ skip' = IF up THEN [skip EXCEPT !["listener"] = @ + 1] ELSE skip
    BY DEF SetupFails, UnsubscribeFails, GivesUp, bus
  <1>2. RepliesAreCounted'
    BY <1>1, GivingUpKeepsCount DEF Callers
  <1>3. WaitsForAReason' /\ LastIsExplained'
    BY <1>1 DEF WaitsForAReason, LastIsExplained
  <1>4. StreamsAreOwned'
    <2>1. CASE SetupFails(t)
      BY <2>1 DEF SetupFails, DropStreams, StreamsAreOwned
    <2>2. CASE UnsubscribeFails(t)
      <3>1. UNCHANGED <<spc, lpc, streams, phase>>
        BY <2>2 DEF UnsubscribeFails, listener
      <3> QED
        BY <1>1, <3>1, RolesStay DEF PipeInv, StreamsAreOwned
    <2> QED
      BY <2>1, <2>2
  <1> QED
    BY <1>2, <1>3, <1>4 DEF PipeInv

\* What the flusher does, and how it dies.
LEMMA FlusherKeepsPipe ==
    ASSUME TypeInv, PipeInv, Flusher \/ Panic
    PROVE  PipeInv'
  <1>0. UNCHANGED <<up, wire, streams, spc, lpc, phase>>
    BY DEF Flusher, TakeBatch, Fetch, Fetched, FetchFails, Send, Panic, GivesUp, bus, client, listener
  <1>1. "listener" \in waiting' <=> "listener" \in waiting
    BY DEF Flusher, TakeBatch, Fetch, Fetched, FetchFails, Send, Panic, GivesUp, Call, client
  <1>2. WaitsForAReason' /\ StreamsAreOwned' /\ Expected' = Expected
    BY <1>0, <1>1, RolesStay DEF PipeInv, WaitsForAReason, StreamsAreOwned, Expected
  <1>3. CASE \E u \in Units : Fetch(u)
    <2>1. PICK u \in Units : Fetch(u)
      BY <1>3
    <2>2. /\ Call("flusher", "get", u) /\ "flusher" \notin waiting /\ UNCHANGED skip
          /\ [by |-> "flusher", op |-> "get", n |-> u] \in Orders
      BY <2>1 DEF Fetch, Answered, Orders
    <2>3. up => /\ Underway("flusher")' = Underway("flusher") + 1
                /\ \A x : x # "flusher" => Underway(x)' = Underway(x)
                /\ \A x, ops : x # "flusher" /\ LastCallIn(calls, wire, x, ops) => LastCallIn(calls', wire', x, ops)
      BY <1>0, <2>2, CallEffect
    <2>4. RepliesAreCounted'
      <3> SUFFICES ASSUME up', NEW x \in Callers
                   PROVE  Underway(x)' = skip'[x] + (IF x \in waiting' THEN 1 ELSE 0)
        BY DEF RepliesAreCounted
      <3>1. Underway(x) = skip[x] + (IF x \in waiting THEN 1 ELSE 0) /\ skip[x] \in Nat
        BY <1>0 DEF PipeInv, RepliesAreCounted, TypeInv, TypeOK
      <3>2. waiting' = waiting \cup {"flusher"}
        BY <2>2 DEF Call
      <3> QED
        BY <1>0, <2>2, <2>3, <3>1, <3>2
    <2>5. LastIsExplained'
      BY <1>0, <1>1, <1>2, <2>3 DEF PipeInv, LastIsExplained
    <2> QED
      BY <1>2, <2>4, <2>5 DEF PipeInv
  <1>4. CASE TakeBatch \/ Fetched \/ FetchFails \/ Send \/ Panic
    <2>1. UNCHANGED calls
      BY <1>4 DEF TakeBatch, Fetched, FetchFails, Send, Panic, GivesUp, bus
    <2>2. LastIsExplained'
      BY <1>0, <1>1, <1>2, <2>1 DEF PipeInv, LastIsExplained
    <2>3. RepliesAreCounted'
      <3>1. CASE UNCHANGED <<skip, waiting>>
        BY <1>0, <2>1, <3>1 DEF PipeInv, RepliesAreCounted, Underway
      <3>2. CASE /\ "flusher" \in waiting /\ waiting' = waiting \ {"flusher"}
                 /\ skip' = IF up THEN [skip EXCEPT !["flusher"] = @ + 1] ELSE skip
        BY <1>0, <2>1, <3>2, GivingUpKeepsCount DEF Callers
      <3>3. TakeBatch \/ Fetched \/ Send => UNCHANGED <<skip, waiting>>
        BY DEF TakeBatch, Fetched, Send, client
      <3>4. FetchFails => /\ "flusher" \in waiting /\ waiting' = waiting \ {"flusher"}
                          /\ skip' = IF up THEN [skip EXCEPT !["flusher"] = @ + 1] ELSE skip
        BY DEF FetchFails, GivesUp
      <3>5. Panic => \/ waiting' = waiting /\ skip' = skip
                     \/ /\ "flusher" \in waiting /\ waiting' = waiting \ {"flusher"}
                        /\ skip' = IF up THEN [skip EXCEPT !["flusher"] = @ + 1] ELSE skip
        BY DEF Panic
      <3> QED
        BY <1>4, <3>1, <3>2, <3>3, <3>4, <3>5
    <2> QED
      BY <1>2, <2>2, <2>3 DEF PipeInv
  <1> QED
    BY <1>3, <1>4 DEF Flusher

\* The bus that goes away.
LEMMA CutKeepsPipe ==
    ASSUME TypeInv, PipeInv, Cut
    PROVE  PipeInv'
  <1>1. ~up' /\ UNCHANGED <<waiting, streams, spc, lpc, phase>>
    BY DEF Cut, listener
  <1> QED
    BY <1>1, RolesStay DEF PipeInv, RepliesAreCounted, WaitsForAReason, LastIsExplained, StreamsAreOwned

-----------------------------------------------------------------------------
(* Types.                                                                   *)

\* A queue from which something was taken, or to which it was added.
LEMMA SequencesAreTyped ==
    ASSUME NEW S, NEW q \in Seq(S)
    PROVE  /\ <<>> \in Seq(S) /\ Len(q) \in Nat
           /\ q # <<>> => Tail(q) \in Seq(S) /\ Len(Tail(q)) = Len(q) - 1 /\ Head(q) \in S
           /\ \A e \in S : Append(q, e) \in Seq(S) /\ Len(Append(q, e)) = Len(q) + 1
  OBVIOUS

\* The streams that are dropped are empty.
LEMMA EmptyIsTyped ==
    Empty \in [Kinds -> Seq(Units)] /\ \A k \in Kinds : Len(Empty[k]) = 0
  BY DEF Empty

\* The beginning.
LEMMA InitListenerInv == Init => ListenerInv
  <1> SUFFICES ASSUME Init PROVE ListenerInv
    OBVIOUS
  <1>1. TypeOK
    <2>1. queue \in [Kinds -> Seq(Units)] /\ \A k \in Kinds : Len(queue[k]) <= QueueCap
      BY EmptyIsTyped, ConstantsAssumption DEF Init
    <2>2. /\ 0 \in 0..NStreams /\ 0 \in 0..MaxVer /\ 0 \in 0..MaxTrouble
      BY ConstantsAssumption
    <2> QED
      BY <2>1, <2>2 DEF Init, TypeOK, Callers
  <1>2. calls \in Seq(Orders) /\ wire \in Seq(Replies \cup Signals)
    BY DEF Init
  <1>3. HolderInv
    BY DEF Init, HolderInv, Holders
  <1>4. ~SomeSetup
    BY DEF Init, SomeSetup, SettingUp
  <1>5. RepliesAreCounted
    <2>1. \A by : Many(<<>>, by) = 0
      BY FS_EmptySet DEF Many, At
    <2> QED
      BY <2>1 DEF Init, RepliesAreCounted, Underway
  <1>6. PipeInv
    BY <1>4, <1>5 DEF Init, PipeInv, WaitsForAReason, LastIsExplained, StreamsAreOwned
  <1>7. FlusherIsOwned /\ CutIsTrouble /\ FloodLosesNothing
    BY DEF Init, FlusherIsOwned, CutIsTrouble, FloodLosesNothing
  <1> QED
    BY <1>1, <1>2, <1>3, <1>6, <1>7 DEF ListenerInv, TypeInv

\* The bus.
LEMMA BusKeepsTypes ==
    ASSUME TypeInv, PipeInv, CutIsTrouble, (\E u \in Units : Change(u)) \/ Bus \/ Cut
    PROVE  TypeInv'
  <1>0. TypeOK /\ calls \in Seq(Orders) /\ wire \in Seq(Replies \cup Signals)
    BY DEF TypeInv
  <1>1. ASSUME NEW u \in Units, Change(u)
        PROVE  TypeInv'
    <2>1. wire' \in Seq(Replies \cup Signals)
      BY <1>1, ChangeEffect
    <2>2. ver' \in [Units -> 0..MaxVer] /\ owed' \in [Subscribers -> [Units -> 0..MaxVer]]
      <3>1. /\ ver \in [Units -> 0..MaxVer] /\ owed \in [Subscribers -> [Units -> 0..MaxVer]]
            /\ ver[u] + 1 \in 0..MaxVer
        BY <1>0, <1>1, ConstantsAssumption DEF Change, TypeOK
      <3>2. ver' = [ver EXCEPT ![u] = @ + 1]
            /\ owed' = [r \in Subscribers |-> IF spc[r] = "ready" /\ Listening
                                              THEN [owed[r] EXCEPT ![u] = ver[u] + 1] ELSE owed[r]]
        BY <1>1 DEF Change
      <3> QED
        BY <3>1, <3>2
    <2>3. UNCHANGED <<up, subscribed, rules, calls, client, listener, flusher, trouble>>
      BY <1>1 DEF Change
    <2> QED
      BY <1>0, <2>1, <2>2, <2>3 DEF TypeInv, TypeOK, client, listener, flusher
  <1>2. CASE Process
    <2>1. calls' \in Seq(Orders) /\ wire' \in Seq(Replies \cup Signals)
      BY <1>2, ProcessEffect
    <2>2. subscribed' \in BOOLEAN /\ rules' \in 0..NStreams
      <3>1. Head(calls) \in Orders
        BY <1>0, <1>2 DEF Process
      <3>2. Head(calls).op = "match" => Head(calls).n \in Kinds
        BY <3>1 DEF Orders
      <3>3. rules' = rules \/ (Head(calls).op = "match" /\ rules' = Head(calls).n)
        BY <1>2 DEF Process
      <3>4. rules \in 0..NStreams /\ NStreams \in Nat /\ subscribed \in BOOLEAN
        BY <1>0, ConstantsAssumption DEF TypeOK
      <3>5. subscribed' \in BOOLEAN
        BY <1>2, <3>4 DEF Process
      <3> QED
        BY <3>2, <3>3, <3>4, <3>5 DEF Kinds
    <2>3. UNCHANGED <<ver, up, client, listener, flusher, history>>
      BY <1>2 DEF Process
    <2> QED
      BY <1>0, <2>1, <2>2, <2>3 DEF TypeInv, TypeOK, client, listener, flusher, history
  <1>3. CASE ReadSignal
    <2>1. wire' \in Seq(Replies \cup Signals) /\ Head(wire) \in Signals
      BY <1>0, <1>3 DEF ReadSignal, Replies
    <2>2. queue' \in [Kinds -> Seq(Units)] /\ \A k \in Kinds : Len(queue'[k]) <= QueueCap
      <3> DEFINE m == Head(wire)
      <3>1. m.k \in Kinds /\ m.u \in Units
        BY <2>1 DEF Signals
      <3>2. queue \in [Kinds -> Seq(Units)] /\ (\A k \in Kinds : Len(queue[k]) <= QueueCap) /\ QueueCap \in Nat
        BY <1>0, ConstantsAssumption DEF TypeOK
      <3>3. CASE m.k <= streams
        <4>1. Len(queue[m.k]) < QueueCap /\ queue' = [queue EXCEPT ![m.k] = Append(@, m.u)]
          BY <1>3, <3>3 DEF ReadSignal
        <4>2. /\ Append(queue[m.k], m.u) \in Seq(Units) /\ Len(queue[m.k]) \in Nat
              /\ Len(Append(queue[m.k], m.u)) = Len(queue[m.k]) + 1
          BY <3>1, <3>2, SequencesAreTyped
        <4> QED
          BY <3>1, <3>2, <4>1, <4>2
      <3>4. CASE ~(m.k <= streams)
        BY <1>3, <3>2, <3>4 DEF ReadSignal
      <3> QED
        BY <3>3, <3>4
    <2>3. UNCHANGED <<ver, up, subscribed, rules, calls, streams, waiting, skip, answer, listener, flusher, history>>
      BY <1>3 DEF ReadSignal
    <2> QED
      BY <1>0, <2>1, <2>2, <2>3 DEF TypeInv, TypeOK, listener, flusher, history
  <1>4. CASE ReadReply
    <2> DEFINE m == Head(wire)
    <2>1. wire # <<>> /\ wire' \in Seq(Replies \cup Signals) /\ m \in Replies /\ m.kind = "reply" /\ up
      BY <1>0, <1>4 DEF ReadReply, Signals, CutIsTrouble, TypeOK
    <2>2. skip' \in [Callers -> Nat] /\ waiting' \subseteq Callers
      <3>1. m.by \in Callers /\ skip \in [Callers -> Nat] /\ waiting \subseteq Callers
        BY <1>0, <2>1 DEF Replies, Callers, TypeOK
      <3>2. skip[m.by] # 0 => skip[m.by] - 1 \in Nat
        BY <3>1
      <3> QED
        BY <1>4, <3>1, <3>2 DEF ReadReply
    <2>3. streams' \in 0..NStreams
      <3>1. streams \in 0..NStreams /\ phase \in 0..NStreams /\ NStreams \in Nat
        BY <1>0, ConstantsAssumption DEF TypeOK
      <3>2. CASE streams' = streams
        BY <3>1, <3>2
      <3>3. CASE streams' # streams
        <4>1. skip[m.by] = 0 /\ m.op = "match" /\ streams' = streams + 1
          BY <1>4, <3>3 DEF ReadReply
        <4>2. m.by = "listener"
          BY <2>1, <4>1 DEF Replies
        <4>3. streams < phase
          BY <2>1, <4>1, <4>2, AnswerIsExpected
        <4> QED
          BY <3>1, <4>1, <4>3
      <3> QED
        BY <3>2, <3>3
    <2>4. UNCHANGED <<ver, up, subscribed, rules, calls, queue, listener, flusher, history>>
      BY <1>4 DEF ReadReply
    <2> QED
      BY <1>0, <2>1, <2>2, <2>3, <2>4 DEF TypeInv, TypeOK, listener, flusher, history
  <1>5. CASE Cut
    <2>1. calls' \in Seq(Orders) /\ wire' \in Seq(Replies \cup Signals)
      BY <1>5 DEF Cut
    <2>2. UNCHANGED <<ver, streams, queue, waiting, listener, flusher, owed>>
      BY <1>5 DEF Cut
    <2>3. /\ up' \in BOOLEAN /\ subscribed' \in BOOLEAN /\ rules' \in 0..NStreams
          /\ skip' \in [Callers -> Nat] /\ trouble' \in 0..MaxTrouble
      <3>1. up' = FALSE /\ subscribed' = FALSE /\ rules' = 0 /\ skip' = [k \in Callers |-> 0]
        BY <1>5 DEF Cut
      <3>2. 0 \in 0..NStreams
        BY ConstantsAssumption
      <3>3. trouble' \in 0..MaxTrouble
        <4>1. trouble < MaxTrouble /\ trouble' = trouble + 1
          BY <1>5 DEF Cut, Mishap
        <4>2. trouble \in 0..MaxTrouble /\ MaxTrouble \in Nat
          BY <1>0, ConstantsAssumption DEF TypeOK
        <4> QED
          BY <4>1, <4>2
      <3>4. skip' \in [Callers -> Nat]
        BY <3>1
      <3> QED
        BY <3>1, <3>2, <3>3, <3>4
    <2> QED
      BY <1>0, <2>1, <2>2, <2>3 DEF TypeInv, TypeOK, listener, flusher
  <1> QED
    BY <1>1, <1>2, <1>3, <1>4, <1>5 DEF Bus

\* Subscribers and their setup.
LEMMA SetupKeepsTypes ==
    ASSUME TypeInv, NEW t \in Subscribers,
           Subscribe(t) \/ JoinListener(t) \/ StartListener(t) \/ Unsubscribe(t) \/ Setup(t)
    PROVE  TypeInv'
  <1>0. /\ TypeOK /\ calls \in Seq(Orders) /\ wire \in Seq(Replies \cup Signals)
        /\ NStreams \in Nat \ {0} /\ MaxVer \in Nat /\ QueueCap \in Nat /\ 0 \in 0..NStreams
    BY ConstantsAssumption DEF TypeInv
  <1>1. CASE Subscribe(t) \/ JoinListener(t)
    <2>1. spc' \in [Subscribers -> {"none", "rx", "setup", "ready"}]
      BY <1>0, <1>1 DEF Subscribe, JoinListener, TypeOK
    <2>2. UNCHANGED <<bus, client, flag, lpc, exit, phase, pending, armed, batch, flusher, history>>
      BY <1>1 DEF Subscribe, JoinListener
    <2> QED
      BY <1>0, <2>1, <2>2 DEF TypeInv, TypeOK, bus, client, flusher, history
  <1>2. CASE StartListener(t)
    <2>1. /\ Call("listener", "subscribe", 0) /\ wire' = wire
          /\ [by |-> "listener", op |-> "subscribe", n |-> 0] \in Orders
      BY <1>2 DEF StartListener, Orders
    <2>2. calls' \in Seq(Orders)
      BY <2>1, CallEffect
    <2>3. spc' \in [Subscribers -> {"none", "rx", "setup", "ready"}] /\ waiting' \subseteq Callers
      BY <1>0, <1>2 DEF StartListener, TypeOK, Call, Callers
    <2> QED
      BY <1>0, <1>2, <2>1, <2>2, <2>3 DEF StartListener, TypeInv, TypeOK, flusher, history
  <1>3. CASE Unsubscribe(t)
    <2>1. spc' \in [Subscribers -> {"none", "rx", "setup", "ready"}]
      BY <1>0, <1>3 DEF Unsubscribe, TypeOK
    <2>2. owed' \in [Subscribers -> [Units -> 0..MaxVer]]
      BY <1>0, <1>3 DEF Unsubscribe, TypeOK
    <2>3. UNCHANGED <<bus, client, flag, lpc, exit, phase, pending, armed, batch, flusher, trouble>>
      BY <1>3 DEF Unsubscribe
    <2> QED
      BY <1>0, <2>1, <2>2, <2>3 DEF TypeInv, TypeOK, bus, client, flusher
  <1>4. CASE SetupStep(t)
    <2>1. /\ Call("listener", "match", phase + 1) /\ wire' = wire /\ phase + 1 \in Kinds
          /\ [by |-> "listener", op |-> "match", n |-> phase + 1] \in Orders
      BY <1>0, <1>4 DEF SetupStep, Orders, Kinds, TypeOK
    <2>2. calls' \in Seq(Orders)
      BY <2>1, CallEffect
    <2>3. waiting' \subseteq Callers /\ phase' \in 0..NStreams
      BY <1>0, <1>4, <2>1 DEF SetupStep, TypeOK, Call, Callers, Kinds
    <2> QED
      BY <1>0, <1>4, <2>1, <2>2, <2>3 DEF SetupStep, TypeInv, TypeOK, flusher, history
  <1>5. CASE SetupDone(t)
    <2>1. /\ spc' \in [Subscribers -> {"none", "rx", "setup", "ready"}]
          /\ lpc' \in [Subscribers -> {"none", "loop", "drain", "unsub", "regrab", "setup"}]
      BY <1>0, <1>5 DEF SetupDone, Settled, TypeOK
    <2> QED
      BY <1>0, <1>5, <2>1 DEF SetupDone, TypeInv, TypeOK, bus, history
  <1>6. CASE SetupFails(t)
    <2>1. /\ spc' \in [Subscribers -> {"none", "rx", "setup", "ready"}]
          /\ lpc' \in [Subscribers -> {"none", "loop", "drain", "unsub", "regrab", "setup"}]
      BY <1>0, <1>6 DEF SetupFails, Settled, TypeOK
    <2>2. /\ waiting' \subseteq Callers /\ skip' \in [Callers -> Nat] /\ trouble' \in 0..MaxTrouble
      BY <1>0, <1>6, SkippedIsTyped DEF SetupFails, Callers
    <2>3. /\ queue' \in [Kinds -> Seq(Units)] /\ \A k \in Kinds : Len(queue'[k]) <= QueueCap
          /\ streams' = 0 /\ rules' = 0
      BY <1>0, <1>6, EmptyIsTyped DEF SetupFails, DropStreams
    <2>4. /\ UNCHANGED <<ver, up, subscribed, calls, wire, pending, armed, batch, flusher, owed>>
          /\ flag' = FALSE /\ phase' = 0
      BY <1>6 DEF SetupFails
    <2> QED
      BY <1>0, <2>1, <2>2, <2>3, <2>4 DEF TypeInv, TypeOK, flusher
  <1> QED
    BY <1>1, <1>2, <1>3, <1>4, <1>5, <1>6 DEF Setup

\* The loop of a listener and how it retires.
LEMMA LoopKeepsTypes ==
    ASSUME TypeInv, NEW t \in Subscribers, Loop(t) \/ RetireIdle(t) \/ Retire(t)
    PROVE  TypeInv'
  <1>0. /\ TypeOK /\ calls \in Seq(Orders) /\ wire \in Seq(Replies \cup Signals)
        /\ NStreams \in Nat \ {0} /\ MaxVer \in Nat /\ QueueCap \in Nat /\ 0 \in 0..NStreams
    BY ConstantsAssumption DEF TypeInv
  <1>1. CASE Flush(t)
    BY <1>0, <1>1 DEF Flush, TypeInv, TypeOK, bus, client, flusher, history
  <1>2. ASSUME NEW k \in Kinds, Mark(t, k)
        PROVE  TypeInv'
    <2>1. /\ queue[k] \in Seq(Units) /\ queue[k] # <<>> /\ Len(queue[k]) <= QueueCap
          /\ queue \in [Kinds -> Seq(Units)] /\ \A j \in Kinds : Len(queue[j]) <= QueueCap
      BY <1>0, <1>2 DEF Mark, TypeOK
    <2>2. /\ Tail(queue[k]) \in Seq(Units) /\ Head(queue[k]) \in Units
          /\ Len(queue[k]) \in Nat /\ Len(Tail(queue[k])) = Len(queue[k]) - 1
      BY <2>1, SequencesAreTyped
    <2>3. queue' \in [Kinds -> Seq(Units)] /\ \A j \in Kinds : Len(queue'[j]) <= QueueCap
      BY <1>0, <1>2, <2>1, <2>2 DEF Mark
    <2>4. /\ pending' \subseteq Units /\ armed' = TRUE
          /\ UNCHANGED <<bus, streams, waiting, skip, flag, spc, lpc, phase, batch, flusher, history>>
      BY <1>0, <1>2, <2>2 DEF Mark, TypeOK
    <2> QED
      BY <1>0, <2>3, <2>4 DEF TypeInv, TypeOK, bus, flusher, history
  <1>3. ASSUME NEW why, Exit(t, why)
        PROVE  TypeInv'
    <2>1. /\ queue' \in [Kinds -> Seq(Units)] /\ \A k \in Kinds : Len(queue'[k]) <= QueueCap
          /\ streams' = 0 /\ rules' = 0
      BY <1>0, <1>3, EmptyIsTyped DEF Exit, DropStreams
    <2>2. /\ lpc' \in [Subscribers -> {"none", "loop", "drain", "unsub", "regrab", "setup"}]
          /\ pending' = {} /\ armed' = FALSE
          /\ UNCHANGED <<ver, up, subscribed, calls, wire, waiting, skip, flag, spc, phase, batch, flusher, history>>
      BY <1>0, <1>3 DEF Exit, TypeOK
    <2> QED
      BY <1>0, <2>1, <2>2 DEF TypeInv, TypeOK, flusher, history
  <1>4. CASE BeginUnsubscribe(t)
    <2>1. /\ Call("listener", "unsubscribe", 0) /\ wire' = wire
          /\ [by |-> "listener", op |-> "unsubscribe", n |-> 0] \in Orders
      BY <1>4 DEF BeginUnsubscribe, Orders
    <2>2. calls' \in Seq(Orders)
      BY <2>1, CallEffect
    <2>3. /\ lpc' \in [Subscribers -> {"none", "loop", "drain", "unsub", "regrab", "setup"}]
          /\ waiting' \subseteq Callers
      BY <1>0, <1>4 DEF BeginUnsubscribe, TypeOK, Call, Callers
    <2> QED
      BY <1>0, <1>4, <2>1, <2>2, <2>3 DEF BeginUnsubscribe, Drained, TypeInv, TypeOK, history
  <1>5. CASE FinishRetire(t)
    <2>1. lpc' \in [Subscribers -> {"none", "loop", "drain", "unsub", "regrab", "setup"}]
      BY <1>0, <1>5 DEF FinishRetire, TypeOK
    <2> QED
      BY <1>0, <1>5, <2>1 DEF FinishRetire, TypeInv, TypeOK, bus, flusher, history
  <1>6. CASE UnsubscribeFails(t)
    <2>1. waiting' \subseteq Callers /\ skip' \in [Callers -> Nat] /\ trouble' \in 0..MaxTrouble
      BY <1>0, <1>6, SkippedIsTyped DEF UnsubscribeFails, GivesUp, Callers
    <2>2. UNCHANGED <<bus, streams, queue, listener, flusher, owed>>
      BY <1>6 DEF UnsubscribeFails, GivesUp
    <2> QED
      BY <1>0, <2>1, <2>2 DEF TypeInv, TypeOK, bus, listener, flusher
  <1>7. CASE Regrab(t) \/ Rebuild(t)
    <2>1. /\ Call("listener", "subscribe", 0) /\ wire' = wire
          /\ [by |-> "listener", op |-> "subscribe", n |-> 0] \in Orders
      BY <1>7 DEF Regrab, Rebuild, Orders
    <2>2. calls' \in Seq(Orders)
      BY <2>1, CallEffect
    <2>3. /\ lpc' \in [Subscribers -> {"none", "loop", "drain", "unsub", "regrab", "setup"}]
          /\ waiting' \subseteq Callers
      BY <1>0, <1>7 DEF Regrab, Rebuild, TypeOK, Call, Callers
    <2>4. fpc' \in {"gone", "recv", "call"} /\ todo' = todo /\ flag' \in BOOLEAN
      BY <1>0, <1>7 DEF Regrab, Rebuild, Drained, TypeOK, flusher
    <2>5. /\ phase' = 0
          /\ UNCHANGED <<ver, up, subscribed, rules, streams, queue, skip, spc, pending, armed, batch, history>>
      BY <1>7 DEF Regrab, Rebuild
    <2> QED
      BY <1>0, <2>1, <2>2, <2>3, <2>4, <2>5 DEF TypeInv, TypeOK, history
  <1>8. CASE StepBack(t)
    <2>1. lpc' \in [Subscribers -> {"none", "loop", "drain", "unsub", "regrab", "setup"}]
      BY <1>0, <1>8 DEF StepBack, TypeOK
    <2> QED
      BY <1>0, <1>8, <2>1 DEF StepBack, TypeInv, TypeOK, bus, client, flusher, history
  <1>9. CASE EndDisconnected(t)
    <2>1. lpc' \in [Subscribers -> {"none", "loop", "drain", "unsub", "regrab", "setup"}]
      BY <1>0, <1>9 DEF EndDisconnected, TypeOK
    <2> QED
      BY <1>0, <1>9, <2>1 DEF EndDisconnected, Drained, TypeInv, TypeOK, bus, client, history
  <1> QED
    BY <1>1, <1>2, <1>3, <1>4, <1>5, <1>6, <1>7, <1>8, <1>9
       DEF Loop, Retire, RetireIdle, Disconnected, FlusherGone

\* The flusher.
LEMMA FlusherKeepsTypes ==
    ASSUME TypeInv, Flusher \/ Panic
    PROVE  TypeInv'
  <1>0. /\ TypeOK /\ calls \in Seq(Orders) /\ wire \in Seq(Replies \cup Signals) /\ MaxVer \in Nat
    BY ConstantsAssumption DEF TypeInv
  <1>1. CASE TakeBatch
    <2>1. batch' = None /\ todo' \subseteq Units
      BY <1>0, <1>1 DEF TakeBatch, TypeOK
    <2> QED
      BY <1>0, <1>1, <2>1 DEF TakeBatch, TypeInv, TypeOK, bus, client, history
  <1>2. ASSUME NEW u \in Units, Fetch(u)
        PROVE  TypeInv'
    <2>1. /\ Call("flusher", "get", u) /\ wire' = wire
          /\ [by |-> "flusher", op |-> "get", n |-> u] \in Orders
      BY <1>2 DEF Fetch, Orders
    <2>2. calls' \in Seq(Orders)
      BY <2>1, CallEffect
    <2>3. waiting' \subseteq Callers /\ todo' \subseteq Units
      BY <1>0, <1>2 DEF Fetch, TypeOK, Call, Callers
    <2> QED
      BY <1>0, <1>2, <2>1, <2>2, <2>3 DEF Fetch, TypeInv, TypeOK, listener, history
  <1>3. CASE Fetched
    BY <1>0, <1>3 DEF Fetched, TypeInv, TypeOK, bus, listener, history
  <1>4. CASE FetchFails
    <2>1. waiting' \subseteq Callers /\ skip' \in [Callers -> Nat] /\ trouble' \in 0..MaxTrouble
      BY <1>0, <1>4, SkippedIsTyped DEF FetchFails, GivesUp, Callers
    <2>2. UNCHANGED <<bus, streams, queue, listener, fpc, todo, owed>>
      BY <1>4 DEF FetchFails, GivesUp
    <2> QED
      BY <1>0, <2>1, <2>2 DEF TypeInv, TypeOK, bus, listener
  <1>5. CASE Send
    <2>1. owed' \in [Subscribers -> [Units -> 0..MaxVer]]
      BY <1>0, <1>5 DEF Send, TypeOK
    <2>2. fpc' = "recv" /\ UNCHANGED <<bus, client, listener, todo, trouble>>
      BY <1>5 DEF Send
    <2> QED
      BY <1>0, <2>1, <2>2 DEF TypeInv, TypeOK, bus, client, listener
  <1>6. CASE Panic
    <2>1. waiting' \subseteq Callers /\ skip' \in [Callers -> Nat] /\ trouble' \in 0..MaxTrouble
      BY <1>0, <1>6, ConstantsAssumption DEF Panic, TypeOK, Callers, Mishap
    <2>2. /\ fpc' = "gone" /\ todo' = {} /\ batch' = None
          /\ UNCHANGED <<bus, streams, queue, flag, spc, lpc, phase, pending, armed, owed>>
      BY <1>6 DEF Panic
    <2> QED
      BY <1>0, <2>1, <2>2 DEF TypeInv, TypeOK, bus
  <1> QED
    BY <1>1, <1>2, <1>3, <1>4, <1>5, <1>6 DEF Flusher

-----------------------------------------------------------------------------
(* All together.                                                            *)

\* A flusher is at work only beside a loop, or while the end of one waits for it.
LEMMA NextFlusherIsOwned ==
    ASSUME TypeInv, HolderInv, FlusherIsOwned, Next
    PROVE  FlusherIsOwned'
  <1>0. lpc \in [Subscribers -> {"none", "loop", "drain", "unsub", "regrab", "setup"}]
    BY DEF TypeInv, TypeOK
  <1>1. CASE UNCHANGED lpc /\ (fpc' # "gone" => fpc # "gone")
    BY <1>1 DEF FlusherIsOwned
  <1>2. ASSUME NEW t \in Subscribers, SetupDone(t)
        PROVE  FlusherIsOwned'
    BY <1>0, <1>2 DEF SetupDone, Settled, FlusherIsOwned
  <1>3. ASSUME NEW t \in Subscribers, SetupFails(t) \/ FinishRetire(t) \/ Regrab(t) \/ StepBack(t)
        PROVE  FlusherIsOwned'
    <2>1. /\ lpc[t] \notin {"loop", "drain"} \/ SettingUp(t)
          /\ \E x : lpc' = [lpc EXCEPT ![t] = x]
          /\ UNCHANGED fpc
      BY <1>3 DEF SetupFails, Settled, FinishRetire, Regrab, StepBack, flusher
    <2>2. SettingUp(t) => lpc[t] \notin {"loop", "drain"}
      BY DEF SettingUp, HolderInv
    <2> QED
      BY <1>0, <2>1, <2>2 DEF FlusherIsOwned
  <1>4. ASSUME NEW t \in Subscribers, NEW why, Exit(t, why)
        PROVE  FlusherIsOwned'
    BY <1>0, <1>4 DEF Exit, FlusherIsOwned
  <1>5. ASSUME NEW t \in Subscribers, BeginUnsubscribe(t) \/ EndDisconnected(t) \/ Rebuild(t)
        PROVE  FlusherIsOwned'
    BY <1>5 DEF BeginUnsubscribe, EndDisconnected, Rebuild, Drained, FlusherIsOwned
  <1>6. ASSUME NEW t \in Subscribers,
               \/ Subscribe(t) \/ JoinListener(t) \/ StartListener(t) \/ Unsubscribe(t) \/ SetupStep(t)
               \/ Flush(t) \/ UnsubscribeFails(t) \/ \E k \in Kinds : Mark(t, k)
        PROVE  UNCHANGED <<lpc, fpc>>
    BY <1>6 DEF Subscribe, JoinListener, StartListener, Unsubscribe, SetupStep, Flush, Mark,
                UnsubscribeFails, listener, flusher
  <1>7. ASSUME (\E u \in Units : Change(u)) \/ Bus \/ Flusher \/ Panic \/ Cut
        PROVE  UNCHANGED lpc /\ (fpc' # "gone" => fpc # "gone")
    BY <1>7 DEF Change, Bus, Process, ReadSignal, ReadReply, Flusher, TakeBatch, Fetch, Fetched,
                FetchFails, Send, Panic, Cut, listener, flusher
  <1> QED
    BY <1>1, <1>2, <1>3, <1>4, <1>5, <1>6, <1>7
       DEF Next, Setup, Loop, Retire, RetireIdle, Disconnected, FlusherGone

\* While no fault has happened the connection is open.
LEMMA NextCutIsTrouble ==
    ASSUME TypeInv, CutIsTrouble, Next
    PROVE  CutIsTrouble'
  <1>0. trouble \in Nat /\ wire \in Seq(Replies \cup Signals)
    BY ConstantsAssumption DEF TypeInv, TypeOK
  <1>1. CASE Cut
    <2>1. ~up' /\ wire' = <<>> /\ trouble' = trouble + 1
      BY <1>1 DEF Cut
    <2> QED
      BY <1>0, <2>1 DEF CutIsTrouble
  <1>2. ASSUME UNCHANGED <<up, wire>>, trouble' = trouble \/ trouble' = trouble + 1
        PROVE  CutIsTrouble'
    BY <1>0, <1>2 DEF CutIsTrouble
  <1>3. ASSUME (\E u \in Units : Change(u)) \/ Bus
        PROVE  CutIsTrouble'
    <2>1. (\E u \in Units : Change(u)) \/ Process => up /\ up' = up
      BY DEF Change, Process
    <2>2. ReadSignal \/ ReadReply => wire # <<>> /\ up' = up
      BY DEF ReadSignal, ReadReply
    <2> QED
      BY <1>3, <2>1, <2>2 DEF Bus, CutIsTrouble
  <1>4. ASSUME NEW t \in Subscribers,
               \/ Subscribe(t) \/ JoinListener(t) \/ StartListener(t) \/ Unsubscribe(t)
               \/ Setup(t) \/ Loop(t) \/ RetireIdle(t) \/ Retire(t)
        PROVE  UNCHANGED <<up, wire>> /\ (trouble' = trouble \/ trouble' = trouble + 1)
    BY <1>4 DEF Subscribe, JoinListener, StartListener, Unsubscribe, Setup, SetupStep, SetupDone,
                SetupFails, Loop, Flush, Mark, Disconnected, FlusherGone, RetireIdle, Exit, Retire,
                BeginUnsubscribe, FinishRetire, UnsubscribeFails, GivesUp, Regrab, StepBack,
                EndDisconnected, Rebuild, bus, history
  <1>5. ASSUME Flusher \/ Panic
        PROVE  UNCHANGED <<up, wire>> /\ (trouble' = trouble \/ trouble' = trouble + 1)
    BY <1>5 DEF Flusher, TakeBatch, Fetch, Fetched, FetchFails, Send, Panic, GivesUp, bus, history
  <1> QED
    BY <1>1, <1>2, <1>3, <1>4, <1>5 DEF Next

\* The reading task never waits for room in the streams of a loop that has ended.
LEMMA FlusherIsNotWedged ==
    ASSUME ListenerInv, fpc = "call"
    PROVE  ~Wedged
  <1>1. PICK t \in Subscribers : lpc[t] \in {"loop", "drain"}
    BY DEF ListenerInv, FlusherIsOwned
  <1>2. CASE lpc[t] = "loop"
    BY <1>2 DEF Wedged, Polling
  <1>3. CASE lpc[t] = "drain"
    <2>1. t \in Holders
      BY <1>3 DEF Holders
    <2>2. ~SomeSetup /\ ~SomeLoop
      BY <1>3, <2>1, HolderIsAlone DEF ListenerInv, SettingUp, Polling, HolderInv
    <2>3. streams = 0
      BY <2>2 DEF ListenerInv, PipeInv, StreamsAreOwned
    <2>4. ASSUME wire # <<>>, Head(wire).kind = "signal"
          PROVE  Head(wire).k \in Kinds
      <3>1. Head(wire) \in Replies \cup Signals
        BY <2>4 DEF ListenerInv, TypeInv
      <3> QED
        BY <2>4, <3>1 DEF Replies, Signals
    <2> QED
      BY <2>3, <2>4, ConstantsAssumption DEF Wedged, Kinds
  <1> QED
    BY <1>1, <1>2, <1>3

\* So no refresh is given up before a fault.
LEMMA NextFloodLosesNothing ==
    ASSUME ListenerInv, Next
    PROVE  FloodLosesNothing'
  <1>0. trouble \in Nat /\ (trouble = 0 => dropped = {} /\ up)
    BY ConstantsAssumption DEF ListenerInv, TypeInv, TypeOK, FloodLosesNothing, CutIsTrouble
  <1>1. CASE FetchFails
    <2>1. trouble' = trouble + 1 \/ ((Wedged \/ ~up) /\ trouble' = trouble /\ fpc = "call")
      BY <1>1 DEF FetchFails, GivesUp
    <2>2. CASE trouble' = trouble + 1
      BY <1>0, <2>2 DEF FloodLosesNothing
    <2>3. CASE (Wedged \/ ~up) /\ trouble' = trouble /\ fpc = "call"
      BY <1>0, <2>3, FlusherIsNotWedged DEF FloodLosesNothing
    <2> QED
      BY <2>1, <2>2, <2>3
  <1>2. ASSUME dropped' = dropped, trouble' = trouble \/ trouble' = trouble + 1
        PROVE  FloodLosesNothing'
    BY <1>0, <1>2 DEF FloodLosesNothing
  <1>3. ASSUME (\E u \in Units : Change(u)) \/ Bus \/ Cut
        PROVE  dropped' = dropped /\ (trouble' = trouble \/ trouble' = trouble + 1)
    BY <1>3 DEF Change, Bus, Process, ReadSignal, ReadReply, Cut, history
  <1>4. ASSUME NEW t \in Subscribers,
               \/ Subscribe(t) \/ JoinListener(t) \/ StartListener(t) \/ Unsubscribe(t)
               \/ Setup(t) \/ Loop(t) \/ RetireIdle(t) \/ Retire(t)
        PROVE  dropped' = dropped /\ (trouble' = trouble \/ trouble' = trouble + 1)
    BY <1>4 DEF Subscribe, JoinListener, StartListener, Unsubscribe, Setup, SetupStep, SetupDone,
                SetupFails, Loop, Flush, Mark, Disconnected, FlusherGone, RetireIdle, Exit, Retire,
                BeginUnsubscribe, FinishRetire, UnsubscribeFails, GivesUp, Regrab, StepBack,
                EndDisconnected, Rebuild, history
  <1>5. ASSUME TakeBatch \/ (\E u \in Units : Fetch(u)) \/ Fetched \/ Send \/ Panic
        PROVE  dropped' = dropped /\ (trouble' = trouble \/ trouble' = trouble + 1)
    BY <1>5 DEF TakeBatch, Fetch, Fetched, Send, Panic, history
  <1> QED
    BY <1>1, <1>2, <1>3, <1>4, <1>5 DEF Next, Flusher

\* Every step of the listener keeps its invariant.
LEMMA NextListenerInv ==
    ASSUME ListenerInv, Next
    PROVE  ListenerInv'
  <1>0. /\ TypeInv /\ TypeOK /\ HolderInv /\ PipeInv /\ FlusherIsOwned /\ CutIsTrouble
    BY DEF ListenerInv, TypeInv
  <1>1. TypeInv'
    BY <1>0, BusKeepsTypes, SetupKeepsTypes, LoopKeepsTypes, FlusherKeepsTypes DEF Next
  <1>2. HolderInv'
    BY <1>0, NextHolderInv
  <1>3. PipeInv'
    <2>1. ASSUME (\E u \in Units : Change(u)) \/ Bus \/ Cut
          PROVE  PipeInv'
      <3>1. ReadSignal \/ ReadReply => up
        BY <1>0 DEF ReadSignal, ReadReply, CutIsTrouble
      <3> QED
        BY <1>0, <2>1, <3>1, SystemdKeepsPipe, ReadingKeepsPipe, CutKeepsPipe DEF Bus
    <2>2. ASSUME NEW t \in Subscribers,
                 \/ Subscribe(t) \/ JoinListener(t) \/ StartListener(t) \/ Unsubscribe(t)
                 \/ Setup(t) \/ Loop(t) \/ RetireIdle(t) \/ Retire(t)
          PROVE  PipeInv'
      <3>1. CASE SetupFails(t) \/ UnsubscribeFails(t)
        BY <1>0, <3>1, GivingUpKeepsPipe
      <3>2. CASE StartListener(t) \/ Regrab(t) \/ Rebuild(t) \/ SetupStep(t) \/ BeginUnsubscribe(t)
        BY <1>0, <3>2, CallingKeepsPipe
      <3>3. CASE \/ Subscribe(t) \/ JoinListener(t) \/ Unsubscribe(t)
                 \/ SetupDone(t) \/ Flush(t) \/ (\E k \in Kinds : Mark(t, k))
                 \/ (\E why : Exit(t, why)) \/ FinishRetire(t) \/ StepBack(t) \/ EndDisconnected(t)
        BY <1>0, <3>3, QuietStepsKeepPipe
      <3> QED
        BY <2>2, <3>1, <3>2, <3>3 DEF Setup, Loop, RetireIdle, Retire, Disconnected, FlusherGone
    <2>3. ASSUME Flusher \/ Panic
          PROVE  PipeInv'
      BY <1>0, <2>3, FlusherKeepsPipe
    <2> QED
      BY <2>1, <2>2, <2>3 DEF Next
  <1>4. FlusherIsOwned' /\ CutIsTrouble' /\ FloodLosesNothing'
    BY <1>0, NextFlusherIsOwned, NextCutIsTrouble, NextFloodLosesNothing
  <1> QED
    BY <1>1, <1>2, <1>3, <1>4 DEF ListenerInv

\* Steps in which the listener and its bus do not take part.
LEMMA StutterListenerInv ==
    ASSUME ListenerInv, UNCHANGED vars
    PROVE  ListenerInv'
  BY DEF ListenerInv, TypeInv, TypeOK, HolderInv, Holders, PipeInv, RepliesAreCounted, Underway,
         WaitsForAReason, LastIsExplained, Expected, StreamsAreOwned, SomeSetup, SomeLoop, SomeUnsub,
         SettingUp, Polling, FlusherIsOwned, CutIsTrouble, FloodLosesNothing,
         vars, bus, client, listener, flusher, history

\* One holder is a set of one.
LEMMA SingleHolder ==
    ASSUME ListenerInv
    PROVE  ListenerIsSingle
  <1>1. CASE Holders = {}
    BY <1>1, FS_EmptySet DEF ListenerInv, TypeInv, HolderInv, ListenerIsSingle, FlagHasOneHolder
  <1>2. CASE Holders # {}
    <2>1. PICK t \in Holders : Holders = {t}
      BY <1>2 DEF ListenerInv, HolderInv
    <2>2. Cardinality(Holders) = 1
      BY <2>1, FS_Singleton
    <2> QED
      BY <2>2 DEF ListenerInv, TypeInv, HolderInv, ListenerIsSingle, FlagHasOneHolder
  <1> QED
    BY <1>1, <1>2

\* The listener alone, in every reachable state.
LEMMA ListenerInvHolds == Spec => []ListenerInv
  <1>1. ListenerInv /\ [Next]_vars => ListenerInv'
    BY NextListenerInv, StutterListenerInv
  <1> QED
    BY <1>1, InitListenerInv, PTL DEF Spec

\* The flag of the listener is set exactly while one task listens or is about to,
\* whatever setup fails, retires or loses the bus (SystemdBus::subscribe,
\* finish_retire); and no stream or queue passes its bound.
THEOREM ListenerStaysSingle == Spec => []ListenerIsSingle
  BY ListenerInvHolds, SingleHolder, PTL

\* Signals that fill a queue never keep a reply from the flusher: as long as the bus
\* neither is slow nor goes away, no refresh of a unit is given up.
THEOREM FloodsAreHarmless == Spec => []FloodLosesNothing
  <1>1. ListenerInv => FloodLosesNothing
    BY DEF ListenerInv
  <1> QED
    BY <1>1, ListenerInvHolds, PTL

-----------------------------------------------------------------------------
(* The poller of Windows.                                                   *)

\* Who is ready has a poller, and who is not yet knows nothing.
PollerInv ==
    /\ Poll!TypeOK
    /\ polling <=> Poll!Pollers # {}
    /\ \A p, q \in Poll!Pollers : p = q
    /\ \A p \in Poll!Pollers, r \in Subscribers : wpc[r] = "ready" => told[r] = prev[p]
    /\ \A r \in Subscribers : /\ wpc[r] # "ready" => told[r] = None
                              /\ wpc[r] = "ready" => Poll!Pollers # {}

\* Nobody polls at first.
LEMMA InitPollerInv == Poll!Init => PollerInv
  <1> SUFFICES ASSUME Poll!Init PROVE PollerInv
    OBVIOUS
  <1>1. Poll!TypeOK
    <2>1. 0 \in 0..MaxMoves /\ 0 \in 0..MaxTrouble
      BY ConstantsAssumption, MovesAssumption
    <2> QED
      BY <2>1 DEF Poll!Init, Poll!TypeOK, Poll!States
  <1> QED
    BY <1>1 DEF Poll!Init, PollerInv, Poll!Pollers

\* What the new receiver is compared with is what the poller has seen.
LEMMA BaselineIsSeen ==
    ASSUME PollerInv, NEW p \in Poll!Pollers
    PROVE  Poll!Baseline = prev[p]
  <1> DEFINE has == {q \in Subscribers : ppc[q] # "none" /\ prev[q] # None}
  <1>1. Poll!Baseline = IF has = {} THEN None ELSE prev[CHOOSE q \in has : TRUE]
    BY DEF Poll!Baseline
  <1>2. \A q \in has : q = p
    BY DEF PollerInv, Poll!Pollers
  <1>3. CASE has = {}
    <2>1. prev[p] = None
      BY <1>3 DEF Poll!Pollers
    <2> QED
      BY <1>1, <1>3, <2>1
  <1>4. CASE has # {}
    <2>1. (CHOOSE q \in has : TRUE) \in has
      BY <1>4
    <2> HIDE DEF has
    <2> QED
      BY <1>1, <1>2, <1>4, <2>1
  <1> QED
    BY <1>3, <1>4

\* A round tells every receiver what the poller sees.
LEMMA RoundIsTold ==
    ASSUME PollerInv, NEW p \in Subscribers, Poll!Enumerate(p)
    PROVE  PollerInv'
  <1>0. /\ polled \in [Units -> Poll!States]
        /\ wpc \in [Subscribers -> {"none", "rx", "ready"}]
        /\ ppc \in [Subscribers -> {"none", "enum", "sleep", "lock"}]
        /\ prev \in [Subscribers -> [Units -> Poll!States] \cup {None}]
        /\ told \in [Subscribers -> [Units -> Poll!States] \cup {None}]
    BY DEF PollerInv, Poll!TypeOK
  <1>1. /\ ppc[p] = "enum"
        /\ ppc' = [ppc EXCEPT ![p] = "sleep"] /\ prev' = [prev EXCEPT ![p] = polled]
        /\ UNCHANGED <<polled, polling, wpc, moves, failures>>
    BY DEF Poll!Enumerate, Poll!Round
  <1>2. told' = [r \in Subscribers |->
                   IF wpc[r] # "ready" \/ (prev[p] = None /\ told[r] # None) THEN told[r]
                   ELSE [s \in Units |->
                           IF told[r] = None \/ polled[s] # prev[p][s] THEN polled[s] ELSE told[r][s]]]
    BY DEF Poll!Enumerate, Poll!Round
  <1>3. p \in Poll!Pollers /\ Poll!Pollers' = Poll!Pollers /\ \A q \in Poll!Pollers : q = p
    BY <1>0, <1>1 DEF PollerInv, Poll!Pollers
  <1>4. ASSUME NEW r \in Subscribers, wpc[r] = "ready"
        PROVE  told'[r] = polled
    <2>1. told[r] = prev[p]
      BY <1>3, <1>4 DEF PollerInv
    <2>2. told'[r] = [s \in Units |-> IF told[r] = None \/ polled[s] # prev[p][s] THEN polled[s] ELSE told[r][s]]
      BY <1>2, <1>4, <2>1
    <2>3. \A s \in Units : (IF told[r] = None \/ polled[s] # prev[p][s] THEN polled[s] ELSE told[r][s]) = polled[s]
      BY <2>1
    <2> QED
      BY <1>0, <2>2, <2>3
  <1>5. told' \in [Subscribers -> [Units -> Poll!States] \cup {None}]
    <2>1. \A r \in Subscribers : told'[r] = IF wpc[r] = "ready" THEN polled ELSE told[r]
      BY <1>2, <1>4
    <2>2. told' = [r \in Subscribers |-> told'[r]]
      BY <1>2
    <2> QED
      BY <1>0, <2>1, <2>2
  <1>6. Poll!TypeOK'
    BY <1>0, <1>1, <1>5 DEF PollerInv, Poll!TypeOK
  <1>7. \A q \in Poll!Pollers', r \in Subscribers : wpc'[r] = "ready" => told'[r] = prev'[q]
    BY <1>0, <1>1, <1>3, <1>4
  <1>8. \A r \in Subscribers : wpc[r] # "ready" => told'[r] = told[r]
    BY <1>2
  <1> QED
    BY <1>1, <1>3, <1>6, <1>7, <1>8 DEF PollerInv

\* Every step of the poller and of those who subscribe.
LEMMA NextPollerInv ==
    ASSUME PollerInv, Poll!Next
    PROVE  PollerInv'
  <1>0. /\ polled \in [Units -> Poll!States] /\ polling \in BOOLEAN
        /\ wpc \in [Subscribers -> {"none", "rx", "ready"}]
        /\ ppc \in [Subscribers -> {"none", "enum", "sleep", "lock"}]
        /\ prev \in [Subscribers -> [Units -> Poll!States] \cup {None}]
        /\ told \in [Subscribers -> [Units -> Poll!States] \cup {None}]
        /\ moves \in 0..MaxMoves /\ failures \in 0..MaxTrouble
        /\ MaxMoves \in Nat /\ MaxTrouble \in Nat
    BY ConstantsAssumption, MovesAssumption DEF PollerInv, Poll!TypeOK
  <1>1. ASSUME NEW s \in Units, Poll!Move(s)
        PROVE  PollerInv'
    <2>1. polled' \in [Units -> Poll!States] /\ moves' \in 0..MaxMoves
      BY <1>0, <1>1 DEF Poll!Move
    <2>2. UNCHANGED <<polling, wpc, ppc, prev, told, failures>>
      BY <1>1 DEF Poll!Move
    <2> QED
      BY <1>0, <2>1, <2>2 DEF PollerInv, Poll!TypeOK, Poll!Pollers
  <1>2. ASSUME NEW r \in Subscribers, Poll!Subscribe(r)
        PROVE  PollerInv'
    BY <1>0, <1>2 DEF Poll!Subscribe, PollerInv, Poll!TypeOK, Poll!Pollers
  <1>3. ASSUME NEW r \in Subscribers, Poll!EnsurePoller(r)
        PROVE  PollerInv'
    <2>1. CASE polling
      <3>1. PICK p \in Poll!Pollers : \A q \in Poll!Pollers : q = p
        BY <2>1 DEF PollerInv
      <3>2. /\ wpc' = [wpc EXCEPT ![r] = "ready"] /\ told' = [told EXCEPT ![r] = prev[p]]
            /\ UNCHANGED <<polled, polling, ppc, prev, moves, failures>>
        BY <1>3, <2>1, <3>1, BaselineIsSeen DEF Poll!EnsurePoller
      <3>3. p \in Subscribers
        BY DEF Poll!Pollers
      <3>4. Poll!TypeOK'
        BY <1>0, <3>2, <3>3 DEF Poll!TypeOK
      <3>5. Poll!Pollers' = Poll!Pollers
        BY <3>2 DEF Poll!Pollers
      <3>6. \A q \in Subscribers : wpc'[q] = "ready" => told'[q] = prev[p]
        BY <1>0, <3>1, <3>2 DEF PollerInv
      <3>7. \A q \in Subscribers : wpc'[q] # "ready" => wpc[q] # "ready" /\ told'[q] = told[q]
        BY <1>0, <3>2
      <3> QED
        BY <3>1, <3>2, <3>4, <3>5, <3>6, <3>7 DEF PollerInv
    <2>2. CASE ~polling
      <3>1. /\ wpc' = [wpc EXCEPT ![r] = "ready"] /\ polling' = TRUE
            /\ ppc' = [ppc EXCEPT ![r] = "enum"] /\ prev' = [prev EXCEPT ![r] = None]
            /\ UNCHANGED <<polled, told, moves, failures>>
        BY <1>3, <2>2 DEF Poll!EnsurePoller
      <3>2. Poll!Pollers = {} /\ \A q \in Subscribers : wpc[q] # "ready" /\ told[q] = None
        BY <2>2 DEF PollerInv
      <3>3. Poll!Pollers' = {r}
        BY <1>0, <3>1, <3>2 DEF Poll!Pollers
      <3>4. Poll!TypeOK'
        BY <1>0, <3>1 DEF Poll!TypeOK
      <3> QED
        BY <1>0, <3>1, <3>2, <3>3, <3>4 DEF PollerInv
    <2> QED
      BY <2>1, <2>2
  <1>4. ASSUME NEW r \in Subscribers, Poll!Unsubscribe(r)
        PROVE  PollerInv'
    <2>1. /\ wpc' = [wpc EXCEPT ![r] = "none"] /\ told' = [told EXCEPT ![r] = None]
          /\ UNCHANGED <<polled, polling, ppc, prev, moves, failures>>
      BY <1>4 DEF Poll!Unsubscribe
    <2>2. Poll!TypeOK' /\ Poll!Pollers' = Poll!Pollers
      BY <1>0, <2>1 DEF Poll!TypeOK, Poll!Pollers
    <2> QED
      BY <1>0, <2>1, <2>2 DEF PollerInv
  <1>5. ASSUME NEW p \in Subscribers, Poll!EnumerateFails(p) \/ Poll!Sleep(p)
        PROVE  PollerInv'
    <2>1. /\ ppc[p] # "none" /\ \E x \in {"enum", "sleep", "lock"} : ppc' = [ppc EXCEPT ![p] = x]
          /\ UNCHANGED <<polled, polling, wpc, prev, told, moves>>
      BY <1>5 DEF Poll!EnumerateFails, Poll!Sleep
    <2>2. failures' \in 0..MaxTrouble
      BY <1>0, <1>5 DEF Poll!EnumerateFails, Poll!Sleep
    <2>3. Poll!TypeOK' /\ Poll!Pollers' = Poll!Pollers
      BY <1>0, <2>1, <2>2 DEF Poll!TypeOK, Poll!Pollers
    <2> QED
      BY <1>0, <2>1, <2>3 DEF PollerInv
  <1>6. ASSUME NEW p \in Subscribers, Poll!Retire(p)
        PROVE  PollerInv'
    <2>0. p \in Poll!Pollers /\ \A q \in Poll!Pollers : q = p
      BY <1>6 DEF Poll!Retire, Poll!Pollers, PollerInv
    <2>1. CASE Poll!Receivers = {}
      <3>1. /\ ppc' = [ppc EXCEPT ![p] = "none"] /\ prev' = [prev EXCEPT ![p] = None] /\ polling' = FALSE
            /\ UNCHANGED <<polled, wpc, told, moves, failures>>
        BY <1>6, <2>1 DEF Poll!Retire
      <3>2. Poll!TypeOK' /\ Poll!Pollers' = {}
        BY <1>0, <2>0, <3>1 DEF Poll!TypeOK, Poll!Pollers
      <3>3. \A r \in Subscribers : wpc[r] = "none"
        BY <2>1 DEF Poll!Receivers
      <3> QED
        BY <1>0, <3>1, <3>2, <3>3 DEF PollerInv
    <2>2. CASE Poll!Receivers # {}
      <3>1. /\ ppc' = [ppc EXCEPT ![p] = "enum"] /\ polling' = polling
            /\ UNCHANGED <<polled, wpc, prev, told, moves, failures>>
        BY <1>0, <1>6, <2>2 DEF Poll!Retire
      <3>2. Poll!TypeOK' /\ Poll!Pollers' = Poll!Pollers
        BY <1>0, <2>0, <3>1 DEF Poll!TypeOK, Poll!Pollers
      <3> QED
        BY <1>0, <3>1, <3>2 DEF PollerInv
    <2> QED
      BY <2>1, <2>2
  <1> QED
    BY <1>1, <1>2, <1>3, <1>4, <1>5, <1>6, RoundIsTold DEF Poll!Next, Poll!Poller

\* Steps in which the poller does not take part.
LEMMA StutterPollerInv ==
    ASSUME PollerInv, UNCHANGED pollers
    PROVE  PollerInv'
  BY DEF PollerInv, Poll!TypeOK, Poll!Pollers, pollers

\* On Linux as on Windows one task listens, or polls, exactly while its flag is set,
\* and every receiver knows what the rounds have found (ensure_poller and the end of
\* the poller, finish_retire).
THEOREM OneTaskListens == EventsSpec => []ListensOnce
  <1>1. EventsInit => ListenerInv /\ PollerInv
    BY InitListenerInv, InitPollerInv DEF EventsInit
  <1>2. ListenerInv /\ PollerInv /\ [EventsNext]_all => (ListenerInv /\ PollerInv)'
    <2> SUFFICES ASSUME ListenerInv, PollerInv, [EventsNext]_all
                 PROVE  ListenerInv' /\ PollerInv'
      OBVIOUS
    <2>1. Next \/ UNCHANGED vars
      BY DEF EventsNext, all, listeners
    <2>2. Poll!Next \/ UNCHANGED pollers
      BY DEF EventsNext, all
    <2> QED
      BY <2>1, <2>2, NextListenerInv, StutterListenerInv, NextPollerInv, StutterPollerInv
  <1>3. ListenerInv /\ PollerInv => ListensOnce
    BY SingleHolder DEF ListensOnce, PollerInv, Poll!TypeOK, Poll!PollerIsSingle
  <1> QED
    BY <1>1, <1>2, <1>3, PTL DEF EventsSpec
=============================================================================
