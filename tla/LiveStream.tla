----------------------------- MODULE LiveStream -----------------------------
(***************************************************************************)
(* What a browser may count on when it subscribes to a channel of the hub: *)
(* from the moment of its subscription it is given every frame, in order   *)
(* and once, or it is told how many it was not given.  On a channel whose  *)
(* frames replace each other it may be given a later one instead, never an *)
(* older one.  Connections, queues and tasks are not part of the promise.  *)
(***************************************************************************)
EXTENDS Naturals

CONSTANTS Channels, Watched, Subs, None

VARIABLES
    published,  \* frames of each channel so far
    chan,       \* channel of a subscription, None without one
    seen,       \* the last frame its browser was given or told of
    told        \* what it was told last

vars == <<published, chan, seen, told>>

Nothing == [kind |-> "nothing", n |-> 0]

Init ==
    /\ published = [ch \in Channels |-> 0]
    /\ chan = [s \in Subs |-> None]
    /\ seen = [s \in Subs |-> 0]
    /\ told = [s \in Subs |-> Nothing]

Without(f, S, v) == [s \in Subs |-> IF s \in S THEN v ELSE f[s]]

\* The channel has one more frame, for whoever listens.
Publish(ch) ==
    /\ published' = [published EXCEPT ![ch] = @ + 1]
    /\ UNCHANGED <<chan, seen, told>>

\* A subscription begins with what is published from now on; it may replace
\* others.
Join(s, ch, S) ==
    /\ chan[s] = None
    /\ chan' = [Without(chan, S, None) EXCEPT ![s] = ch]
    /\ seen' = [Without(seen, S, 0) EXCEPT ![s] = published[ch]]
    /\ told' = [Without(told, S, Nothing) EXCEPT ![s] = Nothing]
    /\ UNCHANGED published

\* Subscriptions end: by the browser, with the connection or with the source.
Leave(S) ==
    /\ chan' = Without(chan, S, None)
    /\ seen' = Without(seen, S, 0)
    /\ told' = Without(told, S, Nothing)
    /\ UNCHANGED published

Tell(s, kind, n, upto) ==
    /\ chan[s] # None
    /\ upto <= published[chan[s]]
    /\ told' = [told EXCEPT ![s] = [kind |-> kind, n |-> n]]
    /\ seen' = [seen EXCEPT ![s] = upto]
    /\ UNCHANGED <<published, chan>>

\* The next frame.
Deliver(s) == chan[s] \notin Watched /\ Tell(s, "data", seen[s] + 1, seen[s] + 1)

\* n frames were dropped.
Announce(s, n) == n > 0 /\ Tell(s, "lost", n, seen[s] + n)

\* A later state of a channel whose frames replace each other.
Supersede(s, n) == chan[s] \in Watched /\ n > seen[s] /\ Tell(s, "data", n, n)

Next ==
    \/ \E ch \in Channels : Publish(ch)
    \/ \E S \in SUBSET Subs :
        \/ \E s \in Subs, ch \in Channels : Join(s, ch, S)
        \/ Leave(S)
    \/ \E s \in Subs :
        \/ Deliver(s)
        \/ chan[s] # None /\ \E n \in 1..published[chan[s]] : Announce(s, n) \/ Supersede(s, n)

Spec == Init /\ [][Next]_vars
=============================================================================
