----------------------------- MODULE LogFollow -----------------------------
(***************************************************************************)
(* Following the log (journalctl --follow; oslog and the event log share   *)
(* the shape): followers with the same filter share one child process, its *)
(* reader and one broadcast channel.  The map of the provider only has a   *)
(* Weak of what they share; each follower holds an Arc, and the drop of    *)
(* the last one aborts the reader, whose Child is killed on drop.          *)
(*                                                                         *)
(* The n-th batch of a child is n.                                         *)
(***************************************************************************)
EXTENDS Integers, FiniteSets

CONSTANTS
    Followers,
    Keys,      \* filters (FollowKey)
    Children,  \* what followers share, and its process: one each
    Cap,       \* FOLLOW_CAPACITY
    MaxBatch,  \* bound of the batches of a child
    None

VARIABLES
    follows,   \* the map: FollowKey -> Weak
    key,       \* of a child
    proc,      \* of a child: none, running, exited
    reader,    \* its task: none, reading, done
    sent,      \* batches in its channel so far
    lease,     \* the Arc of a follower, None before and after
    pos        \* the batches it has seen or lost

vars == <<follows, key, proc, reader, sent, lease, pos>>

Init ==
    /\ follows = [k \in Keys |-> None]
    /\ key = [c \in Children |-> None]
    /\ proc = [c \in Children |-> "none"]
    /\ reader = [c \in Children |-> "none"]
    /\ sent = [c \in Children |-> 0]
    /\ lease = [f \in Followers |-> None]
    /\ pos = [f \in Followers |-> 0]

Holders(c) == {f \in Followers : lease[f] = c}

\* What map.retain leaves: who is held by nobody is forgotten.
Retained == [k \in Keys |-> IF follows[k] # None /\ Holders(follows[k]) # {} THEN follows[k] ELSE None]

\* What Weak::upgrade finds.
Shared(k) == Retained[k]

Join(f, k) ==
    /\ lease[f] = None /\ Shared(k) # None
    /\ lease' = [lease EXCEPT ![f] = Shared(k)]
    /\ pos' = [pos EXCEPT ![f] = sent[Shared(k)]]
    /\ follows' = Retained
    /\ UNCHANGED <<key, proc, reader, sent>>

\* A child that has ended is forgotten with its last holder.
Unused(c) == proc[c] # "running" /\ reader[c] # "reading" /\ Holders(c) = {}

\* The first with this filter starts a child.
Spawn(f, k, c) ==
    /\ lease[f] = None /\ Shared(k) = None
    /\ Unused(c)
    /\ key' = [key EXCEPT ![c] = k]
    /\ proc' = [proc EXCEPT ![c] = "running"]
    /\ reader' = [reader EXCEPT ![c] = "reading"]
    /\ follows' = [Retained EXCEPT ![k] = c]
    /\ lease' = [lease EXCEPT ![f] = c]
    /\ sent' = [sent EXCEPT ![c] = 0]
    /\ UNCHANGED pos

\* spawn fails: the map has been tidied up.
SpawnFails(f, k) ==
    /\ lease[f] = None /\ Shared(k) = None
    /\ follows' = Retained
    /\ UNCHANGED <<key, proc, reader, sent, lease, pos>>

\* The child writes, and the reader sends a batch, to whoever is there.
Batch(c) ==
    /\ proc[c] = "running" /\ reader[c] = "reading" /\ sent[c] < MaxBatch
    /\ sent' = [sent EXCEPT ![c] = @ + 1]
    /\ UNCHANGED <<follows, key, proc, reader, lease, pos>>

\* The child ends by itself: journald went away, somebody killed it.
ChildExits(c) ==
    /\ proc[c] = "running"
    /\ proc' = [proc EXCEPT ![c] = "exited"]
    /\ UNCHANGED <<follows, key, reader, sent, lease, pos>>

\* The reader sees the end of its output and returns.
ReaderEnds(c) ==
    /\ reader[c] = "reading" /\ proc[c] = "exited"
    /\ reader' = [reader EXCEPT ![c] = "done"]
    /\ UNCHANGED <<follows, key, proc, sent, lease, pos>>

\* FollowShared::drop: the reader is aborted, and the Child it owns killed.
\* The holder that left was the last one.
DropShared(c) ==
    /\ reader[c] = "reading" /\ Holders(c) = {}
    /\ reader' = [reader EXCEPT ![c] = "done"]
    /\ proc' = [proc EXCEPT ![c] = "exited"]
    /\ UNCHANGED <<follows, key, sent, lease, pos>>

\* Nobody can send to a follower of c: its reader has returned and the Sender of
\* FollowShared is dropped.
Closed(c) == reader[c] # "reading" /\ Holders(c) = {}

\* LogFollow::next: the next batch, the oldest one kept for who is Lagged, or the
\* end of the channel.
NextBatch(f) ==
    LET c == lease[f] oldest == IF sent[c] > Cap THEN sent[c] - Cap ELSE 0 IN
    /\ c # None
    /\ pos[f] < sent[c] \/ Closed(c)
    /\ IF pos[f] < sent[c]
       THEN /\ pos' = [pos EXCEPT ![f] = (IF @ < oldest THEN oldest ELSE @) + 1]
            /\ UNCHANGED lease
       ELSE lease' = [lease EXCEPT ![f] = None] /\ pos' = [pos EXCEPT ![f] = 0]
    /\ UNCHANGED <<follows, key, proc, reader, sent>>

\* The follower is dropped, its Arc with it.
Leave(f) ==
    /\ lease[f] # None
    /\ lease' = [lease EXCEPT ![f] = None]
    /\ pos' = [pos EXCEPT ![f] = 0]
    /\ UNCHANGED <<follows, key, proc, reader, sent>>

Next ==
    \/ \E f \in Followers :
        \/ \E k \in Keys : Join(f, k) \/ SpawnFails(f, k) \/ \E c \in Children : Spawn(f, k, c)
        \/ NextBatch(f) \/ Leave(f)
    \/ \E c \in Children : Batch(c) \/ ChildExits(c) \/ ReaderEnds(c) \/ DropShared(c)

Spec == Init /\ [][Next]_vars

\* The reader and the followers run; a child ends when it wants to.
Fairness ==
    /\ \A c \in Children : WF_vars(ReaderEnds(c)) /\ WF_vars(DropShared(c))
    /\ \A f \in Followers : WF_vars(NextBatch(f))

FairSpec == Spec /\ Fairness

-----------------------------------------------------------------------------
TypeOK ==
    /\ follows \in [Keys -> Children \cup {None}]
    /\ key \in [Children -> Keys \cup {None}]
    /\ proc \in [Children -> {"none", "running", "exited"}]
    /\ reader \in [Children -> {"none", "reading", "done"}]
    /\ sent \in [Children -> Nat]
    /\ lease \in [Followers -> Children \cup {None}]
    /\ pos \in [Followers -> Nat]

\* Followers with one filter share one child, which the map knows: none of them
\* is left with a child that the next one does not find.
OneChildPerFilter == \A f \in Followers : lease[f] # None => follows[key[lease[f]]] = lease[f]

\* A child that nobody follows is ended, whatever else happens.
ChildEndsWithFollowers ==
    \A c \in Children : (proc[c] = "running" /\ Holders(c) = {}) ~> proc[c] = "exited"

-----------------------------------------------------------------------------
(* What the comments say and the code does not do.                         *)

\* log/mod.rs 78: the follower of a child that has ended is told so.
EndIsTold == \A f \in Followers, c \in Children : (lease[f] = c /\ proc[c] = "exited") ~> lease[f] # c
=============================================================================
