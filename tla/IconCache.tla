----------------------------- MODULE IconCache -----------------------------
(***************************************************************************)
(* The cache of program icons.  A caller that finds no fresh entry puts a  *)
(* placeholder in its place and extracts; others wait for the placeholder  *)
(* to go and look again.  A caller may be cancelled at any wait: its guard *)
(* takes the placeholder away, the blocking extraction runs on for nobody. *)
(* The warmer removes what would not live to its next round and gets it    *)
(* again through the same calls.                                           *)
(*                                                                         *)
(* Time is the age of entries, in intervals of the warmer.                 *)
(***************************************************************************)
EXTENDS Integers, FiniteSets

CONSTANTS
    Callers,      \* requests
    Warmers,      \* the concurrent calls of a warmer's round
    Keys,
    Ttl,          \* TTL
    Interval,     \* REFRESH_INTERVAL
    Capacity,
    MaxAttempts,
    None

Tasks == Callers \cup Warmers

VARIABLES
    slots,    \* key -> [kind, by, png, age]
    pc,       \* of a call: idle, look, wait, load, once
    want,     \* its key
    tries,    \* rounds it has made
    due       \* keys of the warmer's round that no call has yet

vars == <<slots, pc, want, tries, due>>

NoSlot       == [kind |-> "none", by |-> None, png |-> FALSE, age |-> 0]
Loading(t)   == [kind |-> "loading", by |-> t, png |-> FALSE, age |-> 0]
Ready(png)   == [kind |-> "ready", by |-> None, png |-> png, age |-> 0]

Init ==
    /\ slots = [k \in Keys |-> NoSlot]
    /\ pc = [t \in Tasks |-> "idle"]
    /\ want = [t \in Tasks |-> None]
    /\ tries = [t \in Tasks |-> 0]
    /\ due = {}

Fresh(k) == slots[k].kind = "ready" /\ slots[k].age < Ttl

\* When a placeholder goes, whoever waits for its key looks again.
Woken(k) == [t \in Tasks |-> IF pc[t] = "wait" /\ want[t] = k THEN "look" ELSE pc[t]]

-----------------------------------------------------------------------------
(* get. *)

Begin(t, k) ==
    /\ pc' = [pc EXCEPT ![t] = "look"]
    /\ want' = [want EXCEPT ![t] = k]
    /\ tries' = [tries EXCEPT ![t] = 0]

Get(t, k) ==
    /\ t \in Callers /\ pc[t] = "idle"
    /\ Begin(t, k)
    /\ UNCHANGED <<slots, due>>

Return(t, p) ==
    /\ pc' = [p EXCEPT ![t] = "idle"]
    /\ want' = [want EXCEPT ![t] = None]
    /\ tries' = [tries EXCEPT ![t] = 0]

Hit(t) ==
    /\ pc[t] = "look" /\ tries[t] < MaxAttempts /\ Fresh(want[t])
    /\ Return(t, pc)
    /\ UNCHANGED <<slots, due>>

Wait(t) ==
    /\ pc[t] = "look" /\ tries[t] < MaxAttempts /\ slots[want[t]].kind = "loading"
    /\ pc' = [pc EXCEPT ![t] = "wait"]
    /\ tries' = [tries EXCEPT ![t] = @ + 1]
    /\ UNCHANGED <<slots, want, due>>

Load(t) ==
    /\ pc[t] = "look" /\ tries[t] < MaxAttempts
    /\ slots[want[t]].kind # "loading" /\ ~Fresh(want[t])
    /\ slots' = [slots EXCEPT ![want[t]] = Loading(t)]
    /\ pc' = [pc EXCEPT ![t] = "load"]
    /\ UNCHANGED <<want, tries, due>>

\* After MAX_ATTEMPTS it extracts for itself, past the cache.
GoAlone(t) ==
    /\ pc[t] = "look" /\ tries[t] = MaxAttempts
    /\ pc' = [pc EXCEPT ![t] = "once"]
    /\ UNCHANGED <<slots, want, tries, due>>

\* The entries that evict may remove: everything expired, then as many of the
\* oldest as it takes; never a placeholder.
Evictions(s) ==
    LET used    == {k \in Keys : s[k].kind # "none"}
        ready   == {k \in used : s[k].kind = "ready"}
        expired == {k \in ready : s[k].age >= Ttl}
        rest    == ready \ expired
        over    == Cardinality(used) - Cardinality(expired) - Capacity
        n       == IF over < 0 THEN 0 ELSE IF over > Cardinality(rest) THEN Cardinality(rest) ELSE over
    IN IF Cardinality(used) <= Capacity THEN {{}}
       ELSE {expired \cup d : d \in {d \in SUBSET rest :
                /\ Cardinality(d) = n
                /\ \A a \in d, b \in rest \ d : s[a].age >= s[b].age}}

\* The extraction is over: the result, or that there is none, is cached.
Publish(t, png) ==
    LET k == want[t] s == [slots EXCEPT ![k] = Ready(png)] IN
    /\ pc[t] = "load"
    /\ \E gone \in Evictions(s) : slots' = [i \in Keys |-> IF i \in gone THEN NoSlot ELSE s[i]]
    /\ Return(t, Woken(k))
    /\ UNCHANGED due

ReturnAlone(t) ==
    /\ pc[t] = "once"
    /\ Return(t, pc)
    /\ UNCHANGED <<slots, due>>

\* LoadGuard::drop: the placeholder goes, if there still is one.
Unload(k) == IF slots[k].kind = "loading" THEN [slots EXCEPT ![k] = NoSlot] ELSE slots

\* The future of a request is dropped at a wait; its extraction runs on, for
\* nobody.
Cancel(t) ==
    LET k == want[t] IN
    /\ t \in Callers /\ pc[t] \in {"wait", "load", "once"}
    /\ slots' = IF pc[t] = "load" THEN Unload(k) ELSE slots
    /\ Return(t, IF slots'[k] # slots[k] THEN Woken(k) ELSE pc)
    /\ UNCHANGED due

-----------------------------------------------------------------------------
(* The warmer. *)

\* A slip: what is being extracted is removed as well.
StaleOrLoading(k) ==
    \/ slots[k].kind \in {"none", "loading"}
    \/ slots[k].kind = "ready" /\ slots[k].png /\ slots[k].age >= Ttl - Interval

\* Not what is being extracted, and not what could not be.
Stale(k) ==
    \/ slots[k].kind = "none"
    \/ slots[k].kind = "ready" /\ slots[k].png /\ slots[k].age >= Ttl - Interval

Refresh(names) ==
    /\ due = {} /\ \A w \in Warmers : pc[w] = "idle"
    /\ due' = {k \in names : Stale(k)}
    /\ due' # {}
    /\ slots' = [k \in Keys |-> IF k \in due' THEN NoSlot ELSE slots[k]]
    /\ pc' = [t \in Tasks |-> IF want[t] \in due' THEN Woken(want[t])[t] ELSE pc[t]]
    /\ UNCHANGED <<want, tries>>

\* buffer_unordered: a call of its own for each, so many at a time.
WarmNext(t, k) ==
    /\ t \in Warmers /\ pc[t] = "idle" /\ k \in due
    /\ due' = due \ {k}
    /\ Begin(t, k)
    /\ UNCHANGED slots

\* An interval of the warmer passes.
Age ==
    /\ \E k \in Keys : slots[k].kind = "ready" /\ slots[k].age < Ttl
    /\ slots' = [k \in Keys |-> IF slots[k].kind = "ready" /\ slots[k].age < Ttl
                                THEN [slots[k] EXCEPT !.age = @ + 1] ELSE slots[k]]
    /\ UNCHANGED <<pc, want, tries, due>>

-----------------------------------------------------------------------------
Look(t) == Hit(t) \/ Wait(t) \/ Load(t) \/ GoAlone(t)

Extracted(t) == (\E png \in BOOLEAN : Publish(t, png)) \/ ReturnAlone(t)

Next ==
    \/ \E t \in Tasks :
        \/ Look(t) \/ Extracted(t) \/ Cancel(t)
        \/ \E k \in Keys : Get(t, k) \/ WarmNext(t, k)
    \/ \E names \in SUBSET Keys : Refresh(names)
    \/ Age

Spec == Init /\ [][Next]_vars

-----------------------------------------------------------------------------
TypeOK ==
    /\ slots \in [Keys -> [kind : {"none", "loading", "ready"}, by : Tasks \cup {None},
                           png : BOOLEAN, age : 0..Ttl]]
    /\ pc \in [Tasks -> {"idle", "look", "wait", "load", "once"}]
    /\ want \in [Tasks -> Keys \cup {None}]
    /\ tries \in [Tasks -> 0..MaxAttempts]
    /\ due \subseteq Keys

\* The placeholder of a key is that of the one call which extracts for it, so
\* that its guard, which does not look whose it is, removes its own; and whoever
\* waits, waits for such a call: not for one that was cancelled, nor for an entry
\* that was evicted or refreshed.
PlaceholderHasItsLoader ==
    /\ \A t \in Tasks : pc[t] = "load" => slots[want[t]] = Loading(t)
    /\ \A k \in Keys : slots[k].kind = "loading" => pc[slots[k].by] = "load" /\ want[slots[k].by] = k
    /\ \A t \in Tasks : pc[t] = "wait" => slots[want[t]].kind = "loading"
=============================================================================
