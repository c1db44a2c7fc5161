----------------------------- MODULE ScmPoller -----------------------------
(***************************************************************************)
(* The events of services on Windows (ServiceControlManager).  The service *)
(* control manager sends none: while somebody subscribes one task          *)
(* enumerates the services in rounds and broadcasts what differs from the  *)
(* round before.  A poller is named after the subscriber that spawned it.  *)
(***************************************************************************)
EXTENDS Integers

CONSTANTS
    Subscribers,
    Services,
    MaxMoves,   \* bound of the changes of services
    MaxTrouble, \* bound of the rounds that fail
    None

\* What a summary says of a service; one that is not enumerated is gone.
States == {"running", "stopped", "gone"}

VARIABLES
    state,     \* of a service
    polling,   \* Shared.polling
    spc,       \* of a subscriber: none, rx, ready
    ppc,       \* of a poller: none, enum, sleep, lock
    prev,      \* its last round, None before the first
    told,      \* history: what a receiver knows from the rounds, None before the first
    moves, trouble

vars == <<state, polling, spc, ppc, prev, told, moves, trouble>>

Init ==
    /\ state \in [Services -> {"running", "stopped"}]
    /\ polling = FALSE
    /\ spc = [r \in Subscribers |-> "none"]
    /\ ppc = [r \in Subscribers |-> "none"]
    /\ prev = [r \in Subscribers |-> None]
    /\ told = [r \in Subscribers |-> None]
    /\ moves = 0 /\ trouble = 0

Move(s) ==
    /\ moves < MaxMoves
    /\ moves' = moves + 1
    /\ \E x \in States \ {state[s]} : state' = [state EXCEPT ![s] = x]
    /\ UNCHANGED <<polling, spc, ppc, prev, told, trouble>>

Receivers == {r \in Subscribers : spc[r] # "none"}

\* What one enumeration finds.
Round == state

\* subscribe takes its receiver first.
Subscribe(r) ==
    /\ spc[r] = "none"
    /\ spc' = [spc EXCEPT ![r] = "rx"]
    /\ UNCHANGED <<state, polling, ppc, prev, told, moves, trouble>>

\* The rounds of the poller that is there.
Baseline ==
    LET has == {p \in Subscribers : ppc[p] # "none" /\ prev[p] # None} IN
    IF has = {} THEN None ELSE prev[CHOOSE p \in has : TRUE]

\* ensure_poller.
EnsurePoller(r) ==
    /\ spc[r] = "rx"
    /\ spc' = [spc EXCEPT ![r] = "ready"]
    /\ \/ /\ polling
          /\ told' = [told EXCEPT ![r] = Baseline]
          /\ UNCHANGED <<polling, ppc, prev>>
       \/ /\ ~polling /\ ppc[r] = "none"
          /\ polling' = TRUE
          /\ ppc' = [ppc EXCEPT ![r] = "enum"]
          /\ prev' = [prev EXCEPT ![r] = None]
          /\ UNCHANGED told
    /\ UNCHANGED <<state, moves, trouble>>

Unsubscribe(r) ==
    /\ spc[r] = "ready"
    /\ spc' = [spc EXCEPT ![r] = "none"]
    /\ told' = [told EXCEPT ![r] = None]
    /\ UNCHANGED <<state, polling, ppc, prev, moves, trouble>>

\* A round: the first is only the baseline, later ones send what differs.
Enumerate(p) ==
    /\ ppc[p] = "enum"
    /\ ppc' = [ppc EXCEPT ![p] = "sleep"]
    /\ prev' = [prev EXCEPT ![p] = Round]
    /\ told' = [r \in Subscribers |->
                  IF spc[r] # "ready" \/ (prev[p] = None /\ told[r] # None) THEN told[r]
                  ELSE [s \in Services |->
                          IF told[r] = None \/ Round[s] # prev[p][s] THEN Round[s] ELSE told[r][s]]]
    /\ UNCHANGED <<state, polling, spc, moves, trouble>>

\* A slip: it is forgotten.
EnumerateFailsAfresh(p) ==
    /\ ppc[p] = "enum" /\ trouble < MaxTrouble /\ trouble' = trouble + 1
    /\ ppc' = [ppc EXCEPT ![p] = "sleep"]
    /\ prev' = [prev EXCEPT ![p] = None]
    /\ UNCHANGED <<state, polling, spc, told, moves>>

\* A round that fails leaves the baseline.
EnumerateFails(p) ==
    /\ ppc[p] = "enum" /\ trouble < MaxTrouble /\ trouble' = trouble + 1
    /\ ppc' = [ppc EXCEPT ![p] = "sleep"]
    /\ UNCHANGED <<state, polling, spc, prev, told, moves>>

\* POLL_INTERVAL, and a first look without the lock.
Sleep(p) ==
    /\ ppc[p] = "sleep"
    /\ ppc' = [ppc EXCEPT ![p] = IF Receivers = {} THEN "lock" ELSE "enum"]
    /\ UNCHANGED <<state, polling, spc, prev, told, moves, trouble>>

\* A slip: nobody looks again.
RetireBlindly(p) ==
    /\ ppc[p] = "lock"
    /\ ppc' = [ppc EXCEPT ![p] = "none"]
    /\ prev' = [prev EXCEPT ![p] = None]
    /\ polling' = FALSE
    /\ UNCHANGED <<state, spc, told, moves, trouble>>

\* It looks again under the lock before it gives the flag back.
Retire(p) ==
    /\ ppc[p] = "lock"
    /\ ppc' = [ppc EXCEPT ![p] = IF Receivers = {} THEN "none" ELSE "enum"]
    /\ prev' = IF Receivers = {} THEN [prev EXCEPT ![p] = None] ELSE prev
    /\ polling' = (polling /\ Receivers # {})
    /\ UNCHANGED <<state, spc, told, moves, trouble>>

-----------------------------------------------------------------------------
Poller(p) == Enumerate(p) \/ Sleep(p) \/ Retire(p)

Next ==
    \/ \E s \in Services : Move(s)
    \/ \E r \in Subscribers :
        Subscribe(r) \/ EnsurePoller(r) \/ Unsubscribe(r) \/ Poller(r) \/ EnumerateFails(r)

Spec == Init /\ [][Next]_vars

\* A call of subscribe returns, and the task goes through its rounds.
Fairness == \A r \in Subscribers : WF_vars(Poller(r)) /\ WF_vars(EnsurePoller(r))

FairSpec == Spec /\ Fairness

-----------------------------------------------------------------------------
TypeOK ==
    /\ state \in [Services -> States]
    /\ polling \in BOOLEAN
    /\ spc \in [Subscribers -> {"none", "rx", "ready"}]
    /\ ppc \in [Subscribers -> {"none", "enum", "sleep", "lock"}]
    /\ prev \in [Subscribers -> [Services -> States] \cup {None}]
    /\ told \in [Subscribers -> [Services -> States] \cup {None}]
    /\ moves \in 0..MaxMoves /\ trouble \in 0..MaxTrouble

Pollers == {p \in Subscribers : ppc[p] # "none"}

\* The flag is set exactly while one task polls, and every receiver knows what that
\* task has seen: no round is compared with one that a receiver has not been told.
PollerIsSingle ==
    /\ TypeOK
    /\ \A p, q \in Pollers : p = q
    /\ polling <=> Pollers # {}
    /\ \A p \in Pollers, r \in Subscribers : spc[r] = "ready" => told[r] = prev[p]

IsServed(r) == spc[r] = "none" \/ told[r] # None

\* Whoever has subscribed is polled for, also one that comes while the poller of
\* the others retires.
ReceiverHasPoller == \A r \in Subscribers : spc[r] = "ready" ~> IsServed(r)

IsBehind(r, s) == told[r] # None /\ told[r][s] # state[s]

\* A receiver is told the state of a service that lasts, whatever rounds failed and
\* whoever left meanwhile.
StateReachesReceivers == \A r \in Subscribers, s \in Services : IsBehind(r, s) ~> ~IsBehind(r, s)
=============================================================================
