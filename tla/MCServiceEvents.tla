-------------------------- MODULE MCServiceEvents --------------------------
(***************************************************************************)
(* The events of services, two components in behaviours of their own: the  *)
(* listener for systemd units, and the poller of Windows.  `part` says     *)
(* which of them a behaviour is about.                                     *)
(***************************************************************************)
EXTENDS ServiceEvents

CONSTANTS
    MaxMoves

ASSUME MovesAssumption == MaxMoves \in Nat

VARIABLES
    part,
    polled, polling, wpc, ppc, prev, told, moves, failures

Poll == INSTANCE ScmPoller WITH Services <- Units, state <- polled, spc <- wpc, trouble <- failures

listeners == vars
pollers   == <<polled, polling, wpc, ppc, prev, told, moves, failures>>
all       == <<part, listeners, pollers>>

EventsInit ==
    /\ part \in {"listener", "poller"}
    /\ Init /\ Poll!Init
    /\ part = "listener" => \A s \in Units : polled[s] = "stopped"

EventsNext ==
    /\ UNCHANGED part
    /\ IF part = "listener" THEN Next ELSE UNCHANGED listeners
    /\ IF part = "poller" THEN Poll!Next ELSE UNCHANGED pollers

EventsFairness ==
    /\ WF_listeners(part = "listener" /\ Bus) /\ WF_listeners(part = "listener" /\ FlusherTask)
    /\ \A r \in Subscribers :
        /\ WF_listeners(part = "listener" /\ Returns(r)) /\ WF_listeners(part = "listener" /\ Task(r))
        /\ WF_pollers(part = "poller" /\ Poll!Poller(r))
        /\ WF_pollers(part = "poller" /\ Poll!EnsurePoller(r))

EventsSpec == EventsInit /\ [][EventsNext]_all /\ EventsFairness

-----------------------------------------------------------------------------
\* One task listens, or polls, while its flag is set, and receivers know what the
\* poller has seen.
ListensOnce == ListenerIsSingle /\ Poll!PollerIsSingle

\* A subscriber is told what changes, also after rounds that failed:
\* ChangesReachReceivers and Poll!StateReachesReceivers.
ReceiversAreTold ==
    \A r \in Subscribers, u \in Units :
        (owed[r][u] # 0 \/ Poll!IsBehind(r, u))
            ~> (IF part = "listener" THEN IsPaid(r, u) ELSE ~Poll!IsBehind(r, u))

\* And it has somebody who looks, also when the one before retires:
\* ReceiverHasListener and Poll!ReceiverHasPoller.
ReceiversAreServed ==
    \A r \in Subscribers :
        (spc[r] = "ready" \/ wpc[r] = "ready")
            ~> (IF part = "listener" THEN IsServed(r) ELSE Poll!IsServed(r))
=============================================================================
