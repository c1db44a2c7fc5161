----------------------------- MODULE ScmActions -----------------------------
(***************************************************************************)
(* Actions on services of Windows (ServiceControlManager).  Each runs in a *)
(* thread that nobody can cancel; stop and start are only asked for, and   *)
(* several callers, and others, may act on a service at once.  A thread is *)
(* named after its caller.                                                 *)
(***************************************************************************)
EXTENDS Integers, FiniteSets

CONSTANTS
    Services,
    Callers,
    MaxMoves,   \* bound of what services do by themselves, and of what others do to them
    MaxTrouble, \* bound of the calls whose caller gives up
    None

States     == {"running", "stopping", "stopped", "starting", "gone"}
StartTypes == {"auto", "demand", "disabled", "boot"}
Ops        == {"start", "stop", "restart", "enable", "disable", "mask", "unmask"}

VARIABLES
    state,     \* of a service
    startType,
    starts,    \* history: how often it was started
    moves,
    apc,       \* of a thread: idle, open, stop, wait, start, read, write
    op,        \* what it does, and to which service
    answer,    \* what the caller has: none, ok, error, timeout
    base,      \* history: starts when it asked to stop
    trouble

services == <<state, startType, starts, moves>>
vars     == <<services, apc, op, answer, base, trouble>>

Init ==
    /\ state \in [Services -> {"running", "stopped"}]
    /\ startType \in [Services -> StartTypes]
    /\ starts = [s \in Services |-> 0]
    /\ moves = 0
    /\ apc = [c \in Callers |-> "idle"]
    /\ op \in [Callers -> [do : Ops, to : Services]]
    /\ answer = [c \in Callers |-> "none"]
    /\ base = [c \in Callers |-> 0]
    /\ trouble = 0

-----------------------------------------------------------------------------
(* The service control manager. *)

Becomes(s, x) ==
    /\ state' = [state EXCEPT ![s] = x]
    /\ starts' = IF x = "starting" THEN [starts EXCEPT ![s] = @ + 1] ELSE starts

\* What is pending comes true.
Settle(s) ==
    /\ \/ state[s] = "starting" /\ Becomes(s, "running")
       \/ state[s] = "stopping" /\ Becomes(s, "stopped")
    /\ UNCHANGED <<startType, moves, apc, op, answer, base, trouble>>

Open(s) == {c \in Callers : apc[c] \notin {"idle", "open"} /\ op[c].to = s}

\* A service stops by itself or is started, deleted or installed by others.
Move(s) ==
    /\ moves < MaxMoves
    /\ \/ state[s] = "running" /\ Becomes(s, "stopped")
       \/ state[s] = "stopped" /\ startType[s] # "disabled" /\ Becomes(s, "starting")
       \/ state[s] = "stopped" /\ Open(s) = {} /\ Becomes(s, "gone")
       \/ state[s] = "gone" /\ Becomes(s, "stopped")
    /\ moves' = moves + 1
    /\ UNCHANGED <<startType, apc, op, answer, base, trouble>>

-----------------------------------------------------------------------------
(* Actions. *)

Goes(c, x) == apc' = [apc EXCEPT ![c] = x]

\* The thread is through; its caller may have gone.
Ends(c, res) ==
    /\ Goes(c, "idle")
    /\ answer' = IF answer[c] = "none" THEN [answer EXCEPT ![c] = res] ELSE answer

Act(c) ==
    /\ apc[c] = "idle" /\ answer[c] = "none"
    /\ Goes(c, "open")
    /\ UNCHANGED <<services, op, answer, base, trouble>>

FirstStep(do) ==
    CASE do = "start" -> "start"
      [] do \in {"stop", "restart"} -> "stop"
      [] OTHER -> "read"

OpenService(c) ==
    /\ apc[c] = "open"
    /\ IF state[op[c].to] = "gone" THEN Ends(c, "error")
       ELSE Goes(c, FirstStep(op[c].do)) /\ UNCHANGED answer
    /\ UNCHANGED <<services, op, base, trouble>>

\* stop_idempotent; what is pending takes no control.
Stop(c) ==
    LET s == op[c].to
        more == op[c].do = "restart" IN
    /\ apc[c] = "stop"
    /\ base' = [base EXCEPT ![c] = starts[s]]
    /\ \/ /\ state[s] \in {"starting", "stopping"}
          /\ Ends(c, "error") /\ UNCHANGED <<state, starts>>
       \/ /\ state[s] \in {"running", "stopped"}
          /\ IF state[s] = "running" THEN Becomes(s, "stopping") ELSE UNCHANGED <<state, starts>>
          /\ IF more THEN Goes(c, "wait") /\ UNCHANGED answer ELSE Ends(c, "ok")
    /\ UNCHANGED <<startType, moves, op, trouble>>

\* A slip: it does not wait.
HasStopped(s) == state[s] = "stopped"
HasBeenAsked(s) == state[s] # "gone"

\* wait_until_stopped sees it at one of its looks, or gives up.
Wait(c) ==
    /\ apc[c] = "wait" /\ HasStopped(op[c].to)
    /\ Goes(c, "start")
    /\ UNCHANGED <<services, op, answer, base, trouble>>

WaitFails(c) ==
    /\ apc[c] = "wait" /\ ~HasStopped(op[c].to)
    /\ Ends(c, "error")
    /\ UNCHANGED <<services, op, base, trouble>>

\* start_idempotent.  What is not stopped counts as running; what is stopping may
\* also be refused.
Start(c) ==
    LET s == op[c].to IN
    /\ apc[c] = "start"
    /\ \/ /\ state[s] = "stopped" /\ startType[s] # "disabled"
          /\ Becomes(s, "starting") /\ Ends(c, "ok")
       \/ /\ state[s] = "stopped" /\ startType[s] = "disabled"
          /\ Ends(c, "error") /\ UNCHANGED <<state, starts>>
       \/ /\ state[s] # "stopped"
          /\ Ends(c, "ok") /\ UNCHANGED <<state, starts>>
       \/ /\ state[s] = "stopping"
          /\ Ends(c, "error") /\ UNCHANGED <<state, starts>>
    /\ UNCHANGED <<startType, moves, op, base, trouble>>

Target(do) ==
    CASE do = "enable" -> "auto"
      [] do \in {"disable", "unmask"} -> "demand"
      [] do = "mask" -> "disabled"

\* query_config, for unmask whether there is anything to do, then whether it may be
\* changed.
Read(c) ==
    LET was == startType[op[c].to] IN
    /\ apc[c] = "read"
    /\ \/ op[c].do = "unmask" /\ was # "disabled" /\ Ends(c, "ok")
       \/ ~(op[c].do = "unmask" /\ was # "disabled") /\ was = "boot" /\ Ends(c, "error")
       \/ ~(op[c].do = "unmask" /\ was # "disabled") /\ was # "boot" /\ Goes(c, "write") /\ UNCHANGED answer
    /\ UNCHANGED <<services, op, base, trouble>>

Write(c) ==
    /\ apc[c] = "write"
    /\ startType' = [startType EXCEPT ![op[c].to] = Target(op[c].do)]
    /\ Ends(c, "ok")
    /\ UNCHANGED <<state, starts, moves, op, base, trouble>>

\* ACTION_TIMEOUT: the caller has its answer, the thread goes on.
CallerGivesUp(c) ==
    /\ apc[c] # "idle" /\ answer[c] = "none" /\ trouble < MaxTrouble /\ trouble' = trouble + 1
    /\ answer' = [answer EXCEPT ![c] = "timeout"]
    /\ UNCHANGED <<services, apc, op, base>>

-----------------------------------------------------------------------------
Thread(c) == OpenService(c) \/ Stop(c) \/ Wait(c) \/ WaitFails(c) \/ Start(c) \/ Read(c) \/ Write(c)

Next ==
    \/ \E s \in Services : Settle(s) \/ Move(s)
    \/ \E c \in Callers : Act(c) \/ Thread(c) \/ CallerGivesUp(c)

Spec == Init /\ [][Next]_vars

-----------------------------------------------------------------------------
TypeOK ==
    /\ state \in [Services -> States] /\ startType \in [Services -> StartTypes]
    /\ starts \in [Services -> Nat] /\ moves \in 0..MaxMoves /\ trouble \in 0..MaxTrouble
    /\ apc \in [Callers -> {"idle", "open", "stop", "wait", "start", "read", "write"}]
    /\ op \in [Callers -> [do : Ops, to : Services]]
    /\ answer \in [Callers -> {"none", "ok", "error", "timeout"}]
    /\ base \in [Callers -> Nat]

\* A restart that is reported has happened: the service was started again after
\* the stop that was asked for, by this thread or by somebody else.
RestartsAreReal ==
    \A c \in Callers : answer[c] = "ok" /\ op[c].do = "restart" => starts[op[c].to] > base[c]

-----------------------------------------------------------------------------
(* What the comments say and the code does not do.                         *)

\* mod.rs 615: started already counts as success.  What is stopping counts too.
StartMeansRunning ==
    [][\A c \in Callers :
        apc[c] = "start" /\ answer[c] = "none" /\ answer'[c] = "ok" => state'[op[c].to] # "stopping"]_vars

\* mod.rs 589: unmask never turns an automatic start off.
UnmaskKeepsAuto ==
    [][\A c \in Callers :
        apc[c] = "write" /\ apc'[c] = "idle" /\ op[c].do = "unmask" => startType[op[c].to] = "disabled"]_vars
=============================================================================
