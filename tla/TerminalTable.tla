---------------------------- MODULE TerminalTable ----------------------------
(***************************************************************************)
(* crates/strixmaid-core/src/worker/terminal/unix.rs: the terminals of a   *)
(* worker, keyed by the pid of their shell, although the system may give   *)
(* the pid of a reaped shell to a new one.  Calls from the main process,   *)
(* reapers (waitpid), linger timers and the kernel interleave: the worker  *)
(* runs on several threads.                                                *)
(*                                                                         *)
(* A terminal is an element of Terms: its shell, its serial, its Terminal  *)
(* value, its reaper and the main process' single term.close for it.       *)
(***************************************************************************)
EXTENDS Integers

CONSTANTS
    Terms,     \* terminals ever opened
    Pids,      \* process ids the kernel hands out
    None,      \* no pid, no terminal
    Stranger,  \* whoever owns a pid that no shell of this worker has
    Faults     \* "reuse": the kernel reuses pids;
               \* "late": a shell may be reaped before open has stored it

VARIABLES
    proc,      \* kernel: "none", "running", "zombie" or "reaped"
    pid,       \* pid of a shell
    opening,   \* terminals between spawn_on_tty and the insertion
    table,     \* TerminalTable.inner: pid -> terminal
    closed,    \* terminals with Terminal.closed
    reaper,    \* "none", "waiting" (in waitpid), "waited" or "done"
    linger,    \* terminals whose linger timer runs
    calls,     \* term.close: "none", "signal", "wait", "kill" or "done"
    taken,     \* the terminal that the close of a terminal took out of the table
    signalled  \* history: <<t, v>>, a signal meant for t has reached v

vars == <<proc, pid, opening, table, closed, reaper, linger, calls, taken, signalled>>

TypeOK ==
    /\ proc \in [Terms -> {"none", "running", "zombie", "reaped"}]
    /\ pid \in [Terms -> Pids \cup {None}]
    /\ opening \subseteq Terms
    /\ table \in [Pids -> Terms \cup {None}]
    /\ closed \subseteq Terms
    /\ reaper \in [Terms -> {"none", "waiting", "waited", "done"}]
    /\ linger \subseteq Terms
    /\ calls \in [Terms -> {"none", "signal", "wait", "kill", "done"}]
    /\ taken \in [Terms -> Terms \cup {None}]
    /\ signalled \subseteq Terms \X (Terms \cup {Stranger})

Init ==
    /\ proc = [t \in Terms |-> "none"]
    /\ pid = [t \in Terms |-> None]
    /\ opening = {}
    /\ table = [p \in Pids |-> None]
    /\ closed = {} /\ linger = {}
    /\ reaper = [t \in Terms |-> "none"]
    /\ calls = [t \in Terms |-> "none"]
    /\ taken = [t \in Terms |-> None]
    /\ signalled = {}

\* The entry under the pid of t is that of t.
Stored(t) == pid[t] # None /\ table[pid[t]] = t

Alive(t) == proc[t] \in {"running", "zombie"}

\* The processes a signal to the group of pid p reaches.
Owners(p) == LET own == {t \in Terms : pid[t] = p /\ Alive(t)}
             IN IF own = {} THEN {Stranger} ELSE own

\* killpg(term.pid, ..)
Signal(t) == signalled' = signalled \cup ({t} \X Owners(pid[t]))

-----------------------------------------------------------------------------
(* open.                                                                   *)

\* The kernel forks the shell under a free pid; the reaper starts.
Spawn(t, p) ==
    /\ proc[t] = "none"
    /\ \A u \in Terms : pid[u] = p => proc[u] = "reaped" /\ "reuse" \in Faults
    /\ proc' = [proc EXCEPT ![t] = "running"]
    /\ pid' = [pid EXCEPT ![t] = p]
    /\ opening' = opening \cup {t}
    /\ reaper' = [reaper EXCEPT ![t] = "waiting"]
    /\ UNCHANGED <<table, closed, linger, calls, taken, signalled>>

\* insert(): a Terminal still stored under the pid is dropped, and a Terminal
\* dropped before it was closed signals its pid.
Insert(t) ==
    /\ t \in opening
    /\ opening' = opening \ {t}
    /\ table' = [table EXCEPT ![pid[t]] = t]
    /\ LET old == table[pid[t]] IN
       IF old # None /\ old \notin closed THEN Signal(old) ELSE UNCHANGED signalled
    /\ UNCHANGED <<proc, pid, closed, reaper, linger, calls, taken>>

-----------------------------------------------------------------------------
(* The kernel and reap().                                                  *)

ShellExits(t) ==
    /\ proc[t] = "running"
    /\ proc' = [proc EXCEPT ![t] = "zombie"]
    /\ UNCHANGED <<pid, opening, table, closed, reaper, linger, calls, taken, signalled>>

\* waitpid returns on its own thread: from here on the pid is free.
Reap(t) ==
    /\ proc[t] = "zombie" /\ reaper[t] = "waiting"
    /\ t \in opening => "late" \in Faults
    /\ proc' = [proc EXCEPT ![t] = "reaped"]
    /\ reaper' = [reaper EXCEPT ![t] = "waited"]
    /\ UNCHANGED <<pid, opening, table, closed, linger, calls, taken, signalled>>

\* What the reaper of t finds in the table under the pid.
EntryOf(t) == {table[pid[t]]}

\* Only the terminal with its serial.
SameSerial(t) == EntryOf(t) \cap {t}

\* An entry that has been marked stays for a moment.
StartLinger(t) == linger' = linger \cup SameSerial(t)

\* Under the lock: the entry, if it is this terminal's, is marked and lingers.
Mark(t) ==
    /\ reaper[t] = "waited"
    /\ reaper' = [reaper EXCEPT ![t] = "done"]
    /\ closed' = closed \cup SameSerial(t)
    /\ StartLinger(t)
    /\ UNCHANGED <<proc, pid, opening, table, calls, taken, signalled>>

\* The linger timer: a marked entry that nobody has come for is removed.
RemoveMarked(t) ==
    table' = IF SameSerial(t) \cap closed = {} THEN table
             ELSE [table EXCEPT ![pid[t]] = None]

Linger(t) ==
    /\ t \in linger
    /\ linger' = linger \ {t}
    /\ RemoveMarked(t)
    /\ UNCHANGED <<proc, pid, opening, closed, reaper, calls, taken, signalled>>

-----------------------------------------------------------------------------
(* close.                                                                  *)

\* The entry goes first: nobody else finds it while this close waits.
TakeEntry(t) == table' = [table EXCEPT ![pid[t]] = None]

\* term.close for t names the pid of t.  The entry is taken out of the table;
\* none: an error.  Marked: no signal.
CloseCall(t) ==
    /\ calls[t] = "none" /\ proc[t] # "none" /\ t \notin opening
    /\ LET e == table[pid[t]] IN
       /\ taken' = [taken EXCEPT ![t] = e]
       /\ TakeEntry(t)
       /\ closed' = closed \cup ({e} \ {None})
       /\ calls' = [calls EXCEPT ![t] = IF e = None THEN "done"
                                        ELSE IF e \in closed THEN "wait" ELSE "signal"]
    /\ UNCHANGED <<proc, pid, opening, reaper, linger, signalled>>

\* SIGHUP, which a shell may ignore.
CloseSignal(t) ==
    /\ calls[t] = "signal"
    /\ Signal(taken[t])
    /\ calls' = [calls EXCEPT ![t] = "wait"]
    /\ UNCHANGED <<proc, pid, opening, table, closed, reaper, linger, taken>>

\* The reaper has finished, in the first or the second CLOSE_GRACE.
CloseEnds(t) ==
    /\ calls[t] \in {"wait", "kill"}
    /\ reaper[taken[t]] = "done"
    /\ calls' = [calls EXCEPT ![t] = "done"]
    /\ UNCHANGED <<proc, pid, opening, table, closed, reaper, linger, taken, signalled>>

\* A slip: a close that only waits longer.
GraceWithoutKill(t) ==
    /\ calls' = [calls EXCEPT ![t] = "kill"]
    /\ UNCHANGED <<proc, signalled>>

\* SIGKILL after CLOSE_GRACE.
GraceKill(t) ==
    /\ calls' = [calls EXCEPT ![t] = "kill"]
    /\ Signal(taken[t])
    /\ proc' = [u \in Terms |-> IF u \in Owners(pid[taken[t]]) THEN "zombie" ELSE proc[u]]

CloseGrace(t) ==
    /\ calls[t] = "wait" /\ reaper[taken[t]] # "done"
    /\ GraceKill(t)
    /\ UNCHANGED <<pid, opening, table, closed, reaper, linger, taken>>

\* The second CLOSE_GRACE is over: the call answers without an exit status.
CloseGivesUp(t) ==
    /\ calls[t] = "kill" /\ reaper[taken[t]] # "done"
    /\ calls' = [calls EXCEPT ![t] = "done"]
    /\ UNCHANGED <<proc, pid, opening, table, closed, reaper, linger, taken, signalled>>

-----------------------------------------------------------------------------
CloseStep(t) == CloseSignal(t) \/ CloseEnds(t) \/ CloseGrace(t) \/ CloseGivesUp(t)

\* The bound: every terminal of Terms has been opened and closed, or no pid is left.
AllOver == (\A t \in Terms : proc[t] = "none" \/ calls[t] = "done") /\ UNCHANGED vars

Next ==
    \/ \E t \in Terms :
        \/ \E p \in Pids : Spawn(t, p)
        \/ Insert(t) \/ ShellExits(t) \/ Reap(t) \/ Mark(t) \/ Linger(t)
        \/ CloseCall(t) \/ CloseStep(t)
    \/ AllOver

Spec == Init /\ [][Next]_vars

\* Tasks run, waitpid returns for a zombie and timers fire.  No shell has to
\* exit and the main process does not have to close anything.
FairSpec ==
    /\ Spec
    /\ \A t \in Terms : /\ WF_vars(Insert(t)) /\ WF_vars(Reap(t)) /\ WF_vars(Mark(t))
                        /\ WF_vars(Linger(t)) /\ WF_vars(CloseStep(t))

-----------------------------------------------------------------------------
(* Safety.                                                                 *)

\* A terminal is marked closed only when its shell has been reaped or when a
\* close has taken it: the reaper of a former owner of the pid never marks a new
\* terminal, which could then not be closed any more.
ClosedIsOver ==
    \A t \in closed : proc[t] = "reaped" \/ \E c \in Terms : taken[c] = t

\* A running shell can be reached: it is stored under its pid, or a close has
\* taken it, or its open has not finished; only one that the late insertion of
\* a former owner of the pid pushed out has been told to hang up instead.  So
\* neither the reaper nor the linger timer of a former owner makes a new
\* terminal one that nobody can close.
RunningIsReachable ==
    \A t \in Terms : proc[t] = "running" =>
        \/ t \in opening
        \/ Stored(t)
        \/ \E c \in Terms : taken[c] = t
        \/ <<t, t>> \in signalled

\* Pids that are used again mislead neither the reaper nor a close.
ReuseIsHarmless == TypeOK /\ ClosedIsOver /\ RunningIsReachable

-----------------------------------------------------------------------------
(* Liveness, under FairSpec.                                               *)

\* A shell that a close has taken ends, even if it ignores SIGHUP, and is reaped.
TakenIsReaped ==
    \A t \in Terms : (\E c \in Terms : taken[c] = t) ~> (proc[t] = "reaped")

\* A marked entry does not stay in the table when nobody comes for it.
MarkedIsRemoved ==
    \A t \in Terms : (t \in closed /\ Stored(t)) ~> ~Stored(t)

\* What a close has taken is reaped, and what was marked is forgotten.
TableIsCleared == TakenIsReaped /\ MarkedIsRemoved
=============================================================================
