---------------------------- MODULE ConsoleTable ----------------------------
(***************************************************************************)
(* The terminals of a worker on Windows, keyed by pid as on Unix.  What    *)
(* differs: a shell has a pseudo console and a job; its pid is free when   *)
(* the reaper has closed its handle; and the end of a shell is not the end *)
(* of its output, which comes when somebody closes the console.            *)
(*                                                                         *)
(* A terminal is an element of Terms.  What a shell has started ends with  *)
(* the job, that is with the Terminal value, and is left out.              *)
(***************************************************************************)
EXTENDS Naturals

CONSTANTS
    Terms,      \* terminals ever opened
    Pids,       \* process ids the kernel hands out
    None

VARIABLES
    proc,       \* the shell: none, running, over, freed
    pid,
    opening,    \* terminals between spawn_shell and the insertion
    table,      \* TerminalTable.inner: pid -> terminal
    closed,     \* terminals with Terminal.closed
    console,    \* Terminal.pcon: none, open, shut
    seen,       \* terminals whose output has ended, as the main process sees
    reaper,     \* none, wait, waited, holds (the console, outside the lock), done
    linger,     \* terminals whose linger timer runs
    calls,      \* term.close: none, hangup, reaped, wait, last, done
    taken,      \* the terminal that the close of a terminal took
    expired,    \* history: terminals that expired with their console open
    missed      \* history: terminals whose reaper came before their insertion

vars == <<proc, pid, opening, table, closed, console, seen, reaper, linger, calls, taken, expired, missed>>

Init ==
    /\ proc = [t \in Terms |-> "none"]
    /\ pid = [t \in Terms |-> None]
    /\ opening = {}
    /\ table = [p \in Pids |-> None]
    /\ closed = {} /\ seen = {} /\ linger = {} /\ expired = {} /\ missed = {}
    /\ console = [t \in Terms |-> "none"]
    /\ reaper = [t \in Terms |-> "none"]
    /\ calls = [t \in Terms |-> "none"]
    /\ taken = [t \in Terms |-> None]

Stored(t) == pid[t] # None /\ table[pid[t]] = t
Over(t) == proc[t] \in {"over", "freed"}

\* The consoles that the entries of S still have are closed: their shells are asked
\* to end.
Shut(S) ==
    console' = [t \in Terms |-> IF t \in S /\ reaper[t] # "holds" THEN "shut" ELSE console[t]]

\* TerminateJobObject: a shell that runs is over.
Ended(S) == [t \in Terms |-> IF t \in S /\ proc[t] = "running" THEN "over" ELSE proc[t]]

-----------------------------------------------------------------------------
(* open. *)

Spawn(t, p) ==
    /\ proc[t] = "none"
    /\ \A u \in Terms : pid[u] = p => proc[u] = "freed"
    /\ proc' = [proc EXCEPT ![t] = "running"]
    /\ pid' = [pid EXCEPT ![t] = p]
    /\ console' = [console EXCEPT ![t] = "open"]
    /\ opening' = opening \cup {t}
    /\ reaper' = [reaper EXCEPT ![t] = "wait"]
    /\ UNCHANGED <<table, closed, seen, linger, calls, taken, expired, missed>>

\* insert(): a Terminal still stored under the pid is dropped, with its console,
\* and with its job unless it has been marked.
Insert(t) ==
    LET old == {table[pid[t]]} \ {None} IN
    /\ t \in opening
    /\ opening' = opening \ {t}
    /\ table' = [table EXCEPT ![pid[t]] = t]
    /\ Shut(old)
    /\ proc' = Ended(old \ closed)
    /\ UNCHANGED <<pid, closed, seen, reaper, linger, calls, taken, expired, missed>>

-----------------------------------------------------------------------------
(* The shell, its output and reap(). *)

ShellExits(t) ==
    /\ proc[t] = "running"
    /\ proc' = [proc EXCEPT ![t] = "over"]
    /\ UNCHANGED <<pid, opening, table, closed, console, seen, reaper, linger, calls, taken, expired, missed>>

\* The output pump reads the end and lets go of the channel.
OutputEnds(t) ==
    /\ console[t] = "shut" /\ t \notin seen
    /\ seen' = seen \cup {t}
    /\ UNCHANGED <<proc, pid, opening, table, closed, console, reaper, linger, calls, taken, expired, missed>>

\* WaitForSingleObject returns, and the handle is closed: the pid is free.
Waited(t) ==
    /\ proc[t] = "over" /\ reaper[t] = "wait"
    /\ proc' = [proc EXCEPT ![t] = "freed"]
    /\ reaper' = [reaper EXCEPT ![t] = "waited"]
    /\ UNCHANGED <<pid, opening, table, closed, console, seen, linger, calls, taken, expired, missed>>

\* What the reaper of t finds in the table and takes for its own.
Found(t) == {table[pid[t]]} \cap {t}

\* Under the lock: the entry is marked, its console is taken out of it.
Mark(t) ==
    /\ reaper[t] = "waited"
    /\ closed' = closed \cup Found(t)
    /\ missed' = IF t \in opening THEN missed \cup {t} ELSE missed
    /\ reaper' = [reaper EXCEPT ![t] = IF Found(t) = {} THEN "done" ELSE "holds"]
    /\ UNCHANGED <<proc, pid, opening, table, console, seen, linger, calls, taken, expired>>

\* A slip, and the form of an older version: the console stays with the entry.
LingerOnly(t) ==
    /\ reaper[t] = "holds"
    /\ linger' = linger \cup {t}
    /\ reaper' = [reaper EXCEPT ![t] = "done"]
    /\ UNCHANGED <<proc, pid, opening, table, closed, console, seen, calls, taken, expired, missed>>

\* Outside the lock: the console is closed, and the entry waits for term.close.
ShutConsole(t) ==
    /\ reaper[t] = "holds"
    /\ console' = [console EXCEPT ![t] = "shut"]
    /\ linger' = linger \cup {t}
    /\ reaper' = [reaper EXCEPT ![t] = "done"]
    /\ UNCHANGED <<proc, pid, opening, table, closed, seen, calls, taken, expired, missed>>

\* Nobody came: the entry goes, if it is still the one.
Linger(t) ==
    /\ t \in linger
    /\ linger' = linger \ {t}
    /\ IF Found(t) \cap closed = {} THEN UNCHANGED <<table, console, expired>>
       ELSE /\ table' = [table EXCEPT ![pid[t]] = None]
            /\ Shut({t})
            /\ expired' = IF console[t] = "open" THEN expired \cup {t} ELSE expired
    /\ UNCHANGED <<proc, pid, opening, closed, seen, reaper, calls, taken, missed>>

-----------------------------------------------------------------------------
(* close, which names the pid of t. *)

\* The entry goes first.
CloseCall(t) ==
    LET e == table[pid[t]] IN
    /\ calls[t] = "none" /\ proc[t] # "none" /\ t \notin opening
    /\ taken' = [taken EXCEPT ![t] = e]
    /\ table' = [table EXCEPT ![pid[t]] = None]
    /\ calls' = [calls EXCEPT ![t] = IF e = None THEN "done"
                                     ELSE IF e \in closed THEN "reaped" ELSE "hangup"]
    /\ closed' = closed \cup ({e} \ {None})
    /\ UNCHANGED <<proc, pid, opening, console, seen, reaper, linger, expired, missed>>

\* The console is closed, for a shell that has ended, too.
CloseConsole(t) ==
    /\ calls[t] \in {"hangup", "reaped"}
    /\ Shut({taken[t]})
    /\ calls' = [calls EXCEPT ![t] = IF @ = "reaped" THEN "last" ELSE "wait"]
    /\ UNCHANGED <<proc, pid, opening, table, closed, seen, reaper, linger, taken, expired, missed>>

\* The reaper is done, in the first or the second CLOSE_GRACE.
CloseEnds(t) ==
    /\ calls[t] \in {"wait", "last"} /\ reaper[taken[t]] = "done"
    /\ calls' = [calls EXCEPT ![t] = "done"]
    /\ UNCHANGED <<proc, pid, opening, table, closed, console, seen, reaper, linger, taken, expired, missed>>

\* CLOSE_GRACE is over: the job is ended.
CloseKills(t) ==
    /\ calls[t] = "wait" /\ reaper[taken[t]] # "done"
    /\ proc' = Ended({taken[t]})
    /\ calls' = [calls EXCEPT ![t] = "last"]
    /\ UNCHANGED <<pid, opening, table, closed, console, seen, reaper, linger, taken, expired, missed>>

\* The second one is over: the call answers without an exit status.
CloseGivesUp(t) ==
    /\ calls[t] = "last" /\ reaper[taken[t]] # "done"
    /\ calls' = [calls EXCEPT ![t] = "done"]
    /\ UNCHANGED <<proc, pid, opening, table, closed, console, seen, reaper, linger, taken, expired, missed>>

-----------------------------------------------------------------------------
CloseStep(t) == CloseConsole(t) \/ CloseEnds(t) \/ CloseKills(t) \/ CloseGivesUp(t)
ReapStep(t) == Waited(t) \/ Mark(t) \/ ShutConsole(t)

\* The bound: every terminal has been opened and closed, or no pid is left.
AllOver == (\A t \in Terms : proc[t] = "none" \/ calls[t] = "done") /\ UNCHANGED vars

Next ==
    \/ \E t \in Terms :
        \/ \E p \in Pids : Spawn(t, p)
        \/ Insert(t) \/ ShellExits(t) \/ OutputEnds(t) \/ ReapStep(t) \/ Linger(t)
        \/ CloseCall(t) \/ CloseStep(t)
    \/ AllOver

Spec == Init /\ [][Next]_vars

\* Tasks run, waits return and timers fire.  No shell has to exit, nothing has to
\* be closed.
Fairness ==
    \A t \in Terms :
        /\ WF_vars(Insert(t)) /\ WF_vars(OutputEnds(t)) /\ WF_vars(ReapStep(t))
        /\ WF_vars(Linger(t)) /\ WF_vars(CloseStep(t))

FairSpec == Spec /\ Fairness

-----------------------------------------------------------------------------
TypeOK ==
    /\ proc \in [Terms -> {"none", "running", "over", "freed"}]
    /\ pid \in [Terms -> Pids \cup {None}] /\ table \in [Pids -> Terms \cup {None}]
    /\ {closed, seen, linger, expired, missed, opening} \subseteq SUBSET Terms
    /\ console \in [Terms -> {"none", "open", "shut"}]
    /\ reaper \in [Terms -> {"none", "wait", "waited", "holds", "done"}]
    /\ calls \in [Terms -> {"none", "hangup", "reaped", "wait", "last", "done"}]
    /\ taken \in [Terms -> Terms \cup {None}]

\* The console of a shell that runs is closed by a close that took it only: not by
\* the reaper or the timer of a former owner of its pid.  (The late insertion
\* of a former owner ends the shell at once, with the job.)
RunningKeepsConsole ==
    \A t \in Terms :
        (proc[t] = "running" /\ console[t] = "shut") => \E c \in Terms : taken[c] = t

\* No entry expires before the main process could see that its shell ended and come
\* for the exit status.
ExitIsOffered == expired = {}

ConsolesAreOwned == TypeOK /\ RunningKeepsConsole /\ ExitIsOffered

\* A shell that ends, and one that a close has taken even if it stays when its
\* console goes: its pid is freed and the main process sees the end, unless its
\* reaper came before its insertion.
EndsAreSeen ==
    \A t \in Terms :
        (Over(t) \/ \E c \in Terms : taken[c] = t)
            ~> (proc[t] = "freed" /\ t \in seen \cup missed)
=============================================================================
