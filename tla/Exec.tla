-------------------------------- MODULE Exec --------------------------------
(***************************************************************************)
(* The way out of a request into a worker (node/auth/exec.rs): which worker *)
(* does it, what happens when the kernel refuses, and the one row of the   *)
(* audit log it leaves.  Elevation and session may end at any time; a      *)
(* request may be dropped with its connection, its worker die or be slow.  *)
(***************************************************************************)
EXTENDS Integers, Sequences

CONSTANTS
    Requests,
    User,       \* the user worker of the session
    Roots,      \* its admin workers, one after the other
    None,
    MaxTrouble, \* bound of the faults
    Faults      \* of "crash", "slow", "drop", "store"

Workers == {User} \cup Roots

\* How routes call: as the user, as root, or as the user first and then as root.
Kinds ==
    {[via |-> "user", write |-> FALSE], [via |-> "admin", write |-> TRUE],
     [via |-> "escalate", write |-> TRUE], [via |-> "escalate", write |-> FALSE]}

VARIABLES
    session,   \* it is in the map
    admin,     \* Live.admin
    proc,      \* of a worker: none, up, down

    pc,        \* of a request: idle, user, called, check, admin, audit, done, dropped
    kind,
    handle,    \* the worker it has called, None
    usedAdmin, \* what escalate returns with the result
    result,
    snapshot,  \* Session.elevated when it was let in
    rows,      \* its rows in audit_log

    job,       \* history: what a worker did of it: none, sent, done, refused, failed
    unwritten, \* history: requests whose row the store refused
    trouble

holder  == <<session, admin, proc>>
request == <<pc, kind, handle, usedAdmin, result, snapshot, rows>>
history == <<job, unwritten, trouble>>
vars    == <<holder, request, history>>

Init ==
    /\ session = TRUE
    /\ admin = None
    /\ proc = [w \in Workers |-> IF w = User THEN "up" ELSE "none"]
    /\ pc = [r \in Requests |-> "idle"]
    /\ kind \in [Requests -> Kinds]
    /\ handle = [r \in Requests |-> None]
    /\ usedAdmin = [r \in Requests |-> FALSE]
    /\ result = [r \in Requests |-> "none"]
    /\ snapshot = [r \in Requests |-> FALSE]
    /\ rows = [r \in Requests |-> <<>>]
    /\ job = [r \in Requests |-> [w \in Workers |-> "none"]]
    /\ unwritten = {}
    /\ trouble = 0

Mishap(f) == f \in Faults /\ trouble < MaxTrouble /\ trouble' = trouble + 1

-----------------------------------------------------------------------------
(* The session. *)

Elevate(w) ==
    /\ session /\ proc[w] = "none"
    /\ admin' = w
    /\ proc' = [proc EXCEPT ![w] = "up"]
    /\ UNCHANGED <<session, request, history>>

DropElevation ==
    /\ admin # None
    /\ admin' = None
    /\ UNCHANGED <<session, proc, request, history>>

Logout ==
    /\ session
    /\ session' = FALSE /\ admin' = None
    /\ UNCHANGED <<proc, request, history>>

\* teardown: the process of a worker that was taken out ends.
Teardown(w) ==
    /\ proc[w] = "up"
    /\ IF w = User THEN ~session ELSE admin # w
    /\ proc' = [proc EXCEPT ![w] = "down"]
    /\ UNCHANGED <<session, admin, request, history>>

\* A worker dies; its handle stays where it is.
Crash(w) ==
    /\ proc[w] = "up" /\ Mishap("crash")
    /\ proc' = [proc EXCEPT ![w] = "down"]
    /\ UNCHANGED <<session, admin, request, job, unwritten>>

-----------------------------------------------------------------------------
(* A request. *)

\* should_audit; for call_escalating_from also what was really used.
MustAudit(r) == kind[r].write \/ kind[r].via = "admin" \/ usedAdmin[r]

\* The result is known: the row comes before the answer.
Settle(r, res) ==
    /\ result' = [result EXCEPT ![r] = res]
    /\ pc' = [pc EXCEPT ![r] = IF MustAudit(r) THEN "audit" ELSE "done"]

Arrive(r) ==
    /\ pc[r] = "idle" /\ session
    /\ pc' = [pc EXCEPT ![r] = IF kind[r].via = "admin" THEN "admin" ELSE "user"]
    /\ snapshot' = [snapshot EXCEPT ![r] = admin # None]
    /\ UNCHANGED <<holder, kind, handle, usedAdmin, result, rows, history>>

\* The frame goes to a worker that lives; a dead one is noticed at once.
Call(r, w) ==
    /\ handle' = [handle EXCEPT ![r] = w]
    /\ IF proc[w] = "up"
       THEN /\ pc' = [pc EXCEPT ![r] = "called"]
            /\ job' = [job EXCEPT ![r][w] = "sent"]
            /\ UNCHANGED result
       ELSE Settle(r, "unavailable") /\ UNCHANGED job

CallUser(r) ==
    /\ pc[r] = "user" /\ session
    /\ Call(r, User)
    /\ UNCHANGED <<holder, kind, usedAdmin, snapshot, rows, unwritten, trouble>>

\* worker_for: without a session there is nobody to do it.  The logout it asks for
\* finds no session either.
NoUser(r) ==
    /\ pc[r] = "user" /\ ~session
    /\ Settle(r, "unauthenticated")
    /\ UNCHANGED <<holder, kind, handle, usedAdmin, snapshot, rows, history>>

CallAdmin(r) ==
    /\ pc[r] = "admin" /\ admin # None
    /\ Call(r, admin)
    /\ UNCHANGED <<holder, kind, usedAdmin, snapshot, rows, unwritten, trouble>>

\* elevation_required.
NoAdmin(r) ==
    /\ pc[r] = "admin" /\ admin = None
    /\ Settle(r, "elevation")
    /\ UNCHANGED <<holder, kind, handle, usedAdmin, snapshot, rows, history>>

\* The worker does it, the kernel refuses, or it fails; also when nobody waits.
Work(r, w) ==
    /\ job[r][w] = "sent" /\ proc[w] = "up"
    /\ \E end \in {"done", "refused", "failed"} : job' = [job EXCEPT ![r][w] = end]
    /\ UNCHANGED <<holder, request, unwritten, trouble>>

\* A slip: whatever failed is tried again.
TriesAgainWhateverFailed(r, end) == kind[r].via = "escalate" /\ handle[r] = User /\ end # "done"

\* escalate: only a refusal of the user worker is tried again.
TriesAgain(r, end) == kind[r].via = "escalate" /\ handle[r] = User /\ end = "refused"

Reply(r) ==
    LET end == job[r][handle[r]] IN
    /\ pc[r] = "called" /\ end \notin {"none", "sent"}
    /\ IF TriesAgain(r, end)
       THEN pc' = [pc EXCEPT ![r] = "check"] /\ UNCHANGED result
       ELSE Settle(r, end)
    /\ UNCHANGED <<holder, kind, handle, usedAdmin, snapshot, rows, history>>

\* The worker is gone before its answer was read.
Lost(r) ==
    /\ pc[r] = "called" /\ proc[handle[r]] = "down"
    /\ IF TriesAgain(r, "unavailable")
       THEN pc' = [pc EXCEPT ![r] = "check"] /\ UNCHANGED result
       ELSE Settle(r, "unavailable")
    /\ UNCHANGED <<holder, kind, handle, usedAdmin, snapshot, rows, history>>

\* RPC_TIMEOUT; the worker may still do it.
Timeout(r) ==
    /\ pc[r] = "called" /\ Mishap("slow")
    /\ IF TriesAgain(r, "timeout")
       THEN pc' = [pc EXCEPT ![r] = "check"] /\ UNCHANGED result
       ELSE Settle(r, "timeout")
    /\ UNCHANGED <<holder, kind, handle, usedAdmin, snapshot, rows, job, unwritten>>

\* escalate looks whether there is an admin worker, and call_inner looks again.
Check(r) ==
    /\ pc[r] = "check"
    /\ IF admin # None
       THEN /\ pc' = [pc EXCEPT ![r] = "admin"]
            /\ usedAdmin' = [usedAdmin EXCEPT ![r] = TRUE]
            /\ UNCHANGED result
       ELSE Settle(r, "refused") /\ UNCHANGED usedAdmin
    /\ UNCHANGED <<holder, kind, handle, snapshot, rows, history>>

\* outcome_of.
Outcome(res) ==
    CASE res = "done" -> "ok"
      [] res \in {"refused", "elevation"} -> "denied"
      [] OTHER -> "error"

Audit(r) ==
    /\ pc[r] = "audit"
    /\ pc' = [pc EXCEPT ![r] = "done"]
    /\ rows' = [rows EXCEPT ![r] = Append(@, [result |-> Outcome(result[r]), elevated |-> snapshot[r]])]
    /\ UNCHANGED <<holder, kind, handle, usedAdmin, result, snapshot, history>>

\* The row cannot be written: the request goes on.
AuditFails(r) ==
    /\ pc[r] = "audit" /\ Mishap("store")
    /\ pc' = [pc EXCEPT ![r] = "done"]
    /\ unwritten' = unwritten \cup {r}
    /\ UNCHANGED <<holder, kind, handle, usedAdmin, result, snapshot, rows, job>>

\* The connection of the browser ends and the future of the request with it.
Drop(r) ==
    /\ pc[r] \notin {"idle", "done", "dropped"} /\ Mishap("drop")
    /\ pc' = [pc EXCEPT ![r] = "dropped"]
    /\ UNCHANGED <<holder, kind, handle, usedAdmin, result, snapshot, rows, job, unwritten>>

Next ==
    \/ DropElevation \/ Logout
    \/ \E w \in Workers : Teardown(w) \/ Crash(w)
    \/ \E w \in Roots : Elevate(w)
    \/ \E r \in Requests :
        \/ Arrive(r) \/ CallUser(r) \/ NoUser(r) \/ CallAdmin(r) \/ NoAdmin(r)
        \/ Reply(r) \/ Lost(r) \/ Timeout(r) \/ Check(r) \/ Audit(r) \/ AuditFails(r) \/ Drop(r)
        \/ \E w \in Workers : Work(r, w)

Spec == Init /\ [][Next]_vars

-----------------------------------------------------------------------------
TypeOK ==
    /\ session \in BOOLEAN /\ admin \in Roots \cup {None}
    /\ proc \in [Workers -> {"none", "up", "down"}]
    /\ pc \in [Requests -> {"idle", "user", "called", "check", "admin", "audit", "done", "dropped"}]
    /\ kind \in [Requests -> Kinds]
    /\ handle \in [Requests -> Workers \cup {None}]
    /\ usedAdmin \in [Requests -> BOOLEAN] /\ snapshot \in [Requests -> BOOLEAN]
    /\ unwritten \subseteq Requests /\ trouble \in 0..MaxTrouble

DoneBy(r) == {w \in Workers : job[r][w] = "done"}

\* What a request did: it changed something, or root did something for it.
Counts(r) == (kind[r].write /\ DoneBy(r) # {}) \/ DoneBy(r) \cap Roots # {}

\* An operation is done once however often it was tried, and has one row, whoever
\* did it in the end and whatever ended meanwhile.
OneRowEach ==
    \A r \in Requests :
        /\ \A v, w \in DoneBy(r) : v = w
        /\ Len(rows[r]) <= 1
        /\ pc[r] = "done" /\ Counts(r) /\ r \notin unwritten => Len(rows[r]) = 1

\* The row tells the truth where it is definite: "ok" is done, and "denied" is not
\* and never will be.
RowsAreTrue ==
    \A r \in Requests : \A i \in DOMAIN rows[r] :
        /\ rows[r][i].result = "ok" => DoneBy(r) # {}
        /\ rows[r][i].result = "denied" => \A w \in Workers : job[r][w] \in {"none", "refused"}

OperationsAreAudited == TypeOK /\ OneRowEach /\ RowsAreTrue

-----------------------------------------------------------------------------
(* What the comments say and the code does not do.                         *)

\* exec.rs 15-18: nothing is missed.
EveryWriteHasItsRow ==
    \A r \in Requests : pc[r] = "dropped" /\ Counts(r) => rows[r] # <<>>

\* exec.rs 155, 349: a dead worker ends its session.
DeadWorkerEndsSession ==
    \A r \in Requests : pc[r] = "done" /\ result[r] = "unavailable" /\ handle[r] = User => ~session

\* audit.rs 3: with which privilege it was done.
RowSaysRoot ==
    \A r \in Requests : \A i \in DOMAIN rows[r] :
        DoneBy(r) \cap Roots # {} => rows[r][i].elevated
=============================================================================
