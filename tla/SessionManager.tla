--------------------------- MODULE SessionManager ---------------------------
(***************************************************************************)
(* crates/strixmaid-core/src/session/mod.rs: who owns a login, an          *)
(* elevation, their helper and worker processes and their database row,    *)
(* while HTTP requests, the sweeper and the process shutdown interleave at *)
(* every await.                                                            *)
(*                                                                         *)
(* One CONVERSATION (an element of Convs) is one run of start_auth: it     *)
(* launches exactly one helper process, is stored under one fresh pending  *)
(* id, and its helper spawns at most one worker.  A conversation that logs *)
(* in becomes a session, so the same element also names the session (its   *)
(* token hash, its Live record, its row in sessions and node_sessions); a  *)
(* conversation that elevates becomes the Admin record of a session.       *)
(***************************************************************************)
EXTENDS Integers

CONSTANTS
    Convs,            \* conversations start_auth may open
    Reqs,             \* HTTP requests that may be in progress at a time
    Sweeper,          \* the task of spawn_sweeper
    Stopper,          \* the task running Node::shutdown(Graceful)
    NoConv,           \* "none": the None of every Option<conversation>
    IdleTimeout,      \* SessionManagerConfig::idle_timeout
    ElevatedTimeout,  \* SessionManagerConfig::elevated_idle_timeout
    PendingTimeout,   \* SessionManagerConfig::pending_timeout
    MaxTime,          \* bound on the clock
    Faults            \* which environment faults happen in this instance

ASSUME ConstantsAssumption ==
    /\ NoConv \notin Convs
    /\ Sweeper \notin Reqs /\ Stopper \notin Reqs /\ Sweeper # Stopper
    /\ IdleTimeout \in Nat /\ ElevatedTimeout \in Nat
    /\ PendingTimeout \in Nat /\ MaxTime \in Nat
    /\ Faults \subseteq {"db", "disconnect", "crash"}

Tasks == Reqs \cup {Sweeper, Stopper}
Option == Convs \cup {NoConv}

VARIABLES
    now,       \* tokio Instant::now()
    process,   \* "running", "stopping" (shutdown under way) or "down"
    helper,    \* helper process of a conversation
    worker,    \* worker process of a conversation
    of,        \* PendingKind: NoConv is Login, a session is Elevate{token_hash}
    stamp,     \* Pending.created, then Activity.last_active or Admin.last_active
    authed,    \* pending conversations whose Pending.authed is Some
    pending,   \* keys of Inner.pending
    sessions,  \* keys of Inner.sessions
    admin,     \* Live.admin of a session
    rows,      \* sessions that have their database rows
    elevated,  \* rows with node_sessions.elevated = 1
    pc,        \* the await at which each task is suspended
    sess,      \* the Arc<Live> a task holds
    conv,      \* the Pending, Admin or HelperConn a task holds by value
    at,        \* the Instant a task captured earlier
    todo       \* the Vec<Arc<Live>> of sweep and shutdown

vars == <<now, process, helper, worker, of, stamp, authed, pending, sessions,
          admin, rows, elevated, pc, sess, conv, at, todo>>

\* The idle timeout of the session applied to its elevation.
IdleOnly == IdleTimeout
\* effective_elevated_timeout
Effective == IF ElevatedTimeout < IdleTimeout THEN ElevatedTimeout ELSE IdleTimeout

PCs == {"idle", "starting", "exchange", "authed", "spawn", "insert", "mark",
        "install", "swap", "take", "dropAdmin", "unmark", "refresh", "tdTake",
        "tdAdmin", "tdWorker", "tdRow", "sweep", "sweepIdle", "expire",
        "drainPending", "drain", "next", "exit"}

TypeOK ==
    /\ now \in Nat
    /\ process \in {"running", "stopping", "down"}
    /\ helper \in [Convs -> {"unused", "talking", "authed", "serving", "gone"}]
    /\ worker \in [Convs -> {"none", "up", "shut"}]
    /\ of \in [Convs -> Option]
    /\ stamp \in [Convs -> Nat]
    /\ authed \subseteq Convs
    /\ pending \subseteq Convs
    /\ sessions \subseteq Convs
    /\ admin \in [Convs -> Option]
    /\ rows \subseteq Convs
    /\ elevated \subseteq rows
    /\ pc \in [Tasks -> PCs]
    /\ sess \in [Tasks -> Option]
    /\ conv \in [Tasks -> Option]
    /\ at \in [Tasks -> Nat]
    /\ todo \in [Tasks -> SUBSET Convs]

Init ==
    /\ now = 0
    /\ process = "running"
    /\ helper = [c \in Convs |-> "unused"]
    /\ worker = [c \in Convs |-> "none"]
    /\ of = [c \in Convs |-> NoConv]
    /\ stamp = [c \in Convs |-> 0]
    /\ authed = {} /\ pending = {} /\ sessions = {}
    /\ admin = [c \in Convs |-> NoConv]
    /\ rows = {} /\ elevated = {}
    /\ pc = [t \in Tasks |-> "idle"]
    /\ sess = [t \in Tasks |-> NoConv]
    /\ conv = [t \in Tasks |-> NoConv]
    /\ at = [t \in Tasks |-> 0]
    /\ todo = [t \in Tasks |-> {}]

-----------------------------------------------------------------------------
(* Who holds what.                                                         *)

\* The awaits at which a task owns conv[t] by value.
HoldsConv(t) == pc[t] \in {"starting", "exchange", "authed", "spawn", "insert",
                           "mark", "install", "swap", "dropAdmin", "tdAdmin"}

\* The awaits inside teardown(live), after the Live left the map.
TearsDown(t) == pc[t] \in {"tdTake", "tdAdmin", "tdWorker", "tdRow"}

\* A teardown that locks live.admin while it already holds the guard.
AdminUnlockedUnlessBusy(s) == \A t \in Tasks : ~(TearsDown(t) /\ sess[t] = s)

\* teardown holds the guard of live.admin while it awaits teardown_admin: the
\* temporary of `if let Some(admin) = live.admin.lock().await.take()` lives on.
AdminUnlocked(s) == \A t \in Tasks : ~(pc[t] = "tdAdmin" /\ sess[t] = s)

\* Somebody holds an Arc<Live> of s, or the HelperConn that will become one.
Referenced(s) == \E t \in Tasks : sess[t] = s \/ conv[t] = s \/ s \in todo[t]

Expired(since, at_, timeout) == at_ - since > timeout

\* A task returns from the call it was in: a request ends, the sweeper and the
\* stopper go on with the next Live of their list.
Home(t) == IF t = Sweeper THEN "sweep" ELSE IF t = Stopper THEN "next" ELSE "idle"

Return(t) ==
    /\ pc' = [pc EXCEPT ![t] = Home(t)]
    /\ todo' = [todo EXCEPT ![t] = @ \ {sess[t]}]
    /\ sess' = [sess EXCEPT ![t] = NoConv]
    /\ conv' = [conv EXCEPT ![t] = NoConv]
    /\ at' = [at EXCEPT ![t] = IF t = Sweeper THEN @ ELSE 0]

\* A suspended task goes on to another await.
Goto(t, label) == pc' = [pc EXCEPT ![t] = label] /\ UNCHANGED <<at, todo>>

KillHelper(c) == helper' = [helper EXCEPT ![c] = "gone"]

\* The map and slot operations.
TakePending(c) == pending \ {c}

\* A slip: a get for a remove.
PeekSession(s) == sessions

TakeSession(s) == sessions \ {s}

EmptyAdmin(s) == [admin EXCEPT ![s] = NoConv]

SetElevated(s) == elevated \cup ({s} \cap rows)

\* A slip: the flag is not cleared.
LeaveElevated(s) == elevated

ClearElevated(s) == elevated \ {s}

-----------------------------------------------------------------------------
(* start_auth: login_start (s = NoConv) and elevate_start of session s.    *)

StartAuth(r, c, s) ==
    /\ process = "running" /\ pc[r] = "idle"
    /\ helper[c] = "unused"
    /\ s = NoConv \/ s \in sessions
    /\ helper' = [helper EXCEPT ![c] = "talking"]
    /\ of' = [of EXCEPT ![c] = s]
    /\ conv' = [conv EXCEPT ![r] = c]
    /\ sess' = [sess EXCEPT ![r] = s]
    /\ Goto(r, "starting")
    /\ UNCHANGED <<now, process, worker, stamp, authed, pending, sessions,
                   admin, rows, elevated>>

\* First answer of the helper: Prompts, AuthOk (kept in Pending.authed), or a
\* failure, on which the HelperConn is dropped and kill_on_drop ends the helper.
StartAuthReply(r) ==
    /\ pc[r] = "starting"
    /\ LET c == conv[r] IN
       \/ /\ pending' = pending \cup {c}
          /\ stamp' = [stamp EXCEPT ![c] = now]
          /\ \/ UNCHANGED <<helper, authed>>
             \/ /\ helper' = [helper EXCEPT ![c] = "authed"]
                /\ authed' = authed \cup {c}
       \/ KillHelper(c) /\ UNCHANGED <<pending, stamp, authed>>
    /\ Return(r)
    /\ UNCHANGED <<now, process, worker, of, sessions, admin, rows, elevated>>

-----------------------------------------------------------------------------
(* exchange, shared by login_respond and elevate_respond.                  *)

\* The Pending is taken out of the map before any IO.
Exchange(r, c) ==
    /\ process = "running" /\ pc[r] = "idle"
    /\ c \in pending
    /\ pending' = TakePending(c)
    /\ authed' = authed \ {c}
    /\ \/ /\ Expired(stamp[c], now, PendingTimeout)
          /\ KillHelper(c)
          /\ UNCHANGED <<pc, conv, at, todo>>
       \/ /\ ~Expired(stamp[c], now, PendingTimeout)
          /\ conv' = [conv EXCEPT ![r] = c]
          /\ Goto(r, IF c \in authed THEN "authed" ELSE "exchange")
          /\ UNCHANGED helper
    /\ UNCHANGED <<now, process, worker, of, stamp, sessions, admin, rows,
                   elevated, sess>>

\* recv() after AuthRespond: more prompts put the Pending back under its old
\* `created`; AuthOk goes on; AuthFail, Error or EOF close the helper.
ExchangeReply(r) ==
    /\ pc[r] = "exchange"
    /\ LET c == conv[r] IN
       \/ /\ pending' = pending \cup {c}
          /\ Return(r)
          /\ UNCHANGED helper
       \/ /\ helper' = [helper EXCEPT ![c] = "authed"]
          /\ Goto(r, "authed")
          /\ UNCHANGED <<pending, sess, conv>>
       \/ /\ KillHelper(c)
          /\ Return(r)
          /\ UNCHANGED pending
    /\ UNCHANGED <<now, process, worker, of, stamp, authed, sessions, admin,
                   rows, elevated>>

\* A login answered through /auth/elevate/respond, or the other way round.
WrongEndpoint(r) ==
    /\ pc[r] = "authed"
    /\ KillHelper(conv[r])
    /\ Return(r)
    /\ UNCHANGED <<now, process, worker, of, stamp, authed, pending, sessions,
                   admin, rows, elevated>>

-----------------------------------------------------------------------------
(* login_respond after AuthOk.                                             *)

\* create_session and upsert_node_session.  When either fails the row is deleted
\* again, and that deletion may fail too.
LoginCreate(r) ==
    /\ pc[r] = "authed" /\ of[conv[r]] = NoConv
    /\ \/ /\ rows' = rows \cup {conv[r]}
          /\ Goto(r, "spawn")
          /\ UNCHANGED <<helper, sess, conv>>
       \/ /\ "db" \in Faults
          /\ KillHelper(conv[r])
          /\ rows' \in {rows, rows \cup {conv[r]}}
          /\ Return(r)
    /\ UNCHANGED <<now, process, worker, of, stamp, authed, pending, sessions,
                   admin, elevated>>

\* spawn_worker answered: the worker runs, or the row is deleted (an error of
\* the deletion is ignored) and the helper closed.
SpawnReply(r) ==
    /\ pc[r] = "spawn"
    /\ LET c == conv[r]
           login == of[c] = NoConv IN
       \/ /\ worker' = [worker EXCEPT ![c] = "up"]
          /\ helper' = [helper EXCEPT ![c] = "serving"]
          /\ stamp' = IF login THEN [stamp EXCEPT ![c] = now] ELSE stamp
          /\ Goto(r, IF login THEN "insert" ELSE "mark")
          /\ UNCHANGED <<rows, elevated, sess, conv>>
       \/ /\ KillHelper(c)
          /\ \/ /\ rows' = IF login THEN rows \ {c} ELSE rows
                /\ elevated' = IF login THEN elevated \ {c} ELSE elevated
             \/ "db" \in Faults /\ UNCHANGED <<rows, elevated>>
          /\ Return(r)
          /\ UNCHANGED <<worker, stamp>>
    /\ UNCHANGED <<now, process, of, authed, pending, sessions, admin>>

LoginInsert(r) ==
    /\ pc[r] = "insert"
    /\ sessions' = sessions \cup {conv[r]}
    /\ Return(r)
    /\ UNCHANGED <<now, process, helper, worker, of, stamp, authed, pending,
                   admin, rows, elevated>>

-----------------------------------------------------------------------------
(* elevate_respond after AuthOk.                                           *)

\* The Live is looked up once, here; everything below works on this Arc.
ElevateLookup(r) ==
    /\ pc[r] = "authed" /\ of[conv[r]] # NoConv
    /\ LET s == of[conv[r]] IN
       \/ /\ s \in sessions
          /\ sess' = [sess EXCEPT ![r] = s]
          /\ Goto(r, "spawn")
          /\ UNCHANGED <<helper, conv>>
       \/ /\ s \notin sessions
          /\ KillHelper(conv[r])
          /\ Return(r)
    /\ UNCHANGED <<now, process, worker, of, stamp, authed, pending, sessions,
                   admin, rows, elevated>>

\* set_elevated(true): an UPDATE, which may match no row.  A database error
\* returns through `?`, dropping the helper and the handle of a running worker.
ElevateMark(r) ==
    /\ pc[r] = "mark"
    /\ \/ /\ elevated' = SetElevated(sess[r])
          /\ Goto(r, "install")
          /\ UNCHANGED <<helper, sess, conv>>
       \/ /\ "db" \in Faults
          /\ KillHelper(conv[r])
          /\ Return(r)
          /\ UNCHANGED elevated
    /\ UNCHANGED <<now, process, worker, of, stamp, authed, pending, sessions,
                   admin, rows>>

\* live.admin.lock().await.replace(..)
ElevateInstall(r) ==
    /\ pc[r] = "install" /\ AdminUnlocked(sess[r])
    /\ LET s == sess[r]
           old == admin[s] IN
       /\ admin' = [admin EXCEPT ![s] = conv[r]]
       /\ stamp' = [stamp EXCEPT ![conv[r]] = now]
       /\ IF old = NoConv
          THEN Return(r)
          ELSE /\ conv' = [conv EXCEPT ![r] = old]
               /\ Goto(r, "swap")
               /\ UNCHANGED sess
    /\ UNCHANGED <<now, process, helper, worker, of, authed, pending, sessions,
                   rows, elevated>>

-----------------------------------------------------------------------------
(* teardown_admin, wherever it is awaited.                                 *)

\* A teardown that relies on the helper to end its worker.
CloseHelperOnly(c) == KillHelper(c) /\ UNCHANGED worker

\* WorkerHandle::shutdown, then HelperConn::close.
ShutBoth(c) ==
    /\ worker' = [worker EXCEPT ![c] = "shut"]
    /\ KillHelper(c)

\* elevate_respond gets rid of the Admin it replaced.
SwapOld(r) ==
    /\ pc[r] = "swap"
    /\ ShutBoth(conv[r])
    /\ Return(r)
    /\ UNCHANGED <<now, process, of, stamp, authed, pending, sessions, admin,
                   rows, elevated>>

\* drop_elevation and sweep, which then clear the elevated flag.
DropAdmin(t) ==
    /\ pc[t] = "dropAdmin"
    /\ ShutBoth(conv[t])
    /\ conv' = [conv EXCEPT ![t] = NoConv]
    /\ Goto(t, "unmark")
    /\ UNCHANGED <<now, process, of, stamp, authed, pending, sessions, admin,
                   rows, elevated, sess>>

\* set_elevated(false).  Its error ends drop_elevation; sweep only logs it.
Unmark(t) ==
    /\ pc[t] = "unmark"
    /\ \/ elevated' = ClearElevated(sess[t])
       \/ "db" \in Faults /\ UNCHANGED elevated
    /\ IF t = Sweeper
       THEN Goto(t, "sweepIdle") /\ UNCHANGED <<sess, conv>>
       ELSE Return(t)
    /\ UNCHANGED <<now, process, helper, worker, of, stamp, authed, pending,
                   sessions, admin, rows>>

-----------------------------------------------------------------------------
(* drop_elevation, resolve_hash, admin_worker and logout.                  *)

\* A request clones the Live out of the map and suspends at `label`.
Lookup(r, s, label) ==
    /\ process = "running" /\ pc[r] = "idle"
    /\ s \in sessions
    /\ sess' = [sess EXCEPT ![r] = s]
    /\ pc' = [pc EXCEPT ![r] = label]

DropElevation(r, s) ==
    /\ Lookup(r, s, "take")
    /\ UNCHANGED <<now, process, helper, worker, of, stamp, authed, pending,
                   sessions, admin, rows, elevated, conv, at, todo>>

TakeAdmin(r) ==
    /\ pc[r] = "take" /\ AdminUnlocked(sess[r])
    /\ IF admin[sess[r]] = NoConv
       THEN Return(r) /\ UNCHANGED admin
       ELSE /\ conv' = [conv EXCEPT ![r] = admin[sess[r]]]
            /\ admin' = EmptyAdmin(sess[r])
            /\ Goto(r, "dropAdmin")
            /\ UNCHANGED sess
    /\ UNCHANGED <<now, process, helper, worker, of, stamp, authed, pending,
                   sessions, rows, elevated>>

\* resolve_hash captures `now` before it locks the activity.
ResolveHash(r, s) ==
    /\ Lookup(r, s, "refresh")
    /\ at' = [at EXCEPT ![r] = now]
    /\ UNCHANGED <<now, process, helper, worker, of, stamp, authed, pending,
                   sessions, admin, rows, elevated, conv, todo>>

Refresh(r) ==
    /\ pc[r] = "refresh"
    /\ stamp' = IF Expired(stamp[sess[r]], at[r], IdleTimeout) THEN stamp
                ELSE [stamp EXCEPT ![sess[r]] = at[r]]
    /\ Return(r)
    /\ UNCHANGED <<now, process, helper, worker, of, authed, pending, sessions,
                   admin, rows, elevated>>

\* admin_worker refreshes the elevation alone.
AdminWorker(r, s) ==
    /\ process = "running" /\ pc[r] = "idle"
    /\ s \in sessions /\ admin[s] # NoConv
    /\ stamp' = [stamp EXCEPT ![admin[s]] = now]
    /\ UNCHANGED <<now, process, helper, worker, of, authed, pending, sessions,
                   admin, rows, elevated, pc, sess, conv, at, todo>>

Logout(r, s) ==
    /\ Lookup(r, s, "tdTake")
    /\ sessions' = TakeSession(s)
    /\ UNCHANGED <<now, process, helper, worker, of, stamp, authed, pending,
                   admin, rows, elevated, conv, at, todo>>

-----------------------------------------------------------------------------
(* teardown(live): terminals (module TerminalRegistry), admin, worker,     *)
(* helper, rows, in that order.                                            *)

\* The row deleted before the worker is shut down.
TdTakeAfterRow(t) ==
    /\ pc[t] = "tdTake" /\ AdminUnlocked(sess[t])
    /\ conv' = [conv EXCEPT ![t] = admin[sess[t]]]
    /\ admin' = EmptyAdmin(sess[t])
    /\ Goto(t, IF admin[sess[t]] = NoConv THEN "tdWorker" ELSE "tdAdmin")
    /\ rows' = rows \ {sess[t]} /\ elevated' = elevated \ {sess[t]}
    /\ UNCHANGED <<now, process, helper, worker, of, stamp, authed, pending,
                   sessions, sess>>

TdTake(t) ==
    /\ pc[t] = "tdTake" /\ AdminUnlocked(sess[t])
    /\ conv' = [conv EXCEPT ![t] = admin[sess[t]]]
    /\ admin' = EmptyAdmin(sess[t])
    /\ Goto(t, IF admin[sess[t]] = NoConv THEN "tdWorker" ELSE "tdAdmin")
    /\ UNCHANGED <<now, process, helper, worker, of, stamp, authed, pending,
                   sessions, rows, elevated, sess>>

TdAdmin(t) ==
    /\ pc[t] = "tdAdmin"
    /\ ShutBoth(conv[t])
    /\ conv' = [conv EXCEPT ![t] = NoConv]
    /\ Goto(t, "tdWorker")
    /\ UNCHANGED <<now, process, of, stamp, authed, pending, sessions, admin,
                   rows, elevated, sess>>

TdWorker(t) ==
    /\ pc[t] = "tdWorker"
    /\ ShutBoth(sess[t])
    /\ Goto(t, "tdRow")
    /\ UNCHANGED <<now, process, of, stamp, authed, pending, sessions, admin,
                   rows, elevated, sess, conv>>

TdRow(t) ==
    /\ pc[t] = "tdRow"
    /\ \/ rows' = rows \ {sess[t]} /\ elevated' = elevated \ {sess[t]}
       \/ "db" \in Faults /\ UNCHANGED <<rows, elevated>>
    /\ Return(t)
    /\ UNCHANGED <<now, process, helper, worker, of, stamp, authed, pending,
                   sessions, admin>>

-----------------------------------------------------------------------------
(* sweep: one `now` for the whole round.                                   *)

\* Expired dialogs are cut off, then the Arcs of all sessions are collected.
SweepBegin ==
    LET expired == {c \in pending : Expired(stamp[c], now, PendingTimeout)} IN
    /\ process = "running" /\ pc[Sweeper] = "idle"
    /\ pending' = pending \ expired
    /\ authed' = authed \ expired
    /\ helper' = [c \in Convs |-> IF c \in expired THEN "gone" ELSE helper[c]]
    /\ at' = [at EXCEPT ![Sweeper] = now]
    /\ todo' = [todo EXCEPT ![Sweeper] = sessions]
    /\ pc' = [pc EXCEPT ![Sweeper] = "sweep"]
    /\ UNCHANGED <<now, process, worker, of, stamp, sessions, admin, rows,
                   elevated, sess, conv>>

\* The elevation is looked at first.
SweepAdmin(s) ==
    /\ pc[Sweeper] = "sweep" /\ s \in todo[Sweeper] /\ AdminUnlocked(s)
    /\ sess' = [sess EXCEPT ![Sweeper] = s]
    /\ IF admin[s] # NoConv /\ Expired(stamp[admin[s]], at[Sweeper], Effective)
       THEN /\ conv' = [conv EXCEPT ![Sweeper] = admin[s]]
            /\ admin' = EmptyAdmin(s)
            /\ Goto(Sweeper, "dropAdmin")
       ELSE /\ Goto(Sweeper, "sweepIdle")
            /\ UNCHANGED <<conv, admin>>
    /\ UNCHANGED <<now, process, helper, worker, of, stamp, authed, pending,
                   sessions, rows, elevated>>

\* Then the session: an idle one is audited, and logged out afterwards.
SweepIdle ==
    /\ pc[Sweeper] = "sweepIdle"
    /\ IF Expired(stamp[sess[Sweeper]], at[Sweeper], IdleTimeout)
       THEN Goto(Sweeper, "expire") /\ UNCHANGED <<sess, conv>>
       ELSE Return(Sweeper)
    /\ UNCHANGED <<now, process, helper, worker, of, stamp, authed, pending,
                   sessions, admin, rows, elevated>>

SweepExpire ==
    /\ pc[Sweeper] = "expire"
    /\ LET s == sess[Sweeper] IN
       \/ /\ s \in sessions
          /\ sessions' = TakeSession(s)
          /\ Goto(Sweeper, "tdTake")
          /\ UNCHANGED <<sess, conv>>
       \/ s \notin sessions /\ Return(Sweeper) /\ UNCHANGED sessions
    /\ UNCHANGED <<now, process, helper, worker, of, stamp, authed, pending,
                   admin, rows, elevated>>

SweepEnd ==
    /\ pc[Sweeper] = "sweep" /\ todo[Sweeper] = {}
    /\ pc' = [pc EXCEPT ![Sweeper] = "idle"]
    /\ at' = [at EXCEPT ![Sweeper] = 0]
    /\ UNCHANGED <<now, process, helper, worker, of, stamp, authed, pending,
                   sessions, admin, rows, elevated, sess, conv, todo>>

-----------------------------------------------------------------------------
(* A future dropped at its await: what it owned by value is dropped, which  *)
(* kills a helper (kill_on_drop) and leaves a running worker to itself.     *)

Cancel(t) ==
    /\ helper' = IF HoldsConv(t) THEN [helper EXCEPT ![conv[t]] = "gone"] ELSE helper
    /\ sess' = [sess EXCEPT ![t] = NoConv]
    /\ conv' = [conv EXCEPT ![t] = NoConv]
    /\ at' = [at EXCEPT ![t] = 0]
    /\ todo' = [todo EXCEPT ![t] = {}]

\* The HTTP server drops the handler of a client that went away.
Disconnect(r) ==
    /\ "disconnect" \in Faults
    /\ pc[r] # "idle"
    /\ Cancel(r)
    /\ pc' = [pc EXCEPT ![r] = "idle"]
    /\ UNCHANGED <<now, process, worker, of, stamp, authed, pending, sessions,
                   admin, rows, elevated>>

\* The last Arc<Live> of a session that left the map is dropped, and with it
\* whatever its helper and admin slots still hold.
DropLive(s) ==
    /\ of[s] = NoConv /\ s \notin sessions /\ ~Referenced(s)
    /\ helper[s] = "serving" \/ admin[s] # NoConv
    /\ helper' = [c \in Convs |-> IF c = s \/ c = admin[s] THEN "gone" ELSE helper[c]]
    /\ admin' = [admin EXCEPT ![s] = NoConv]
    /\ UNCHANGED <<now, process, worker, of, stamp, authed, pending, sessions,
                   rows, elevated, pc, sess, conv, at, todo>>

-----------------------------------------------------------------------------
(* Node::shutdown(Graceful) and SessionManager::shutdown; the next start.  *)

\* The listener has stopped; the sweeper is aborted; requests may still run.
StopBegin ==
    /\ process = "running"
    /\ process' = "stopping"
    /\ Cancel(Sweeper)
    /\ pc' = [pc EXCEPT ![Sweeper] = "idle", ![Stopper] = "drainPending"]
    /\ UNCHANGED <<now, worker, of, stamp, authed, pending, sessions, admin,
                   rows, elevated>>

DrainPending ==
    /\ pc[Stopper] = "drainPending"
    /\ helper' = [c \in Convs |-> IF c \in pending THEN "gone" ELSE helper[c]]
    /\ pending' = {} /\ authed' = {}
    /\ pc' = [pc EXCEPT ![Stopper] = "drain"]
    /\ UNCHANGED <<now, process, worker, of, stamp, sessions, admin, rows,
                   elevated, sess, conv, at, todo>>

DrainSessions ==
    /\ pc[Stopper] = "drain"
    /\ sessions' = {}
    /\ todo' = [todo EXCEPT ![Stopper] = sessions]
    /\ pc' = [pc EXCEPT ![Stopper] = "next"]
    /\ UNCHANGED <<now, process, helper, worker, of, stamp, authed, pending,
                   admin, rows, elevated, sess, conv, at>>

StopNext(s) ==
    /\ pc[Stopper] = "next" /\ s \in todo[Stopper]
    /\ sess' = [sess EXCEPT ![Stopper] = s]
    /\ pc' = [pc EXCEPT ![Stopper] = "tdTake"]
    /\ UNCHANGED <<now, process, helper, worker, of, stamp, authed, pending,
                   sessions, admin, rows, elevated, conv, at, todo>>

StopDone ==
    /\ pc[Stopper] = "next" /\ todo[Stopper] = {}
    /\ pc' = [pc EXCEPT ![Stopper] = "exit"]
    /\ UNCHANGED <<now, process, helper, worker, of, stamp, authed, pending,
                   sessions, admin, rows, elevated, sess, conv, at, todo>>

\* The process ends, by itself or by a crash: memory is lost, helpers and
\* workers see the end of their channel and exit, the rows stay.
Die ==
    /\ process # "down"
    /\ pc[Stopper] = "exit" \/ "crash" \in Faults
    /\ process' = "down"
    /\ helper' = [c \in Convs |-> IF helper[c] = "unused" THEN "unused" ELSE "gone"]
    /\ worker' = [c \in Convs |-> IF worker[c] = "none" THEN "none" ELSE "shut"]
    /\ authed' = {} /\ pending' = {} /\ sessions' = {}
    /\ admin' = [c \in Convs |-> NoConv]
    /\ pc' = [t \in Tasks |-> "idle"]
    /\ sess' = [t \in Tasks |-> NoConv] /\ conv' = [t \in Tasks |-> NoConv]
    /\ at' = [t \in Tasks |-> 0] /\ todo' = [t \in Tasks |-> {}]
    /\ UNCHANGED <<now, of, stamp, rows, elevated>>

\* SessionManager::new prunes every row the previous process left.
New ==
    /\ process = "down"
    /\ process' = "running"
    /\ rows' = {} /\ elevated' = {}
    /\ UNCHANGED <<now, helper, worker, of, stamp, authed, pending, sessions,
                   admin, pc, sess, conv, at, todo>>

Tick ==
    /\ now < MaxTime
    /\ now' = now + 1
    /\ UNCHANGED <<process, helper, worker, of, stamp, authed, pending,
                   sessions, admin, rows, elevated, pc, sess, conv, at, todo>>

-----------------------------------------------------------------------------
\* A request arrives.
Request(r) ==
    \/ \E c \in Convs, s \in Option : StartAuth(r, c, s)
    \/ \E c \in Convs : Exchange(r, c)
    \/ \E s \in Convs : DropElevation(r, s) \/ ResolveHash(r, s)
                        \/ AdminWorker(r, s) \/ Logout(r, s)

\* The helper, that is PAM and the user behind it, answers: in its own time.
HelperReply(r) == StartAuthReply(r) \/ ExchangeReply(r) \/ SpawnReply(r)

\* A suspended request goes on: every await here is bounded by a timeout.
RequestStep(r) ==
    \/ WrongEndpoint(r) \/ LoginCreate(r) \/ LoginInsert(r)
    \/ ElevateLookup(r) \/ ElevateMark(r) \/ ElevateInstall(r) \/ SwapOld(r)
    \/ TakeAdmin(r) \/ Refresh(r)

TeardownStep(t) ==
    \/ DropAdmin(t) \/ Unmark(t)
    \/ TdTake(t) \/ TdAdmin(t) \/ TdWorker(t) \/ TdRow(t)

SweepStep ==
    \/ SweepBegin \/ SweepIdle \/ SweepExpire \/ SweepEnd
    \/ \E s \in Convs : SweepAdmin(s)

StopStep ==
    \/ DrainPending \/ DrainSessions \/ StopDone
    \/ \E s \in Convs : StopNext(s)

Next ==
    \/ \E r \in Reqs : Request(r) \/ HelperReply(r) \/ RequestStep(r) \/ Disconnect(r)
    \/ \E t \in Tasks : TeardownStep(t)
    \/ SweepStep \/ StopBegin \/ StopStep
    \/ \E s \in Convs : DropLive(s)
    \/ Die \/ New \/ Tick

Spec == Init /\ [][Next]_vars

\* The runtime polls every runnable task and the sweeper's interval fires for
\* ever.  Nothing obliges a user, PAM, a client or the clock to do anything.
FairSpec ==
    /\ Spec
    /\ \A r \in Reqs : WF_vars(RequestStep(r))
    /\ \A t \in Tasks : WF_vars(TeardownStep(t))
    /\ WF_vars(SweepStep) /\ WF_vars(StopStep)

-----------------------------------------------------------------------------
(* Safety.                                                                 *)

\* A conversation is in one place: at most one task holds it, and then it is
\* neither a pending dialog, nor a session, nor a session's Admin.  So two
\* concurrent answers never drive the same helper, an AuthOk is spent once,
\* and no helper or worker is closed by one owner under another.
OneOwner ==
    /\ \A t, u \in Tasks :
         HoldsConv(t) /\ HoldsConv(u) /\ conv[t] = conv[u] => t = u
    /\ \A t \in Tasks : HoldsConv(t) =>
         /\ conv[t] \notin pending \cup sessions
         /\ \A s \in Convs : admin[s] # conv[t]
    /\ pending \cap sessions = {}
    /\ \A s \in Convs : admin[s] \notin pending \cup sessions

\* However logout, the sweeper and the shutdown race for a session, one of
\* them takes it out of the map and tears it down, and no other task does.
OneTeardown ==
    /\ \A t \in Tasks : TearsDown(t) => sess[t] \notin sessions
    /\ \A t, u \in Tasks : TearsDown(t) /\ TearsDown(u) /\ sess[t] = sess[u] => t = u
    /\ \A s \in todo[Stopper] : s \notin sessions

\* A session one can look up is whole: its helper keeps the PAM session, its
\* worker has not been shut down and its rows are there, at every await of
\* every task, database faults and dropped requests included.
LiveIsBacked ==
    \A s \in sessions : helper[s] = "serving" /\ worker[s] = "up" /\ s \in rows

\* An Admin slot, also one of a Live that has left the map, holds a worker and
\* a helper that run and whose dialog was opened for this very session.
AdminIsBacked ==
    \A s \in Convs : admin[s] # NoConv =>
        helper[admin[s]] = "serving" /\ worker[admin[s]] = "up" /\ of[admin[s]] = s

\* The row of a login outlives its worker, even of a login whose request was
\* dropped: the rows never fall short of the processes that run for a user.
UserWorkerHasRow ==
    \A c \in Convs : of[c] = NoConv /\ worker[c] = "up" => c \in rows

\* A user worker runs only for a session in the map or one that a task is about
\* to insert or is tearing down: logout, sweep and every error path of a login
\* end the worker they take away.  (Runs without dropped requests.)
NoStrayUserWorker ==
    process = "running" =>
        \A c \in Convs : of[c] = NoConv /\ worker[c] = "up" =>
            \/ c \in sessions
            \/ \E t \in Tasks : pc[t] = "insert" /\ conv[t] = c
            \/ \E t \in Tasks : TearsDown(t) /\ sess[t] = c

\* A row says "elevated" only while its session has an Admin or a task is on
\* its way to install one or to clear the flag.  (Runs without faults.)
ElevatedRowIsExplained ==
    process = "running" =>
        \A s \in elevated :
            \/ admin[s] # NoConv
            \/ \E t \in Tasks : sess[t] = s /\ (TearsDown(t) \/
                 pc[t] \in {"install", "dropAdmin", "unmark"})

\* Every helper, worker and row has one owner, and one task tears a session down,
\* whichever requests, sweeps and shutdowns meet.
OwnersAreSingle == TypeOK /\ OneOwner /\ OneTeardown

\* A session and an elevation that can be found are whole, and a user worker is
\* never without its rows, at whichever step a login, an elevation or a teardown
\* fails or is dropped.
SessionsAreWhole == LiveIsBacked /\ AdminIsBacked /\ UserWorkerHasRow

-----------------------------------------------------------------------------
(* The inductive invariant behind OneOwner, OneTeardown, LiveIsBacked,     *)
(* AdminIsBacked and UserWorkerHasRow.                                     *)

\* s has been inserted into the map: a Login conversation past its dialog.
IsLive(s) == of[s] = NoConv /\ helper[s] \in {"serving", "gone"}

\* Every reference to a Live is one; the await points that use sess have it.
RefsAreLive ==
    /\ \A s \in Convs : s \in sessions \/ admin[s] # NoConv => IsLive(s)
    /\ \A t \in Tasks : sess[t] # NoConv => IsLive(sess[t])
    /\ \A t \in Tasks : \A s \in todo[t] : IsLive(s)
    /\ \A t \in Tasks :
         TearsDown(t) \/ pc[t] \in {"take", "refresh", "dropAdmin", "unmark", "sweepIdle", "expire"}
             => sess[t] # NoConv

\* The processes and the row of the conversation a task holds, await by await.
HeldIsBacked ==
    \A t \in Tasks : HoldsConv(t) =>
        LET c == conv[t] IN
        /\ c # NoConv
        /\ pc[t] \in {"starting", "exchange", "authed", "spawn"}
             => helper[c] \in {"talking", "authed"}
        /\ pc[t] \in {"insert", "mark", "install", "swap", "dropAdmin", "tdAdmin"}
             => helper[c] = "serving" /\ worker[c] = "up"
        /\ pc[t] \in {"spawn", "insert"} /\ of[c] = NoConv => c \in rows
        /\ pc[t] = "insert" => of[c] = NoConv
        /\ pc[t] \in {"spawn", "mark", "install"} /\ of[c] # NoConv => of[c] = sess[t]
        /\ pc[t] \in {"mark", "install", "swap", "dropAdmin", "tdAdmin"} => of[c] # NoConv

\* A login about to be inserted is not known to anybody yet.
InsertIsFresh ==
    \A t, u \in Tasks : pc[t] = "insert" => conv[t] # sess[u] /\ conv[t] \notin todo[u]

\* A worker comes after its helper's dialog; a pending dialog is not over.
DialogFirst ==
    /\ \A c \in Convs : helper[c] \in {"unused", "talking", "authed"} => worker[c] = "none"
    /\ \A c \in pending : helper[c] \in {"talking", "authed"}

\* What the shutdown still has to tear down, no other task does.
StopperIsAlone ==
    \A s \in todo[Stopper] : \A t \in Tasks \ {Stopper} : ~(TearsDown(t) /\ sess[t] = s)

RowGoesLast == \A t \in Tasks : pc[t] = "tdRow" => worker[sess[t]] = "shut"

DownIsEmpty ==
    process = "down" =>
        /\ sessions = {} /\ pending = {}
        /\ \A t \in Tasks : pc[t] = "idle"
        /\ \A c \in Convs : worker[c] # "up"

IInv ==
    /\ TypeOK
    /\ OneOwner /\ OneTeardown /\ LiveIsBacked /\ AdminIsBacked /\ UserWorkerHasRow
    /\ RefsAreLive /\ HeldIsBacked /\ InsertIsFresh /\ DialogFirst
    /\ StopperIsAlone /\ RowGoesLast /\ DownIsEmpty

-----------------------------------------------------------------------------
(* Liveness, under FairSpec.                                               *)

\* "logout: end the worker": once a session is out of the map its worker is
\* shut down, whoever tears it down and whatever the others do.
TeardownCompletes ==
    \A s \in Convs : (process = "running" /\ \E t \in Tasks : TearsDown(t) /\ sess[t] = s)
                         ~> (worker[s] # "up" \/ process # "running")

\* An idle session is logged out although the sweeper may be held up by the
\* teardown of others, unless a request revives it with an earlier Instant.
IdleSessionEnds ==
    LET overdue(s) == process = "running" /\ s \in sessions
                      /\ Expired(stamp[s], now, IdleTimeout)
    IN \A s \in Convs : overdue(s) ~> ~overdue(s)

\* An elevation nobody uses is taken back and its worker shut down.
IdleElevationEnds ==
    LET overdue(a) == /\ process = "running"
                      /\ \E s \in sessions : admin[s] = a
                      /\ Expired(stamp[a], now, ElevatedTimeout)
    IN \A a \in Convs : overdue(a) ~>
          (process # "running" \/ worker[a] # "up" \/ ~Expired(stamp[a], now, ElevatedTimeout))

\* What nobody uses ends: the session as well as the elevation, although the
\* sweeper judges them by one Instant and awaits teardowns in between.
IdleEnds == IdleSessionEnds /\ IdleElevationEnds

-----------------------------------------------------------------------------
(* What the comments say and the code does not do.                         *)

\* logout "terminates the worker": when no task is busy with a session that is
\* over, no admin worker of it runs.
NoAdminWorkerAfterLogout ==
    \A c \in Convs : of[c] # NoConv /\ worker[c] = "up" /\ process = "running" =>
        \/ of[c] \in sessions
        \/ \E t \in Tasks : sess[t] = of[c] \/ conv[t] = c
=============================================================================
