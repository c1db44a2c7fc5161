------------------------ MODULE SessionManagerProofs ------------------------
(***************************************************************************)
(* Safety of SessionManager for any number of conversations and requests,  *)
(* any timeouts and any combination of faults.                             *)
(*                                                                         *)
(* IInv (module SessionManager) is inductive.  OneOwner alone is not: that *)
(* a task may destroy what it holds without touching a session rests on    *)
(* where a conversation can be at each await (HeldIsBacked, RefsAreLive),  *)
(* and that a login can be inserted on its being unknown until then        *)
(* (InsertIsFresh) and on its row surviving until then (DownIsEmpty for a  *)
(* restart, RowGoesLast for a teardown).                                   *)
(***************************************************************************)
EXTENDS SessionManager, TLAPS

\* The empty manager of a fresh process satisfies the invariant.
LEMMA InitIInv == Init => IInv
  BY ConstantsAssumption
     DEF Init, IInv, TypeOK, OneOwner, OneTeardown, LiveIsBacked, AdminIsBacked,
         UserWorkerHasRow, RefsAreLive, IsLive, HeldIsBacked, InsertIsFresh,
         DialogFirst, StopperIsAlone, RowGoesLast, DownIsEmpty,
         HoldsConv, TearsDown, Tasks, Option, PCs

\* A request that arrives: it may open, answer, look up or log out.
LEMMA RequestIInv ==
    ASSUME IInv, NEW r \in Reqs, Request(r)
    PROVE  IInv'
  <1> USE ConstantsAssumption
        DEF IInv, TypeOK, OneOwner, OneTeardown, LiveIsBacked, AdminIsBacked,
            UserWorkerHasRow, RefsAreLive, IsLive, HeldIsBacked, InsertIsFresh,
            DialogFirst, StopperIsAlone, RowGoesLast, DownIsEmpty,
            HoldsConv, TearsDown, Tasks, Option, PCs
  <1>1. ASSUME NEW c \in Convs, NEW s \in Option, StartAuth(r, c, s)
        PROVE  IInv'
    <2>1. TypeOK'
      BY <1>1, SMTT(60) DEF StartAuth, Goto
    <2>2. OneOwner' /\ OneTeardown'
      BY <1>1, SMTT(60) DEF StartAuth, Goto
    <2>3. LiveIsBacked' /\ AdminIsBacked' /\ UserWorkerHasRow' /\ DialogFirst'
      BY <1>1, SMTT(60) DEF StartAuth, Goto
    <2>4. RefsAreLive' /\ InsertIsFresh'
      BY <1>1, SMTT(60) DEF StartAuth, Goto
    <2>5. HeldIsBacked'
      BY <1>1, SMTT(60) DEF StartAuth, Goto
    <2>6. StopperIsAlone' /\ RowGoesLast' /\ DownIsEmpty'
      BY <1>1, SMTT(60) DEF StartAuth, Goto
    <2> QED
      BY <2>1, <2>2, <2>3, <2>4, <2>5, <2>6
  <1>2. ASSUME NEW c \in Convs, Exchange(r, c)
        PROVE  IInv'
    <2>1. TypeOK'
      BY <1>2, SMTT(60) DEF Exchange, Goto, KillHelper, TakePending
    <2>2. OneOwner' /\ OneTeardown'
      BY <1>2, SMTT(60) DEF Exchange, Goto, KillHelper, TakePending
    <2>3. LiveIsBacked' /\ AdminIsBacked' /\ UserWorkerHasRow' /\ DialogFirst'
      BY <1>2, SMTT(60) DEF Exchange, Goto, KillHelper, TakePending
    <2>4. RefsAreLive' /\ InsertIsFresh'
      BY <1>2, SMTT(60) DEF Exchange, Goto, KillHelper, TakePending
    <2>5. HeldIsBacked'
      BY <1>2, SMTT(60) DEF Exchange, Goto, KillHelper, TakePending
    <2>6. StopperIsAlone' /\ RowGoesLast' /\ DownIsEmpty'
      BY <1>2, SMTT(60) DEF Exchange, Goto, KillHelper, TakePending
    <2> QED
      BY <2>1, <2>2, <2>3, <2>4, <2>5, <2>6
  <1>3. ASSUME NEW s \in Convs, DropElevation(r, s)
        PROVE  IInv'
    BY <1>3, SMTT(200) DEF DropElevation, Lookup
  <1>4. ASSUME NEW s \in Convs, ResolveHash(r, s)
        PROVE  IInv'
    BY <1>4, SMTT(200) DEF ResolveHash, Lookup
  <1>5. ASSUME NEW s \in Convs, AdminWorker(r, s)
        PROVE  IInv'
    BY <1>5, SMTT(200) DEF AdminWorker
  <1>6. ASSUME NEW s \in Convs, Logout(r, s)
        PROVE  IInv'
    BY <1>6, SMTT(200) DEF Logout, Lookup, TakeSession
  <1> QED
    BY <1>1, <1>2, <1>3, <1>4, <1>5, <1>6 DEF Request

\* An answer of the helper, to the request that waits for it.
LEMMA HelperReplyIInv ==
    ASSUME IInv, NEW r \in Reqs, HelperReply(r)
    PROVE  IInv'
  <1> USE ConstantsAssumption
        DEF IInv, TypeOK, OneOwner, OneTeardown, LiveIsBacked, AdminIsBacked,
            UserWorkerHasRow, RefsAreLive, IsLive, HeldIsBacked, InsertIsFresh,
            DialogFirst, StopperIsAlone, RowGoesLast, DownIsEmpty,
            HoldsConv, TearsDown, Tasks, Option, PCs
  <1>1. CASE StartAuthReply(r)
    <2>1. TypeOK'
      BY <1>1, SMTT(60) DEF StartAuthReply, Return, Home, KillHelper
    <2>2. OneOwner' /\ OneTeardown'
      BY <1>1, SMTT(60) DEF StartAuthReply, Return, Home, KillHelper
    <2>3. LiveIsBacked' /\ AdminIsBacked' /\ UserWorkerHasRow' /\ DialogFirst'
      BY <1>1, SMTT(60) DEF StartAuthReply, Return, Home, KillHelper
    <2>4. RefsAreLive' /\ InsertIsFresh'
      BY <1>1, SMTT(60) DEF StartAuthReply, Return, Home, KillHelper
    <2>5. HeldIsBacked'
      BY <1>1, SMTT(60) DEF StartAuthReply, Return, Home, KillHelper
    <2>6. StopperIsAlone' /\ RowGoesLast' /\ DownIsEmpty'
      BY <1>1, SMTT(60) DEF StartAuthReply, Return, Home, KillHelper
    <2> QED
      BY <2>1, <2>2, <2>3, <2>4, <2>5, <2>6
  <1>2. CASE ExchangeReply(r)
    <2>1. TypeOK'
      BY <1>2, SMTT(60) DEF ExchangeReply, Return, Home, Goto, KillHelper
    <2>2. OneOwner' /\ OneTeardown'
      BY <1>2, SMTT(60) DEF ExchangeReply, Return, Home, Goto, KillHelper
    <2>3. LiveIsBacked' /\ AdminIsBacked' /\ UserWorkerHasRow' /\ DialogFirst'
      BY <1>2, SMTT(60) DEF ExchangeReply, Return, Home, Goto, KillHelper
    <2>4. RefsAreLive' /\ InsertIsFresh'
      BY <1>2, SMTT(60) DEF ExchangeReply, Return, Home, Goto, KillHelper
    <2>5. HeldIsBacked'
      BY <1>2, SMTT(60) DEF ExchangeReply, Return, Home, Goto, KillHelper
    <2>6. StopperIsAlone' /\ RowGoesLast' /\ DownIsEmpty'
      BY <1>2, SMTT(60) DEF ExchangeReply, Return, Home, Goto, KillHelper
    <2> QED
      BY <2>1, <2>2, <2>3, <2>4, <2>5, <2>6
  <1>3. CASE SpawnReply(r)
    <2>1. TypeOK'
      BY <1>3, SMTT(60) DEF SpawnReply, Return, Home, Goto, KillHelper
    <2>2. OneOwner' /\ OneTeardown'
      BY <1>3, SMTT(60) DEF SpawnReply, Return, Home, Goto, KillHelper
    <2>3. LiveIsBacked' /\ AdminIsBacked' /\ UserWorkerHasRow' /\ DialogFirst'
      BY <1>3, SMTT(60) DEF SpawnReply, Return, Home, Goto, KillHelper
    <2>4. RefsAreLive' /\ InsertIsFresh'
      BY <1>3, SMTT(60) DEF SpawnReply, Return, Home, Goto, KillHelper
    <2>5. HeldIsBacked'
      BY <1>3, SMTT(60) DEF SpawnReply, Return, Home, Goto, KillHelper
    <2>6. StopperIsAlone' /\ RowGoesLast' /\ DownIsEmpty'
      BY <1>3, SMTT(60) DEF SpawnReply, Return, Home, Goto, KillHelper
    <2> QED
      BY <2>1, <2>2, <2>3, <2>4, <2>5, <2>6
  <1> QED
    BY <1>1, <1>2, <1>3 DEF HelperReply

\* A suspended request that goes on.
LEMMA RequestStepIInv ==
    ASSUME IInv, NEW r \in Reqs, RequestStep(r)
    PROVE  IInv'
  <1> USE ConstantsAssumption
        DEF IInv, TypeOK, OneOwner, OneTeardown, LiveIsBacked, AdminIsBacked,
            UserWorkerHasRow, RefsAreLive, IsLive, HeldIsBacked, InsertIsFresh,
            DialogFirst, StopperIsAlone, RowGoesLast, DownIsEmpty,
            HoldsConv, TearsDown, Tasks, Option, PCs
  <1>1. CASE WrongEndpoint(r)
    BY <1>1, SMTT(200) DEF WrongEndpoint, Return, Home, KillHelper
  <1>2. CASE LoginCreate(r)
    <2>1. CASE rows' = rows \cup {conv[r]} /\ Goto(r, "spawn") /\ UNCHANGED <<helper, sess, conv>>
      BY <1>2, <2>1, SMTT(200) DEF LoginCreate, Goto
    <2>2. CASE KillHelper(conv[r]) /\ Return(r) /\ rows' \in {rows, rows \cup {conv[r]}}
      BY <1>2, <2>2, SMTT(200) DEF LoginCreate, KillHelper, Return, Home
    <2> QED
      BY <1>2, <2>1, <2>2 DEF LoginCreate
  <1>3. CASE LoginInsert(r)
    BY <1>3, SMTT(200) DEF LoginInsert, Return, Home
  <1>4. CASE ElevateLookup(r)
    <2>1. TypeOK'
      BY <1>4, SMTT(60) DEF ElevateLookup, Return, Home, Goto, KillHelper
    <2>2. OneOwner' /\ OneTeardown'
      BY <1>4, SMTT(60) DEF ElevateLookup, Return, Home, Goto, KillHelper
    <2>3. LiveIsBacked' /\ AdminIsBacked' /\ UserWorkerHasRow' /\ DialogFirst'
      BY <1>4, SMTT(60) DEF ElevateLookup, Return, Home, Goto, KillHelper
    <2>4. RefsAreLive' /\ InsertIsFresh'
      BY <1>4, SMTT(60) DEF ElevateLookup, Return, Home, Goto, KillHelper
    <2>5. HeldIsBacked'
      BY <1>4, SMTT(60) DEF ElevateLookup, Return, Home, Goto, KillHelper
    <2>6. StopperIsAlone' /\ RowGoesLast' /\ DownIsEmpty'
      BY <1>4, SMTT(60) DEF ElevateLookup, Return, Home, Goto, KillHelper
    <2> QED
      BY <2>1, <2>2, <2>3, <2>4, <2>5, <2>6
  <1>5. CASE ElevateMark(r)
    <2>1. CASE elevated' = SetElevated(sess[r]) /\ Goto(r, "install") /\ UNCHANGED <<helper, sess, conv>>
      BY <1>5, <2>1, SMTT(200) DEF ElevateMark, Goto, SetElevated
    <2>2. CASE KillHelper(conv[r]) /\ Return(r) /\ UNCHANGED elevated
      <3>1. TypeOK'
        BY <1>5, <2>2, SMTT(60) DEF ElevateMark, KillHelper, Return, Home
      <3>2. OneOwner' /\ OneTeardown'
        BY <1>5, <2>2, SMTT(60) DEF ElevateMark, KillHelper, Return, Home
      <3>3. LiveIsBacked' /\ AdminIsBacked' /\ UserWorkerHasRow' /\ DialogFirst'
        BY <1>5, <2>2, SMTT(60) DEF ElevateMark, KillHelper, Return, Home
      <3>4. RefsAreLive' /\ InsertIsFresh'
        BY <1>5, <2>2, SMTT(60) DEF ElevateMark, KillHelper, Return, Home
      <3>5. HeldIsBacked'
        BY <1>5, <2>2, SMTT(60) DEF ElevateMark, KillHelper, Return, Home
      <3>6. StopperIsAlone' /\ RowGoesLast' /\ DownIsEmpty'
        BY <1>5, <2>2, SMTT(60) DEF ElevateMark, KillHelper, Return, Home
      <3> QED
        BY <3>1, <3>2, <3>3, <3>4, <3>5, <3>6
    <2> QED
      BY <1>5, <2>1, <2>2 DEF ElevateMark
  <1>6. CASE ElevateInstall(r)
    <2>1. TypeOK'
      BY <1>6, SMTT(60) DEF ElevateInstall, Return, Home, Goto
    <2>2. OneOwner' /\ OneTeardown'
      BY <1>6, SMTT(60) DEF ElevateInstall, Return, Home, Goto
    <2>3. LiveIsBacked' /\ AdminIsBacked' /\ UserWorkerHasRow' /\ DialogFirst'
      BY <1>6, SMTT(60) DEF ElevateInstall, Return, Home, Goto
    <2>4. RefsAreLive' /\ InsertIsFresh'
      BY <1>6, SMTT(60) DEF ElevateInstall, Return, Home, Goto
    <2>5. HeldIsBacked'
      BY <1>6, SMTT(60) DEF ElevateInstall, Return, Home, Goto
    <2>6. StopperIsAlone' /\ RowGoesLast' /\ DownIsEmpty'
      BY <1>6, SMTT(60) DEF ElevateInstall, Return, Home, Goto
    <2> QED
      BY <2>1, <2>2, <2>3, <2>4, <2>5, <2>6
  <1>7. CASE SwapOld(r)
    BY <1>7, SMTT(200) DEF SwapOld, Return, Home, ShutBoth, KillHelper
  <1>8. CASE TakeAdmin(r)
    <2>1. TypeOK'
      BY <1>8, SMTT(60) DEF TakeAdmin, Return, Home, Goto, EmptyAdmin
    <2>2. OneOwner' /\ OneTeardown'
      BY <1>8, SMTT(60) DEF TakeAdmin, Return, Home, Goto, EmptyAdmin
    <2>3. LiveIsBacked' /\ AdminIsBacked' /\ UserWorkerHasRow' /\ DialogFirst'
      BY <1>8, SMTT(60) DEF TakeAdmin, Return, Home, Goto, EmptyAdmin
    <2>4. RefsAreLive' /\ InsertIsFresh'
      BY <1>8, SMTT(60) DEF TakeAdmin, Return, Home, Goto, EmptyAdmin
    <2>5. HeldIsBacked'
      BY <1>8, SMTT(60) DEF TakeAdmin, Return, Home, Goto, EmptyAdmin
    <2>6. StopperIsAlone' /\ RowGoesLast' /\ DownIsEmpty'
      BY <1>8, SMTT(60) DEF TakeAdmin, Return, Home, Goto, EmptyAdmin
    <2> QED
      BY <2>1, <2>2, <2>3, <2>4, <2>5, <2>6
  <1>9. CASE Refresh(r)
    BY <1>9, SMTT(200) DEF Refresh, Return, Home
  <1> QED
    BY <1>1, <1>2, <1>3, <1>4, <1>5, <1>6, <1>7, <1>8, <1>9 DEF RequestStep

\* A step of a teardown, by a request, the sweeper or the stopper.
LEMMA TeardownIInv ==
    ASSUME IInv, NEW t \in Tasks, TeardownStep(t)
    PROVE  IInv'
  <1> USE ConstantsAssumption
        DEF IInv, TypeOK, OneOwner, OneTeardown, LiveIsBacked, AdminIsBacked,
            UserWorkerHasRow, RefsAreLive, IsLive, HeldIsBacked, InsertIsFresh,
            DialogFirst, StopperIsAlone, RowGoesLast, DownIsEmpty,
            HoldsConv, TearsDown, Tasks, Option, PCs
  <1>1. CASE DropAdmin(t)
    BY <1>1, SMTT(200) DEF DropAdmin, Goto, ShutBoth, KillHelper
  <1>2. CASE Unmark(t)
    <2>1. /\ pc[t] = "unmark" /\ elevated' \subseteq elevated
          /\ UNCHANGED <<now, process, helper, worker, of, stamp, authed, pending, sessions, admin, rows>>
      BY <1>2 DEF Unmark, ClearElevated
    <2>2. CASE t = Sweeper /\ Goto(t, "sweepIdle") /\ UNCHANGED <<sess, conv>>
      BY <2>1, <2>2, SMTT(200) DEF Goto
    <2>3. CASE Return(t)
      BY <2>1, <2>3, SMTT(200) DEF Return, Home
    <2> QED
      BY <1>2, <2>2, <2>3 DEF Unmark
  <1>3. CASE TdTake(t)
    <2>1. TypeOK'
      BY <1>3, SMTT(60) DEF TdTake, Goto, EmptyAdmin
    <2>2. OneOwner' /\ OneTeardown'
      BY <1>3, SMTT(60) DEF TdTake, Goto, EmptyAdmin
    <2>3. LiveIsBacked' /\ AdminIsBacked' /\ UserWorkerHasRow' /\ DialogFirst'
      BY <1>3, SMTT(60) DEF TdTake, Goto, EmptyAdmin
    <2>4. RefsAreLive' /\ InsertIsFresh'
      BY <1>3, SMTT(60) DEF TdTake, Goto, EmptyAdmin
    <2>5. HeldIsBacked'
      BY <1>3, SMTT(60) DEF TdTake, Goto, EmptyAdmin
    <2>6. StopperIsAlone' /\ RowGoesLast' /\ DownIsEmpty'
      BY <1>3, SMTT(60) DEF TdTake, Goto, EmptyAdmin
    <2> QED
      BY <2>1, <2>2, <2>3, <2>4, <2>5, <2>6
  <1>4. CASE TdAdmin(t)
    BY <1>4, SMTT(200) DEF TdAdmin, Goto, ShutBoth, KillHelper
  <1>5. CASE TdWorker(t)
    BY <1>5, SMTT(200) DEF TdWorker, Goto, ShutBoth, KillHelper
  <1>6. CASE TdRow(t)
    BY <1>6, SMTT(200) DEF TdRow, Return, Home
  <1> QED
    BY <1>1, <1>2, <1>3, <1>4, <1>5, <1>6 DEF TeardownStep

\* A step of the sweeper.
LEMMA SweepIInv ==
    ASSUME IInv, SweepStep
    PROVE  IInv'
  <1> USE ConstantsAssumption
        DEF IInv, TypeOK, OneOwner, OneTeardown, LiveIsBacked, AdminIsBacked,
            UserWorkerHasRow, RefsAreLive, IsLive, HeldIsBacked, InsertIsFresh,
            DialogFirst, StopperIsAlone, RowGoesLast, DownIsEmpty,
            HoldsConv, TearsDown, Tasks, Option, PCs
  <1>1. CASE SweepBegin
    BY <1>1, SMTT(200) DEF SweepBegin
  <1>2. CASE SweepIdle
    BY <1>2, SMTT(200) DEF SweepIdle, Return, Home, Goto
  <1>3. CASE SweepExpire
    BY <1>3, SMTT(200) DEF SweepExpire, Return, Home, Goto, TakeSession
  <1>4. CASE SweepEnd
    BY <1>4, SMTT(200) DEF SweepEnd
  <1>5. ASSUME NEW s \in Convs, SweepAdmin(s)
        PROVE  IInv'
    <2>1. TypeOK'
      BY <1>5, SMTT(60) DEF SweepAdmin, Goto, EmptyAdmin
    <2>2. OneOwner' /\ OneTeardown'
      BY <1>5, SMTT(60) DEF SweepAdmin, Goto, EmptyAdmin
    <2>3. LiveIsBacked' /\ AdminIsBacked' /\ UserWorkerHasRow' /\ DialogFirst'
      BY <1>5, SMTT(60) DEF SweepAdmin, Goto, EmptyAdmin
    <2>4. RefsAreLive' /\ InsertIsFresh'
      BY <1>5, SMTT(60) DEF SweepAdmin, Goto, EmptyAdmin
    <2>5. HeldIsBacked'
      BY <1>5, SMTT(60) DEF SweepAdmin, Goto, EmptyAdmin
    <2>6. StopperIsAlone' /\ RowGoesLast' /\ DownIsEmpty'
      BY <1>5, SMTT(60) DEF SweepAdmin, Goto, EmptyAdmin
    <2> QED
      BY <2>1, <2>2, <2>3, <2>4, <2>5, <2>6
  <1> QED
    BY <1>1, <1>2, <1>3, <1>4, <1>5 DEF SweepStep

\* A step of the shutdown.
LEMMA StopIInv ==
    ASSUME IInv, StopBegin \/ StopStep
    PROVE  IInv'
  <1> USE ConstantsAssumption
        DEF IInv, TypeOK, OneOwner, OneTeardown, LiveIsBacked, AdminIsBacked,
            UserWorkerHasRow, RefsAreLive, IsLive, HeldIsBacked, InsertIsFresh,
            DialogFirst, StopperIsAlone, RowGoesLast, DownIsEmpty,
            HoldsConv, TearsDown, Tasks, Option, PCs
  <1>1. CASE StopBegin
    <2>1. /\ pc' = [pc EXCEPT ![Sweeper] = "idle", ![Stopper] = "drainPending"]
          /\ sess' = [sess EXCEPT ![Sweeper] = NoConv] /\ conv' = [conv EXCEPT ![Sweeper] = NoConv]
          /\ at' = [at EXCEPT ![Sweeper] = 0] /\ todo' = [todo EXCEPT ![Sweeper] = {}]
          /\ process = "running" /\ process' = "stopping"
          /\ UNCHANGED <<now, worker, of, stamp, authed, pending, sessions, admin, rows, elevated>>
      BY <1>1 DEF StopBegin, Cancel
    <2>2. \A c \in Convs :
            helper'[c] = helper[c] \/ (HoldsConv(Sweeper) /\ c = conv[Sweeper] /\ helper'[c] = "gone")
      BY <1>1 DEF StopBegin, Cancel
    <2>3. TypeOK'
      BY <1>1, <2>1 DEF StopBegin, Cancel
    <2>4. OneOwner' /\ OneTeardown' /\ UserWorkerHasRow' /\ RowGoesLast' /\ DownIsEmpty'
      BY <2>1
    <2>5. LiveIsBacked' /\ AdminIsBacked' /\ DialogFirst'
      BY <2>1, <2>2
    <2>6. RefsAreLive' /\ InsertIsFresh' /\ StopperIsAlone'
      BY <2>1, <2>2
    <2>7. HeldIsBacked'
      BY <2>1, <2>2
    <2> QED
      BY <2>3, <2>4, <2>5, <2>6, <2>7
  <1>2. CASE DrainPending
    BY <1>2, SMTT(200) DEF DrainPending
  <1>3. CASE DrainSessions
    BY <1>3, SMTT(200) DEF DrainSessions
  <1>4. CASE StopDone
    BY <1>4, SMTT(200) DEF StopDone
  <1>5. ASSUME NEW s \in Convs, StopNext(s)
        PROVE  IInv'
    BY <1>5, SMTT(200) DEF StopNext
  <1> QED
    BY <1>1, <1>2, <1>3, <1>4, <1>5 DEF StopStep

\* Dropped futures and Lives, the end and the start of the process, time.
LEMMA EnvironmentIInv ==
    ASSUME IInv, (\E r \in Reqs : Disconnect(r)) \/ (\E s \in Convs : DropLive(s)) \/ Die \/ New \/ Tick
    PROVE  IInv'
  <1> USE ConstantsAssumption
        DEF IInv, TypeOK, OneOwner, OneTeardown, LiveIsBacked, AdminIsBacked,
            UserWorkerHasRow, RefsAreLive, IsLive, HeldIsBacked, InsertIsFresh,
            DialogFirst, StopperIsAlone, RowGoesLast, DownIsEmpty,
            HoldsConv, TearsDown, Tasks, Option, PCs
  <1>1. ASSUME NEW r \in Reqs, Disconnect(r)
        PROVE  IInv'
    <2>1. /\ pc' = [pc EXCEPT ![r] = "idle"] /\ sess' = [sess EXCEPT ![r] = NoConv]
          /\ conv' = [conv EXCEPT ![r] = NoConv] /\ at' = [at EXCEPT ![r] = 0]
          /\ todo' = [todo EXCEPT ![r] = {}] /\ pc[r] # "idle"
          /\ UNCHANGED <<now, process, worker, of, stamp, authed, pending, sessions, admin, rows, elevated>>
      BY <1>1 DEF Disconnect, Cancel
    <2>2. \A c \in Convs : helper'[c] = helper[c] \/ (HoldsConv(r) /\ c = conv[r] /\ helper'[c] = "gone")
      BY <1>1 DEF Disconnect, Cancel
    <2>3. TypeOK'
      BY <1>1, <2>1 DEF Disconnect, Cancel
    <2>4. OneOwner' /\ OneTeardown' /\ UserWorkerHasRow' /\ RowGoesLast' /\ DownIsEmpty'
      BY <2>1
    <2>5. LiveIsBacked' /\ AdminIsBacked' /\ DialogFirst'
      BY <2>1, <2>2
    <2>6. RefsAreLive' /\ InsertIsFresh' /\ StopperIsAlone'
      BY <2>1, <2>2
    <2>7. HeldIsBacked'
      BY <2>1, <2>2
    <2> QED
      BY <2>3, <2>4, <2>5, <2>6, <2>7
  <1>2. ASSUME NEW s \in Convs, DropLive(s)
        PROVE  IInv'
    BY <1>2, SMTT(200) DEF DropLive, Referenced
  <1>3. CASE Die
    BY <1>3, SMTT(200) DEF Die
  <1>4. CASE New
    BY <1>4, SMTT(200) DEF New
  <1>5. CASE Tick
    BY <1>5, SMTT(200) DEF Tick
  <1> QED
    BY <1>1, <1>2, <1>3, <1>4, <1>5

\* Every step of the specification preserves the invariant.
LEMMA NextIInv == IInv /\ [Next]_vars => IInv'
  <1> SUFFICES ASSUME IInv, [Next]_vars
               PROVE  IInv'
    OBVIOUS
  <1>1. CASE UNCHANGED vars
    BY <1>1 DEF vars, IInv, TypeOK, OneOwner, OneTeardown, LiveIsBacked,
         AdminIsBacked, UserWorkerHasRow, RefsAreLive, IsLive, HeldIsBacked,
         InsertIsFresh, DialogFirst, StopperIsAlone, RowGoesLast, DownIsEmpty,
         HoldsConv, TearsDown
  <1>2. CASE Next
    BY <1>2, RequestIInv, HelperReplyIInv, RequestStepIInv, TeardownIInv,
       SweepIInv, StopIInv, EnvironmentIInv DEF Next
  <1> QED
    BY <1>1, <1>2

\* The invariant holds in every reachable state.
LEMMA Inductive == Spec => []IInv
  BY InitIInv, NextIInv, PTL DEF Spec

\* All variables keep their types.
THEOREM TypeCorrect == Spec => []TypeOK
  <1>1. IInv => TypeOK
    BY DEF IInv
  <1> QED
    BY <1>1, Inductive, PTL

\* No two owners: a pending dialog, a task, a session and an Admin slot never
\* share a helper (exchange takes the Pending out of the map before its IO).
THEOREM OwnersAreExclusive == Spec => []OneOwner
  <1>1. IInv => OneOwner
    BY DEF IInv
  <1> QED
    BY <1>1, Inductive, PTL

\* However many logouts, sweeps and shutdowns race, a session is torn down by
\* the one task that took it out of the map.
THEOREM TeardownIsExclusive == Spec => []OneTeardown
  <1>1. IInv => OneTeardown
    BY DEF IInv
  <1> QED
    BY <1>1, Inductive, PTL

\* A session one can look up has its helper, its worker and its rows.
THEOREM SessionsAreBacked == Spec => []LiveIsBacked
  <1>1. IInv => LiveIsBacked
    BY DEF IInv
  <1> QED
    BY <1>1, Inductive, PTL

\* An Admin slot holds running processes of a dialog opened for its session.
THEOREM AdminsAreBacked == Spec => []AdminIsBacked
  <1>1. IInv => AdminIsBacked
    BY DEF IInv
  <1> QED
    BY <1>1, Inductive, PTL

\* The rows of a user outlive the worker that runs for that user.
THEOREM RowsOutliveWorkers == Spec => []UserWorkerHasRow
  <1>1. IInv => UserWorkerHasRow
    BY DEF IInv
  <1> QED
    BY <1>1, Inductive, PTL
-----------------------------------------------------------------------------
\* What the run session_safety checks of owners: types, one owner, one teardown.
THEOREM OwnersStaySingle == Spec => []OwnersAreSingle
  <1>1. IInv => OwnersAreSingle
    BY DEF IInv, OwnersAreSingle
  <1> QED
    BY <1>1, Inductive, PTL

\* What it checks of sessions: backed sessions, backed elevations, and rows for
\* every user worker.
THEOREM SessionsStayWhole == Spec => []SessionsAreWhole
  <1>1. IInv => SessionsAreWhole
    BY DEF IInv, SessionsAreWhole
  <1> QED
    BY <1>1, Inductive, PTL

-----------------------------------------------------------------------------
(* What holds in instances without some of the faults.                     *)

\* The stopper has nothing to do until the process stops.
StopperRests == process = "running" => pc[Stopper] = "idle"

\* Every row is that of a session in the map, of a login on its way into it, or
\* of one that is being torn down.
RowIsExplained ==
    process = "running" =>
        \A s \in rows :
            \/ s \in sessions
            \/ \E t \in Tasks : pc[t] \in {"spawn", "insert"} /\ conv[t] = s /\ of[s] = NoConv
            \/ \E t \in Tasks : TearsDown(t) /\ sess[t] = s

\* At first there is no worker, no row and no task that could own one.
LEMMA InitCalm == Init => StopperRests /\ NoStrayUserWorker /\ RowIsExplained /\ ElevatedRowIsExplained
  BY ConstantsAssumption
     DEF Init, StopperRests, NoStrayUserWorker, RowIsExplained, ElevatedRowIsExplained, Tasks

\* Shutdown drains what it finds and calls nobody: the stopper is at rest between its steps.
LEMMA NextStopperRests ==
    ASSUME IInv, StopperRests, [Next]_vars
    PROVE  StopperRests'
  <1> USE ConstantsAssumption DEF StopperRests, IInv, TypeOK, Tasks
  <1>1. ASSUME NEW r \in Reqs, Request(r) \/ HelperReply(r) \/ RequestStep(r) \/ Disconnect(r)
        PROVE  StopperRests'
    <2>1. r # Stopper
      OBVIOUS
    <2>2. CASE Request(r)
      BY <2>1, <2>2, SMTT(60) DEF Request, StartAuth, Goto, Exchange, DropElevation, Lookup,
           ResolveHash, AdminWorker, Logout
    <2>3. CASE HelperReply(r)
      BY <2>1, <2>3, SMTT(60) DEF HelperReply, StartAuthReply, ExchangeReply, SpawnReply,
           Return, Home, Goto
    <2>4. CASE RequestStep(r)
      BY <2>1, <2>4, SMTT(60) DEF RequestStep, WrongEndpoint, LoginCreate, LoginInsert,
           ElevateLookup, ElevateMark, ElevateInstall, SwapOld, TakeAdmin, Refresh,
           Return, Home, Goto
    <2>5. CASE Disconnect(r)
      BY <2>1, <2>5, SMTT(60) DEF Disconnect
    <2> QED
      BY <1>1, <2>2, <2>3, <2>4, <2>5
  <1>2. ASSUME NEW t \in Tasks, TeardownStep(t)
        PROVE  StopperRests'
    BY <1>2, SMTT(60) DEF TeardownStep, DropAdmin, Unmark, TdTake, TdAdmin, TdWorker, TdRow,
         Return, Goto
  <1>3. CASE SweepStep
    BY <1>3, SMTT(60) DEF SweepStep, SweepBegin, SweepIdle, SweepExpire, SweepEnd, SweepAdmin,
         Return, Goto
  <1>4. CASE StopBegin \/ StopStep
    BY <1>4, SMTT(60) DEF StopBegin, StopStep, DrainPending, DrainSessions, StopDone, StopNext
  <1>5. CASE (\E s \in Convs : DropLive(s)) \/ Tick \/ UNCHANGED vars
    BY <1>5, SMTT(60) DEF DropLive, Tick, vars
  <1>6. CASE Die \/ New
    BY <1>6, SMTT(60) DEF Die, New, DownIsEmpty
  <1> QED
    BY <1>1, <1>2, <1>3, <1>4, <1>5, <1>6 DEF Next

\* Without dropped requests no user worker is left to itself: who takes a
\* session out of the map ends its worker.  NoStrayUserWorker is inductive
\* relative to IInv: a teardown reaches its row only past its worker
\* (RowGoesLast), and a restart finds no worker up (DownIsEmpty).
LEMMA NextNoStray ==
    ASSUME "disconnect" \notin Faults, IInv, StopperRests, NoStrayUserWorker, [Next]_vars
    PROVE  NoStrayUserWorker'
  <1> USE ConstantsAssumption
        DEF NoStrayUserWorker, IInv, TypeOK, TearsDown, Tasks, Option
  <1>0. CASE UNCHANGED vars
    BY <1>0 DEF vars
  <1>1. ASSUME NEW r \in Reqs, Request(r)
        PROVE  NoStrayUserWorker'
    <2>1. ASSUME NEW c \in Convs, NEW s \in Option, StartAuth(r, c, s)
          PROVE  NoStrayUserWorker'
      BY <2>1, SMTT(60) DEF StartAuth, Goto, DialogFirst
    <2>2. ASSUME NEW c \in Convs, Exchange(r, c)
          PROVE  NoStrayUserWorker'
      BY <2>2, SMTT(60) DEF Exchange, Goto
    <2>3. ASSUME NEW s \in Convs, DropElevation(r, s)
          PROVE  NoStrayUserWorker'
      BY <2>3, SMTT(60) DEF DropElevation, Lookup
    <2>4. ASSUME NEW s \in Convs, ResolveHash(r, s)
          PROVE  NoStrayUserWorker'
      BY <2>4, SMTT(60) DEF ResolveHash, Lookup
    <2>5. ASSUME NEW s \in Convs, AdminWorker(r, s)
          PROVE  NoStrayUserWorker'
      BY <2>5, SMTT(60) DEF AdminWorker
    <2>6. ASSUME NEW s \in Convs, Logout(r, s)
          PROVE  NoStrayUserWorker'
      BY <2>6, SMTT(60) DEF Logout, Lookup, TakeSession
    <2> QED
      BY <1>1, <2>1, <2>2, <2>3, <2>4, <2>5, <2>6 DEF Request
  <1>2. ASSUME NEW r \in Reqs, HelperReply(r)
        PROVE  NoStrayUserWorker'
    <2>1. CASE StartAuthReply(r)
      BY <2>1, SMTT(60) DEF StartAuthReply, Return, Home
    <2>2. CASE ExchangeReply(r)
      BY <2>2, SMTT(60) DEF ExchangeReply, Return, Home, Goto
    <2>3. CASE SpawnReply(r)
      BY <2>3, SMTT(60) DEF SpawnReply, Return, Home, Goto, HeldIsBacked, HoldsConv
    <2> QED
      BY <1>2, <2>1, <2>2, <2>3 DEF HelperReply
  <1>3. ASSUME NEW r \in Reqs, RequestStep(r)
        PROVE  NoStrayUserWorker'
    <2>1. CASE WrongEndpoint(r)
      BY <2>1, SMTT(60) DEF WrongEndpoint, Return, Home
    <2>2. CASE LoginCreate(r)
      BY <2>2, SMTT(60) DEF LoginCreate, Return, Home, Goto
    <2>3. CASE LoginInsert(r)
      BY <2>3, SMTT(60) DEF LoginInsert, Return, Home
    <2>4. CASE ElevateLookup(r)
      BY <2>4, SMTT(60) DEF ElevateLookup, Return, Home, Goto
    <2>5. CASE ElevateMark(r)
      BY <2>5, SMTT(60) DEF ElevateMark, Return, Home, Goto
    <2>6. CASE ElevateInstall(r)
      BY <2>6, SMTT(60) DEF ElevateInstall, Return, Home, Goto
    <2>7. CASE SwapOld(r)
      BY <2>7, SMTT(60) DEF SwapOld, Return, Home, ShutBoth
    <2>8. CASE TakeAdmin(r)
      BY <2>8, SMTT(60) DEF TakeAdmin, Return, Home, Goto
    <2>9. CASE Refresh(r)
      BY <2>9, SMTT(60) DEF Refresh, Return, Home
    <2> QED
      BY <1>3, <2>1, <2>2, <2>3, <2>4, <2>5, <2>6, <2>7, <2>8, <2>9 DEF RequestStep
  <1>4. ASSUME NEW t \in Tasks, TeardownStep(t)
        PROVE  NoStrayUserWorker'
    <2>1. CASE DropAdmin(t)
      BY <2>1, SMTT(60) DEF DropAdmin, Goto, ShutBoth
    <2>2. CASE Unmark(t)
      BY <2>2, SMTT(60) DEF Unmark, Return, Home, Goto
    <2>3. CASE TdTake(t)
      BY <2>3, SMTT(60) DEF TdTake, Goto
    <2>4. CASE TdAdmin(t)
      BY <2>4, SMTT(60) DEF TdAdmin, Goto, ShutBoth
    <2>5. CASE TdWorker(t)
      BY <2>5, SMTT(60) DEF TdWorker, Goto, ShutBoth
    <2>6. CASE TdRow(t)
      BY <2>6, SMTT(60) DEF TdRow, Return, Home, RowGoesLast
    <2> QED
      BY <1>4, <2>1, <2>2, <2>3, <2>4, <2>5, <2>6 DEF TeardownStep
  <1>5. CASE SweepStep
    <2>1. CASE SweepBegin
      BY <2>1, SMTT(60) DEF SweepBegin
    <2>2. CASE SweepIdle
      BY <2>2, SMTT(60) DEF SweepIdle, Return, Home, Goto
    <2>3. CASE SweepExpire
      BY <2>3, SMTT(60) DEF SweepExpire, Return, Home, Goto, TakeSession
    <2>4. CASE SweepEnd
      BY <2>4, SMTT(60) DEF SweepEnd
    <2>5. ASSUME NEW s \in Convs, SweepAdmin(s)
          PROVE  NoStrayUserWorker'
      BY <2>5, SMTT(60) DEF SweepAdmin, Goto
    <2> QED
      BY <1>5, <2>1, <2>2, <2>3, <2>4, <2>5 DEF SweepStep
  <1>6. CASE StopBegin \/ StopStep
    BY <1>6, SMTT(60) DEF StopBegin, StopStep, DrainPending, DrainSessions, StopDone,
         StopNext, StopperRests
  <1>7. ASSUME NEW s \in Convs, DropLive(s)
        PROVE  NoStrayUserWorker'
    BY <1>7, SMTT(60) DEF DropLive
  <1>8. CASE Die \/ New \/ Tick
    BY <1>8, SMTT(60) DEF Die, New, Tick, DownIsEmpty
  <1> QED
    BY <1>0, <1>1, <1>2, <1>3, <1>4, <1>5, <1>6, <1>7, <1>8 DEF Next, Disconnect

\* The same of the rows, when the database answers as well: a row is deleted by
\* the task that fails to make its session or that ends it.
LEMMA NextRows ==
    ASSUME Faults \subseteq {"crash"}, IInv, StopperRests, RowIsExplained, [Next]_vars
    PROVE  RowIsExplained'
  <1> USE ConstantsAssumption
        DEF RowIsExplained, IInv, TypeOK, TearsDown, Tasks, Option
  <1>0. CASE UNCHANGED vars
    BY <1>0 DEF vars
  <1>1. ASSUME NEW r \in Reqs, Request(r)
        PROVE  RowIsExplained'
    <2>1. ASSUME NEW c \in Convs, NEW s \in Option, StartAuth(r, c, s)
          PROVE  RowIsExplained'
      BY <2>1, SMTT(60) DEF StartAuth, Goto, HeldIsBacked, HoldsConv
    <2>2. ASSUME NEW c \in Convs, Exchange(r, c)
          PROVE  RowIsExplained'
      BY <2>2, SMTT(60) DEF Exchange, Goto
    <2>3. ASSUME NEW s \in Convs, DropElevation(r, s)
          PROVE  RowIsExplained'
      BY <2>3, SMTT(60) DEF DropElevation, Lookup
    <2>4. ASSUME NEW s \in Convs, ResolveHash(r, s)
          PROVE  RowIsExplained'
      BY <2>4, SMTT(60) DEF ResolveHash, Lookup
    <2>5. ASSUME NEW s \in Convs, AdminWorker(r, s)
          PROVE  RowIsExplained'
      BY <2>5, SMTT(60) DEF AdminWorker
    <2>6. ASSUME NEW s \in Convs, Logout(r, s)
          PROVE  RowIsExplained'
      BY <2>6, SMTT(60) DEF Logout, Lookup, TakeSession
    <2> QED
      BY <1>1, <2>1, <2>2, <2>3, <2>4, <2>5, <2>6 DEF Request
  <1>2. ASSUME NEW r \in Reqs, HelperReply(r)
        PROVE  RowIsExplained'
    <2>1. CASE StartAuthReply(r)
      BY <2>1, SMTT(60) DEF StartAuthReply, Return, Home
    <2>2. CASE ExchangeReply(r)
      BY <2>2, SMTT(60) DEF ExchangeReply, Return, Home, Goto
    <2>3. CASE SpawnReply(r)
      <3>1. PICK c \in Convs : c = conv[r]
        BY <2>3 DEF SpawnReply, HeldIsBacked, HoldsConv
      <3>2. CASE rows' = rows /\ sess' = sess /\ conv' = conv /\ of[c] = NoConv
                   /\ Goto(r, "insert")
        BY <2>3, <3>2, SMTT(60) DEF SpawnReply, Goto
      <3>3. CASE /\ rows' = rows /\ of[c] # NoConv
                 /\ Return(r) \/ (Goto(r, "mark") /\ UNCHANGED <<sess, conv>>)
        BY <2>3, <3>1, <3>3, SMTT(60) DEF SpawnReply, Return, Home, Goto
      <3>4. CASE rows' = rows \ {c} /\ Return(r)
        BY <2>3, <3>1, <3>4, SMTT(60) DEF SpawnReply, Return, Home
      <3> QED
        <4>1. "db" \notin Faults
          OBVIOUS
        <4>2. CASE of[c] = NoConv
          BY <2>3, <3>1, <3>2, <3>4, <4>1, <4>2 DEF SpawnReply
        <4>3. CASE of[c] # NoConv
          BY <2>3, <3>1, <3>3, <4>1, <4>3 DEF SpawnReply, Goto
        <4> QED
          BY <4>2, <4>3
    <2> QED
      BY <1>2, <2>1, <2>2, <2>3 DEF HelperReply
  <1>3. ASSUME NEW r \in Reqs, RequestStep(r)
        PROVE  RowIsExplained'
    <2>1. CASE WrongEndpoint(r)
      BY <2>1, SMTT(60) DEF WrongEndpoint, Return, Home
    <2>2. CASE LoginCreate(r)
      BY <2>2, SMTT(60) DEF LoginCreate, Goto
    <2>3. CASE LoginInsert(r)
      BY <2>3, SMTT(60) DEF LoginInsert, Return, Home
    <2>4. CASE ElevateLookup(r)
      BY <2>4, SMTT(60) DEF ElevateLookup, Return, Home, Goto
    <2>5. CASE ElevateMark(r)
      BY <2>5, SMTT(60) DEF ElevateMark, Goto
    <2>6. CASE ElevateInstall(r)
      BY <2>6, SMTT(60) DEF ElevateInstall, Return, Home, Goto
    <2>7. CASE SwapOld(r)
      BY <2>7, SMTT(60) DEF SwapOld, Return, Home
    <2>8. CASE TakeAdmin(r)
      BY <2>8, SMTT(60) DEF TakeAdmin, Return, Home, Goto
    <2>9. CASE Refresh(r)
      BY <2>9, SMTT(60) DEF Refresh, Return, Home
    <2> QED
      BY <1>3, <2>1, <2>2, <2>3, <2>4, <2>5, <2>6, <2>7, <2>8, <2>9 DEF RequestStep
  <1>4. ASSUME NEW t \in Tasks, TeardownStep(t)
        PROVE  RowIsExplained'
    <2>1. CASE DropAdmin(t)
      BY <2>1, SMTT(60) DEF DropAdmin, Goto
    <2>2. CASE Unmark(t)
      BY <2>2, SMTT(60) DEF Unmark, Return, Home, Goto
    <2>3. CASE TdTake(t)
      BY <2>3, SMTT(60) DEF TdTake, Goto
    <2>4. CASE TdAdmin(t)
      BY <2>4, SMTT(60) DEF TdAdmin, Goto
    <2>5. CASE TdWorker(t)
      BY <2>5, SMTT(60) DEF TdWorker, Goto
    <2>6. CASE TdRow(t)
      BY <2>6, SMTT(60) DEF TdRow, Return, Home
    <2> QED
      BY <1>4, <2>1, <2>2, <2>3, <2>4, <2>5, <2>6 DEF TeardownStep
  <1>5. CASE SweepStep
    <2>1. CASE SweepBegin
      BY <2>1, SMTT(60) DEF SweepBegin
    <2>2. CASE SweepIdle
      BY <2>2, SMTT(60) DEF SweepIdle, Return, Home, Goto
    <2>3. CASE SweepExpire
      BY <2>3, SMTT(60) DEF SweepExpire, Return, Home, Goto, TakeSession
    <2>4. CASE SweepEnd
      BY <2>4, SMTT(60) DEF SweepEnd
    <2>5. ASSUME NEW s \in Convs, SweepAdmin(s)
          PROVE  RowIsExplained'
      BY <2>5, SMTT(60) DEF SweepAdmin, Goto
    <2> QED
      BY <1>5, <2>1, <2>2, <2>3, <2>4, <2>5 DEF SweepStep
  <1>6. CASE StopBegin \/ StopStep
    BY <1>6, SMTT(60) DEF StopBegin, StopStep, DrainPending, DrainSessions, StopDone,
         StopNext, StopperRests
  <1>7. ASSUME NEW s \in Convs, DropLive(s)
        PROVE  RowIsExplained'
    BY <1>7, SMTT(60) DEF DropLive
  <1>8. CASE Die \/ New \/ Tick
    BY <1>8, SMTT(60) DEF Die, New, Tick, DownIsEmpty
  <1> QED
    BY <1>0, <1>1, <1>2, <1>3, <1>4, <1>5, <1>6, <1>7, <1>8 DEF Next, Disconnect

\* And of the flag in the row.  A Live that is dropped with its Admin has no row
\* any more (RowIsExplained), so its flag is not left behind.
LEMMA NextElevated ==
    ASSUME Faults \subseteq {"crash"}, IInv, StopperRests, RowIsExplained,
           ElevatedRowIsExplained, [Next]_vars
    PROVE  ElevatedRowIsExplained'
  <1> USE ConstantsAssumption
        DEF ElevatedRowIsExplained, IInv, TypeOK, TearsDown, Tasks, Option
  <1>0. CASE UNCHANGED vars
    BY <1>0 DEF vars
  <1>1. ASSUME NEW r \in Reqs, Request(r)
        PROVE  ElevatedRowIsExplained'
    <2>1. ASSUME NEW c \in Convs, NEW s \in Option, StartAuth(r, c, s)
          PROVE  ElevatedRowIsExplained'
      BY <2>1, SMTT(60) DEF StartAuth, Goto
    <2>2. ASSUME NEW c \in Convs, Exchange(r, c)
          PROVE  ElevatedRowIsExplained'
      BY <2>2, SMTT(60) DEF Exchange, Goto
    <2>3. ASSUME NEW s \in Convs, DropElevation(r, s)
          PROVE  ElevatedRowIsExplained'
      BY <2>3, SMTT(60) DEF DropElevation, Lookup
    <2>4. ASSUME NEW s \in Convs, ResolveHash(r, s)
          PROVE  ElevatedRowIsExplained'
      BY <2>4, SMTT(60) DEF ResolveHash, Lookup
    <2>5. ASSUME NEW s \in Convs, AdminWorker(r, s)
          PROVE  ElevatedRowIsExplained'
      BY <2>5, SMTT(60) DEF AdminWorker
    <2>6. ASSUME NEW s \in Convs, Logout(r, s)
          PROVE  ElevatedRowIsExplained'
      BY <2>6, SMTT(60) DEF Logout, Lookup, TakeSession
    <2> QED
      BY <1>1, <2>1, <2>2, <2>3, <2>4, <2>5, <2>6 DEF Request
  <1>2. ASSUME NEW r \in Reqs, HelperReply(r)
        PROVE  ElevatedRowIsExplained'
    <2>1. CASE StartAuthReply(r)
      BY <2>1, SMTT(60) DEF StartAuthReply, Return, Home
    <2>2. CASE ExchangeReply(r)
      BY <2>2, SMTT(60) DEF ExchangeReply, Return, Home, Goto
    <2>3. CASE SpawnReply(r)
      BY <2>3, SMTT(60) DEF SpawnReply, Return, Home, Goto
    <2> QED
      BY <1>2, <2>1, <2>2, <2>3 DEF HelperReply
  <1>3. ASSUME NEW r \in Reqs, RequestStep(r)
        PROVE  ElevatedRowIsExplained'
    <2>1. CASE WrongEndpoint(r)
      BY <2>1, SMTT(60) DEF WrongEndpoint, Return, Home
    <2>2. CASE LoginCreate(r)
      BY <2>2, SMTT(60) DEF LoginCreate, Goto
    <2>3. CASE LoginInsert(r)
      BY <2>3, SMTT(60) DEF LoginInsert, Return, Home
    <2>4. CASE ElevateLookup(r)
      BY <2>4, SMTT(60) DEF ElevateLookup, Return, Home, Goto
    <2>5. CASE ElevateMark(r)
      BY <2>5, SMTT(60) DEF ElevateMark, Goto, SetElevated
    <2>6. CASE ElevateInstall(r)
      BY <2>6, SMTT(60) DEF ElevateInstall, Return, Home, Goto, HeldIsBacked, HoldsConv
    <2>7. CASE SwapOld(r)
      BY <2>7, SMTT(60) DEF SwapOld, Return, Home
    <2>8. CASE TakeAdmin(r)
      BY <2>8, SMTT(60) DEF TakeAdmin, Return, Home, Goto, EmptyAdmin
    <2>9. CASE Refresh(r)
      BY <2>9, SMTT(60) DEF Refresh, Return, Home
    <2> QED
      BY <1>3, <2>1, <2>2, <2>3, <2>4, <2>5, <2>6, <2>7, <2>8, <2>9 DEF RequestStep
  <1>4. ASSUME NEW t \in Tasks, TeardownStep(t)
        PROVE  ElevatedRowIsExplained'
    <2>1. CASE DropAdmin(t)
      BY <2>1, SMTT(60) DEF DropAdmin, Goto
    <2>2. CASE Unmark(t)
      BY <2>2, SMTT(60) DEF Unmark, Return, Home, Goto, ClearElevated
    <2>3. CASE TdTake(t)
      BY <2>3, SMTT(60) DEF TdTake, Goto, EmptyAdmin
    <2>4. CASE TdAdmin(t)
      BY <2>4, SMTT(60) DEF TdAdmin, Goto
    <2>5. CASE TdWorker(t)
      BY <2>5, SMTT(60) DEF TdWorker, Goto
    <2>6. CASE TdRow(t)
      BY <2>6, SMTT(60) DEF TdRow, Return, Home
    <2> QED
      BY <1>4, <2>1, <2>2, <2>3, <2>4, <2>5, <2>6 DEF TeardownStep
  <1>5. CASE SweepStep
    <2>1. CASE SweepBegin
      BY <2>1, SMTT(60) DEF SweepBegin
    <2>2. CASE SweepIdle
      BY <2>2, SMTT(60) DEF SweepIdle, Return, Home, Goto
    <2>3. CASE SweepExpire
      BY <2>3, SMTT(60) DEF SweepExpire, Return, Home, Goto, TakeSession
    <2>4. CASE SweepEnd
      BY <2>4, SMTT(60) DEF SweepEnd
    <2>5. ASSUME NEW s \in Convs, SweepAdmin(s)
          PROVE  ElevatedRowIsExplained'
      BY <2>5, SMTT(60) DEF SweepAdmin, Goto, EmptyAdmin
    <2> QED
      BY <1>5, <2>1, <2>2, <2>3, <2>4, <2>5 DEF SweepStep
  <1>6. CASE StopBegin \/ StopStep
    BY <1>6, SMTT(60) DEF StopBegin, StopStep, DrainPending, DrainSessions, StopDone,
         StopNext, StopperRests
  <1>7. ASSUME NEW s \in Convs, DropLive(s)
        PROVE  ElevatedRowIsExplained'
    <2>1. process = "running" => s \notin rows
      BY <1>7 DEF DropLive, Referenced, RowIsExplained
    <2>2. \A x \in Convs : x # s => admin'[x] = admin[x]
      BY <1>7 DEF DropLive
    <2>3. process = "running" => s \notin elevated
      BY <2>1
    <2>4. /\ UNCHANGED <<process, elevated, pc, sess>>
          /\ elevated \subseteq Convs
      BY <1>7 DEF DropLive
    <2> QED
      BY <2>2, <2>3, <2>4
  <1>8. CASE Die \/ New \/ Tick
    BY <1>8, SMTT(60) DEF Die, New, Tick, DownIsEmpty
  <1> QED
    BY <1>0, <1>1, <1>2, <1>3, <1>4, <1>5, <1>6, <1>7, <1>8 DEF Next, Disconnect

\* Whatever the database does and wherever the process dies: while it runs and no
\* request is dropped, a user worker belongs to a session in the map or to one
\* that is on its way into or out of it.  Logout, sweep and the error paths of a
\* login leave none behind.
THEOREM UserWorkersAreOwned ==
    ASSUME "disconnect" \notin Faults
    PROVE  Spec => []NoStrayUserWorker
  <1>1. Init => IInv /\ StopperRests /\ NoStrayUserWorker
    BY InitIInv, InitCalm
  <1>2. /\ IInv /\ StopperRests /\ NoStrayUserWorker
        /\ [Next]_vars
        => (IInv /\ StopperRests /\ NoStrayUserWorker)'
    BY NextIInv, NextStopperRests, NextNoStray
  <1> QED
    BY <1>1, <1>2, PTL DEF Spec

\* While the database answers, a row is never left behind by the session it was
\* written for: the restart's prune only has to deal with the rows of a crash.
THEOREM RowsAreExplained ==
    ASSUME Faults \subseteq {"crash"}
    PROVE  Spec => []RowIsExplained
  <1>1. Init => IInv /\ StopperRests /\ RowIsExplained
    BY InitIInv, InitCalm
  <1>2. IInv /\ StopperRests /\ RowIsExplained /\ [Next]_vars
        => (IInv /\ StopperRests /\ RowIsExplained)'
    BY NextIInv, NextStopperRests, NextRows
  <1> QED
    BY <1>1, <1>2, PTL DEF Spec

\* A row says "elevated" only while its session has an Admin, or a task is about
\* to install one, to clear the flag or to tear the session down.
THEOREM ElevationsAreExplained ==
    ASSUME Faults \subseteq {"crash"}
    PROVE  Spec => []ElevatedRowIsExplained
  <1>1. Init => IInv /\ StopperRests /\ RowIsExplained /\ ElevatedRowIsExplained
    BY InitIInv, InitCalm
  <1>2. /\ IInv /\ StopperRests /\ RowIsExplained /\ ElevatedRowIsExplained
        /\ [Next]_vars
        => (IInv /\ StopperRests /\ RowIsExplained /\ ElevatedRowIsExplained)'
    BY NextIInv, NextStopperRests, NextRows, NextElevated
  <1> QED
    BY <1>1, <1>2, PTL DEF Spec
=============================================================================
