----------------------- MODULE TerminalRegistryProofs -----------------------
(***************************************************************************)
(* The safety properties of TerminalRegistry for every set of sessions,    *)
(* terminals and requests, every limit and all faults.  The invariant IInv *)
(* is shown to be inductive in two halves: the counts (LimitHolds and      *)
(* PlacesAreAccounted, by the theorems about cardinalities) and the rest   *)
(* (who may close what, by case analysis over the actions).                *)
(*                                                                         *)
(* That no running shell is let go needs more, and that no call is dropped *)
(* or times out: a closer that loses a terminal gives up its place on the  *)
(* list for good, so a closed terminal must be in the hands of the winner, *)
(* and a sweep that has only looked at its candidates counts for nothing.  *)
(***************************************************************************)
EXTENDS TerminalRegistry, FiniteSetTheorems, TLAPS

\* The counts of one session are those of finite sets.
LEMMA CountsAreNat ==
    ASSUME TypeOK, NEW s \in Sessions
    PROVE  /\ IsFiniteSet(TermsOf(s)) /\ Cardinality(TermsOf(s)) \in Nat
           /\ IsFiniteSet(OpensOf(s)) /\ Cardinality(OpensOf(s)) \in Nat
  <1>1. IsFiniteSet(Terms) /\ IsFiniteSet(Reqs)
    BY ConstantsAssumption
  <1>2. TermsOf(s) \in SUBSET Terms /\ OpensOf(s) \in SUBSET Reqs
    BY DEF TermsOf, OpensOf, TypeOK
  <1>3. IsFiniteSet(TermsOf(s)) /\ IsFiniteSet(OpensOf(s))
    BY <1>1, <1>2, FS_Subset
  <1> QED
    BY <1>3, FS_CardinalityType

\* A step that touches no reservation and adds nothing to the table.
LEMMA CountsUntouched ==
    ASSUME IInv, UNCHANGED <<reserving, opening, owner>>, table' \subseteq table
    PROVE  reserving' \in [Sessions -> Nat] /\ LimitHolds' /\ PlacesAreAccounted'
  <1>1. reserving' \in [Sessions -> Nat]
    BY DEF IInv, TypeOK
  <1>2. ASSUME NEW s \in Sessions
        PROVE  /\ reserving'[s] = Cardinality(OpensOf(s)')
               /\ Cardinality(TermsOf(s)') + reserving'[s] <= MaxPerSession
    <2>1. OpensOf(s)' = OpensOf(s)
      BY DEF OpensOf
    <2>2. TermsOf(s)' \in SUBSET TermsOf(s)
      BY DEF TermsOf
    <2>3. IsFiniteSet(TermsOf(s)) /\ Cardinality(TermsOf(s)) \in Nat
      BY CountsAreNat DEF IInv
    <2>4. IsFiniteSet(TermsOf(s)') /\ Cardinality(TermsOf(s)') <= Cardinality(TermsOf(s))
      BY <2>2, <2>3, FS_Subset
    <2>5. Cardinality(TermsOf(s)') \in Nat
      BY <2>4, FS_CardinalityType
    <2> QED
      BY <1>1, <2>1, <2>3, <2>4, <2>5, ConstantsAssumption
         DEF IInv, TypeOK, LimitHolds, PlacesAreAccounted
  <1> QED
    BY <1>1, <1>2 DEF LimitHolds, PlacesAreAccounted

\* reserve() finds a place free and takes it.
LEMMA CountsReserve ==
    ASSUME IInv, NEW r \in Reqs, NEW t \in Terms, Reserve(r, t)
    PROVE  reserving' \in [Sessions -> Nat] /\ LimitHolds' /\ PlacesAreAccounted'
  <1> DEFINE s == asking[r]
  <1>1. s \in Sessions /\ table' = table
    BY DEF Reserve, IInv, TypeOK
  <1>2. CASE Full(s)
    BY <1>1, <1>2, CountsUntouched DEF Reserve
  <1>3. CASE ~Full(s)
    <2>1. /\ owner[t] = None
          /\ reserving' = [reserving EXCEPT ![s] = @ + 1]
          /\ owner' = [owner EXCEPT ![t] = s]
          /\ opening' = [opening EXCEPT ![r] = t]
      BY <1>1, <1>3 DEF Reserve
    <2>2. reserving' \in [Sessions -> Nat]
      BY <1>1, <2>1 DEF IInv, TypeOK
    <2>3. opening[r] = None
      \* asking and opening are never both set.
      BY DEF IInv, TypeOK, Reserve, OneStage
    <2>4. t \notin table /\ \A q \in Reqs : opening[q] # t
      BY <2>1, ConstantsAssumption DEF IInv, OpeningIsFresh, UncommittedIsUnknown, TypeOK
    <2>5. ASSUME NEW u \in Sessions
          PROVE  /\ reserving'[u] = Cardinality(OpensOf(u)')
                 /\ Cardinality(TermsOf(u)') + reserving'[u] <= MaxPerSession
      <3>1. TermsOf(u)' = TermsOf(u)
        BY <1>1, <2>1, <2>4 DEF TermsOf, IInv, TypeOK
      <3>2. IsFiniteSet(OpensOf(u)) /\ Cardinality(OpensOf(u)) \in Nat
            /\ Cardinality(TermsOf(u)) \in Nat
        BY CountsAreNat DEF IInv
      <3>3. CASE u = s
        <4>1. OpensOf(u)' = OpensOf(u) \cup {r} /\ r \notin OpensOf(u)
          BY <1>1, <2>1, <2>3, <2>4, <3>3, ConstantsAssumption DEF OpensOf, IInv, TypeOK
        <4>2. Cardinality(OpensOf(u)') = Cardinality(OpensOf(u)) + 1
          BY <3>2, <4>1, FS_AddElement
        <4> QED
          BY <1>1, <1>3, <2>1, <3>1, <3>2, <3>3, <4>2, ConstantsAssumption
             DEF Full, IInv, TypeOK, PlacesAreAccounted
      <3>4. CASE u # s
        <4>1. OpensOf(u)' = OpensOf(u)
          BY <1>1, <2>1, <2>3, <2>4, <3>4, ConstantsAssumption DEF OpensOf, IInv, TypeOK
        <4> QED
          BY <1>1, <2>1, <3>1, <3>4, <4>1 DEF IInv, TypeOK, LimitHolds, PlacesAreAccounted
      <3> QED
        BY <3>3, <3>4
    <2> QED
      BY <2>2, <2>5 DEF LimitHolds, PlacesAreAccounted
  <1> QED
    BY <1>2, <1>3

\* The open of request r ends: its place is given back, and the terminal is in
\* the table (new = {t}) or not (new = {}).
LEMMA CountsRelease ==
    ASSUME IInv, NEW r \in Reqs, opening[r] # None,
           NEW new \in SUBSET {opening[r]},
           table' = table \cup new,
           reserving' = Release(owner[opening[r]]),
           opening' = [opening EXCEPT ![r] = None],
           owner' = owner
    PROVE  reserving' \in [Sessions -> Nat] /\ LimitHolds' /\ PlacesAreAccounted'
  <1> DEFINE t == opening[r]
             s == owner[t]
  <1>1. t \in Terms /\ s \in Sessions /\ t \notin table
    BY DEF IInv, TypeOK, OpeningIsFresh, UncommittedIsUnknown
  <1>2. r \in OpensOf(s)
    BY DEF OpensOf
  <1>3. reserving' = [reserving EXCEPT ![s] = @ - 1]
    BY DEF Release
  <1>4. ASSUME NEW u \in Sessions
        PROVE  /\ reserving'[u] \in Nat
               /\ reserving'[u] = Cardinality(OpensOf(u)')
               /\ Cardinality(TermsOf(u)') + reserving'[u] <= MaxPerSession
    <2>1. /\ IsFiniteSet(OpensOf(u)) /\ Cardinality(OpensOf(u)) \in Nat
          /\ IsFiniteSet(TermsOf(u)) /\ Cardinality(TermsOf(u)) \in Nat
      BY CountsAreNat DEF IInv
    <2>2. CASE u = s
      <3>1. OpensOf(u)' = OpensOf(u) \ {r}
        BY <1>1, <2>2 DEF OpensOf, IInv, TypeOK
      <3>2. Cardinality(OpensOf(u)') = Cardinality(OpensOf(u)) - 1
            /\ Cardinality(OpensOf(u)') \in Nat
        BY <1>2, <2>1, <2>2, <3>1, FS_RemoveElement, FS_CardinalityType
      <3>3. TermsOf(u)' = TermsOf(u) \/ TermsOf(u)' = TermsOf(u) \cup {t}
        BY <1>1, <2>2 DEF TermsOf
      <3>4. Cardinality(TermsOf(u)') \in Nat
            /\ Cardinality(TermsOf(u)') <= Cardinality(TermsOf(u)) + 1
        BY <2>1, <3>3, FS_AddElement
      <3> QED
        BY <1>1, <1>3, <2>1, <2>2, <3>2, <3>4, ConstantsAssumption
           DEF IInv, TypeOK, LimitHolds, PlacesAreAccounted
    <2>3. CASE u # s
      <3>1. OpensOf(u)' = OpensOf(u)
        BY <1>1, <2>3 DEF OpensOf, IInv, TypeOK
      <3>2. TermsOf(u)' = TermsOf(u)
        BY <1>1, <2>3 DEF TermsOf
      <3> QED
        BY <1>1, <1>3, <2>3, <3>1, <3>2 DEF IInv, TypeOK, LimitHolds, PlacesAreAccounted
    <2> QED
      BY <2>2, <2>3
  <1>5. reserving' \in [Sessions -> Nat]
    BY <1>3, <1>4 DEF IInv, TypeOK
  <1> QED
    BY <1>4, <1>5 DEF LimitHolds, PlacesAreAccounted

\* The counts survive every step.
LEMMA CountsStep ==
    ASSUME IInv, [Next]_vars
    PROVE  reserving' \in [Sessions -> Nat] /\ LimitHolds' /\ PlacesAreAccounted'
  <1>1. CASE \E r \in Reqs, t \in Terms : Reserve(r, t)
    BY <1>1, CountsReserve
  <1>2. ASSUME NEW r \in Reqs, OpenOk(r)
        PROVE  reserving' \in [Sessions -> Nat] /\ LimitHolds' /\ PlacesAreAccounted'
    BY <1>2, CountsRelease DEF OpenOk, Commit
  <1>3. ASSUME NEW r \in Reqs, OpenErr(r)
        PROVE  reserving' \in [Sessions -> Nat] /\ LimitHolds' /\ PlacesAreAccounted'
    BY <1>3, CountsRelease, table' = table \cup {} DEF OpenErr
  <1>4. ASSUME NEW r \in Reqs, Disconnect(r)
        PROVE  reserving' \in [Sessions -> Nat] /\ LimitHolds' /\ PlacesAreAccounted'
    <2>1. CASE opening[r] # None
      BY <1>4, <2>1, CountsRelease, table' = table \cup {} DEF Disconnect
    <2>2. CASE opening[r] = None
      <3>1. opening' = opening
        BY <1>4, <2>2 DEF Disconnect, IInv, TypeOK
      <3> QED
        BY <1>4, <2>2, <3>1, CountsUntouched DEF Disconnect
    <2> QED
      BY <2>1, <2>2
  <1>5. ASSUME UNCHANGED <<reserving, opening, owner>> /\ table' \subseteq table
        PROVE  reserving' \in [Sessions -> Nat] /\ LimitHolds' /\ PlacesAreAccounted'
    BY <1>5, CountsUntouched
  <1>6. ASSUME NEW r \in Reqs,
               \/ \E s \in Sessions : OpenRequest(r, s)
               \/ (\E t \in Terms : Close(r, t)) \/ Finish(r)
        PROVE  UNCHANGED <<reserving, opening, owner>> /\ table' \subseteq table
    BY <1>6 DEF OpenRequest, Close, Finish, Delist
  <1>7. ASSUME NEW a \in Closers, CloserStep(a)
        PROVE  UNCHANGED <<reserving, opening, owner>> /\ table' \subseteq table
    BY <1>7 DEF CloserStep, ShutdownEnds, Shutdown
  <1>8. ASSUME NEW t \in Terms,
               WorkerOpens(t) \/ ShellExits(t) \/ PumpStep(t) \/ PumpFails(t) \/ Attach(t)
               \/ Detach(t) \/ Output(t) \/ Quiet(t)
        PROVE  UNCHANGED <<reserving, opening, owner>> /\ table' \subseteq table
    BY <1>8 DEF WorkerOpens, ShellExits, PumpStep, PumpEof, PumpFails, PumpStops, PumpFinish, PumpMoves,
                Attach, Detach, Output, Quiet, Delist
  <1>9. ASSUME NEW s \in Sessions,
               CloseAllFor(s) \/ TeardownWorker(s) \/ TeardownDropped(s) \/ WorkerCrashes(s)
        PROVE  UNCHANGED <<reserving, opening, owner>> /\ table' \subseteq table
    BY <1>9 DEF CloseAllFor, TeardownWorker, TeardownDropped, WorkerCrashes, Delist
  <1>10. ASSUME SweepStep \/ UNCHANGED vars
         PROVE  UNCHANGED <<reserving, opening, owner>> /\ table' \subseteq table
    BY <1>10 DEF SweepStep, SweepScan, SweepRemove, SweepDone, Delist, vars
  <1> QED
    BY <1>1, <1>2, <1>3, <1>4, <1>5, <1>6, <1>7, <1>8, <1>9, <1>10 DEF Next, OpenStep

-----------------------------------------------------------------------------
(* The rest of the invariant, action by action.                            *)

\* The part of IInv that is not about counts.
Structure ==
    /\ TypeOK /\ OneCloser /\ ListedIsOpen
    /\ OpeningIsFresh /\ UncommittedIsUnknown /\ OneStage

\* The steps of open().
LEMMA OpenStructure ==
    ASSUME Structure, reserving' \in [Sessions -> Nat],
           NEW r \in Reqs,
           (\E s \in Sessions : OpenRequest(r, s)) \/ OpenStep(r) \/ Disconnect(r)
    PROVE  Structure'
  <1> USE ConstantsAssumption
        DEF Structure, TypeOK, OneCloser, ListedIsOpen, OpeningIsFresh,
            UncommittedIsUnknown, OneStage, Closers
  <1>1. ASSUME NEW s \in Sessions, OpenRequest(r, s)
        PROVE  Structure'
    BY <1>1, SMTT(100) DEF OpenRequest, Free
  <1>2. ASSUME NEW t \in Terms, Reserve(r, t)
        PROVE  Structure'
    <2>1. CASE UNCHANGED <<owner, shell, opening>>
      BY <1>2, <2>1, SMTT(100) DEF Reserve
    <2>2. CASE /\ owner[t] = None
               /\ owner' = [owner EXCEPT ![t] = asking[r]]
               /\ shell' \in [Terms -> {"none", "asked", "running", "exited"}]
               /\ opening' = [opening EXCEPT ![r] = t]
      <3>1. TypeOK' /\ OneStage'
        BY <1>2, <2>2, SMTT(100) DEF Reserve
      <3>2. OneCloser' /\ ListedIsOpen'
        BY <1>2, <2>2, SMTT(100) DEF Reserve
      <3>3. \A q \in Reqs : opening[q] # t
        BY <2>2
      <3>4. OpeningIsFresh' /\ UncommittedIsUnknown'
        BY <1>2, <2>2, <3>3, SMTT(100) DEF Reserve
      <3> QED
        BY <3>1, <3>2, <3>4
    <2>3. shell' \in [Terms -> {"none", "asked", "running", "exited"}]
      <3>1. CASE shell' = shell
        BY <3>1
      <3>2. CASE shell' = [shell EXCEPT ![t] = IF asking[r] \in workerUp THEN "asked" ELSE "none"]
        BY <3>2
      <3> QED
        BY <1>2, <3>1, <3>2 DEF Reserve
    <2> QED
      BY <1>2, <2>1, <2>2, <2>3 DEF Reserve
  <1>3. CASE OpenOk(r)
    BY <1>3, SMTT(100) DEF OpenOk, Commit
  <1>4. CASE OpenErr(r)
    BY <1>4, SMTT(100) DEF OpenErr
  <1>5. CASE Disconnect(r)
    BY <1>5, SMTT(100) DEF Disconnect
  <1> QED
    BY <1>1, <1>2, <1>3, <1>4, <1>5 DEF OpenStep

\* A closer collects terminals: DELETE, EOF, the teardown and the sweep.
LEMMA CollectStructure ==
    ASSUME Structure, UNCHANGED reserving,
           \/ \E r \in Reqs : (\E t \in Terms : Close(r, t)) \/ Finish(r)
           \/ \E t \in Terms : PumpStep(t) \/ PumpFails(t)
           \/ \E s \in Sessions : CloseAllFor(s)
           \/ SweepStep
    PROVE  Structure'
  <1> USE ConstantsAssumption
        DEF Structure, TypeOK, OneCloser, ListedIsOpen, OpeningIsFresh,
            UncommittedIsUnknown, OneStage, Closers
  <1>1. ASSUME NEW r \in Reqs, NEW t \in Terms, Close(r, t)
        PROVE  Structure'
    BY <1>1, SMTT(100) DEF Close, Free
  <1>7. ASSUME NEW r \in Reqs, Finish(r)
        PROVE  Structure'
    BY <1>7, SMTT(100) DEF Finish, Delist
  <1>2. ASSUME NEW t \in Terms, PumpStep(t) \/ PumpFails(t)
        PROVE  Structure'
    <2>1. CASE PumpEof(t) \/ PumpFails(t)
      BY <2>1, SMTT(100) DEF PumpEof, PumpFails, PumpMoves
    <2>2. CASE PumpStops(t)
      BY <2>2, SMTT(100) DEF PumpStops, PumpMoves
    <2>3. CASE PumpFinish(t)
      BY <2>3, SMTT(100) DEF PumpFinish, PumpMoves, Delist
    <2> QED
      BY <1>2, <2>1, <2>2, <2>3 DEF PumpStep
  <1>3. ASSUME NEW s \in Sessions, CloseAllFor(s)
        PROVE  Structure'
    BY <1>3, SMTT(100) DEF CloseAllFor, Delist, TermsOf
  <1>4. CASE SweepScan
    BY <1>4, SMTT(100) DEF SweepScan
  <1>5. CASE SweepRemove
    BY <1>5, SMTT(100) DEF SweepRemove, Delist, StillListed
  <1>6. CASE SweepDone
    BY <1>6, SMTT(100) DEF SweepDone
  <1> QED
    BY <1>1, <1>2, <1>3, <1>4, <1>5, <1>6, <1>7 DEF SweepStep

\* shutdown(term): one closer wins, and the observer is called once.
LEMMA ShutdownStructure ==
    ASSUME Structure, NEW a \in Closers, CloserStep(a)
    PROVE  Structure'
  <1> USE ConstantsAssumption
        DEF Structure, TypeOK, OneCloser, ListedIsOpen, OpeningIsFresh,
            UncommittedIsUnknown, OneStage
  <1>1. ASSUME NEW t \in Terms, Shutdown(a, t)
        PROVE  Structure'
    BY <1>1, SMTT(100) DEF Shutdown, Claim
  <1>2. CASE ShutdownEnds(a)
    BY <1>2, SMTT(100) DEF ShutdownEnds
  <1> QED
    BY <1>1, <1>2 DEF CloserStep

\* The world around the registry.
LEMMA WorldStructure ==
    ASSUME Structure, UNCHANGED reserving,
           \/ \E t \in Terms : WorkerOpens(t) \/ ShellExits(t) \/ Attach(t)
                               \/ Detach(t) \/ Output(t) \/ Quiet(t)
           \/ \E s \in Sessions : TeardownWorker(s) \/ TeardownDropped(s) \/ WorkerCrashes(s)
           \/ UNCHANGED vars
    PROVE  Structure'
  <1> USE ConstantsAssumption
        DEF Structure, TypeOK, OneCloser, ListedIsOpen, OpeningIsFresh,
            UncommittedIsUnknown, OneStage, Closers
  <1>1. ASSUME NEW t \in Terms,
               WorkerOpens(t) \/ ShellExits(t) \/ Attach(t) \/ Detach(t) \/ Output(t) \/ Quiet(t)
        PROVE  Structure'
    BY <1>1, SMTT(100) DEF WorkerOpens, ShellExits, Attach, Detach, Output, Quiet
  <1>2. ASSUME NEW s \in Sessions, TeardownWorker(s) \/ WorkerCrashes(s)
        PROVE  Structure'
    <2>1. shell' \in [Terms -> {"none", "asked", "running", "exited"}]
      BY <1>2 DEF TeardownWorker, WorkerCrashes, ShellsWithout
    <2> QED
      BY <1>2, <2>1, SMTT(100) DEF TeardownWorker, WorkerCrashes
  <1>3. ASSUME NEW s \in Sessions, TeardownDropped(s)
        PROVE  Structure'
    BY <1>3, SMTT(100) DEF TeardownDropped
  <1>4. CASE UNCHANGED vars
    BY <1>4, SMTT(100) DEF vars
  <1> QED
    BY <1>1, <1>2, <1>3, <1>4

-----------------------------------------------------------------------------
\* The invariant holds at the start ...
LEMMA InitIInv == Init => IInv
  <1> SUFFICES ASSUME Init PROVE IInv
    OBVIOUS
  <1>1. ASSUME NEW s \in Sessions
        PROVE  Cardinality(OpensOf(s)) = 0 /\ Cardinality(TermsOf(s)) = 0
    <2>1. OpensOf(s) = {} /\ TermsOf(s) = {}
      BY DEF Init, OpensOf, TermsOf
    <2> QED
      BY <2>1, FS_EmptySet
  <1>2. LimitHolds /\ PlacesAreAccounted
    BY <1>1, ConstantsAssumption DEF Init, LimitHolds, PlacesAreAccounted
  <1>3. Structure
    BY ConstantsAssumption, SMTT(100)
       DEF Init, Structure, TypeOK, OneCloser, ListedIsOpen, OpeningIsFresh,
           UncommittedIsUnknown, OneStage, Closers
  <1> QED
    BY <1>2, <1>3 DEF IInv, Structure

\* ... and after every step.
LEMMA NextIInv == IInv /\ [Next]_vars => IInv'
  <1> SUFFICES ASSUME IInv, [Next]_vars PROVE IInv'
    OBVIOUS
  <1>1. reserving' \in [Sessions -> Nat] /\ LimitHolds' /\ PlacesAreAccounted'
    BY CountsStep
  <1>2. Structure
    BY DEF IInv, Structure
  <1>3. ASSUME NEW r \in Reqs,
               (\E s \in Sessions : OpenRequest(r, s)) \/ OpenStep(r) \/ Disconnect(r)
        PROVE  Structure'
    BY <1>1, <1>2, <1>3, OpenStructure
  <1>4. ASSUME \/ \E r \in Reqs : (\E t \in Terms : Close(r, t)) \/ Finish(r)
               \/ \E t \in Terms : PumpStep(t) \/ PumpFails(t)
               \/ \E s \in Sessions : CloseAllFor(s)
               \/ SweepStep
        PROVE  Structure'
    <2>1. UNCHANGED reserving
      BY <1>4 DEF Close, Finish, PumpStep, PumpEof, PumpFails, PumpStops, PumpFinish, PumpMoves,
                  CloseAllFor, SweepStep, SweepScan, SweepRemove, SweepDone
    <2> QED
      BY <1>2, <1>4, <2>1, CollectStructure
  <1>5. ASSUME NEW a \in Closers, CloserStep(a)
        PROVE  Structure'
    BY <1>2, <1>5, ShutdownStructure
  <1>6. ASSUME \/ \E t \in Terms : WorkerOpens(t) \/ ShellExits(t) \/ Attach(t)
                                   \/ Detach(t) \/ Output(t) \/ Quiet(t)
               \/ \E s \in Sessions : TeardownWorker(s) \/ TeardownDropped(s) \/ WorkerCrashes(s)
               \/ UNCHANGED vars
        PROVE  Structure'
    <2>1. UNCHANGED reserving
      BY <1>6 DEF WorkerOpens, ShellExits, Attach, Detach, Output, Quiet,
                  TeardownWorker, TeardownDropped, WorkerCrashes, vars
    <2> QED
      BY <1>2, <1>6, <2>1, WorldStructure
  <1>7. Structure'
    BY <1>3, <1>4, <1>5, <1>6 DEF Next
  <1> QED
    BY <1>1, <1>7 DEF IInv, Structure

\* The invariant holds in every reachable state.
LEMMA Inductive == Spec => []IInv
  BY InitIInv, NextIInv, PTL DEF Spec

-----------------------------------------------------------------------------
\* The types.
THEOREM TypeCorrect == Spec => []TypeOK
  BY Inductive, PTL DEF IInv

\* max_per_session is never exceeded, however opens, closes, errors, timeouts and
\* dropped requests interleave.
THEOREM LimitIsNeverPassed == Spec => []LimitHolds
  BY Inductive, PTL DEF IInv

\* reserve(), commit() and the Drop of a Reservation keep the account exact.
THEOREM PlacesAreNeverLost == Spec => []PlacesAreAccounted
  BY Inductive, PTL DEF IInv

\* Of all closers of a terminal one sends term.close and calls the observer.
THEOREM CloseIsOnce == Spec => []OneCloser
  BY Inductive, PTL DEF IInv

\* A terminal in the table is open and its pump reads.
THEOREM ListedTerminalsAreOpen == Spec => []ListedIsOpen
  BY Inductive, PTL DEF IInv
\* What the run terminal_safety checks of places: types, the limit and the account.
THEOREM PlacesAlwaysHold == Spec => []PlacesHold
  <1>1. IInv => PlacesHold
    BY DEF IInv, PlacesHold
  <1> QED
    BY <1>1, Inductive, PTL

\* What it checks of closes: one closer, and what is listed is open.
THEOREM ClosesStaySingle == Spec => []ClosesAreOnce
  <1>1. IInv => ClosesAreOnce
    BY DEF IInv, ClosesAreOnce
  <1> QED
    BY <1>1, Inductive, PTL
-----------------------------------------------------------------------------
(* No shell is let go.                                                     *)

\* A closer will run shutdown on the terminal, or does.  What a sweep has looked at but not
\* taken out does not count.
Holds(a, t) == busy[a] = t \/ (t \in doomed[a] /\ (a = Sweeper => sweep = "closing"))

\* A shell that runs outside of the table is held by a closer.
UnlistedIsHeld ==
    \A t \in Terms : shell[t] = "running" /\ pump[t] # "none" =>
        t \in table \/ \E a \in Closers : Holds(a, t)

\* A shell that runs in a closed terminal has the winner waiting for its end: whoever else has
\* it on a list may let go of it.
ClosedIsBusy == \A t \in closed : shell[t] = "running" => \E a \in Closers : busy[a] = t

\* The terminal of a term.open that has not been answered is not in use.
AskedIsFresh == \A t \in Terms : shell[t] = "asked" => pump[t] = "none"

\* What a pump, a DELETE and a teardown find in their lists when they write them.
ListsStartEmpty ==
    /\ \A t \in Terms : doomed[t] \subseteq {t}
    /\ \A r \in Reqs : found[r] # None => doomed[r] = {}
    /\ \A s \in Sessions : session[s] = "live" => doomed[s] = {}

HeldInv == UnlistedIsHeld /\ ClosedIsBusy /\ AskedIsFresh /\ ListsStartEmpty

\* The steps of open().
LEMMA OpenHeld ==
    ASSUME IInv, HeldInv, Faults \subseteq {"crash", "read"}, NEW r \in Reqs,
           (\E s \in Sessions : OpenRequest(r, s)) \/ OpenStep(r) \/ Disconnect(r)
    PROVE  HeldInv'
  <1> USE ConstantsAssumption
        DEF IInv, TypeOK, HeldInv, UnlistedIsHeld, ClosedIsBusy, AskedIsFresh, ListsStartEmpty, Holds
  <1>1. ASSUME NEW s \in Sessions, OpenRequest(r, s)
        PROVE  HeldInv'
    BY <1>1, SMTT(100) DEF OpenRequest
  <1>2. ASSUME NEW t \in Terms, Reserve(r, t)
        PROVE  HeldInv'
    <2>1. UNCHANGED <<session, table, pump, closed, found, doomed, busy, sweep>>
      BY <1>2 DEF Reserve
    <2>2. \A u \in Terms : /\ shell'[u] = "running" => shell[u] = "running"
                           /\ shell'[u] = "asked" => shell[u] = "asked" \/ pump[u] = "none"
      BY <1>2 DEF Reserve, UncommittedIsUnknown
    <2> QED
      BY <2>1, <2>2, SMTT(100)
  <1>3. CASE OpenOk(r)
    BY <1>3, SMTT(100) DEF OpenOk, Commit, OpeningIsFresh
  <1>4. CASE OpenErr(r)
    BY <1>4, SMTT(100) DEF OpenErr
  <1>5. CASE Disconnect(r)
    BY <1>5 DEF Disconnect
  <1> QED
    BY <1>1, <1>2, <1>3, <1>4, <1>5 DEF OpenStep

\* A closer collects terminals: what leaves the table is on its list.
LEMMA CollectHeld ==
    ASSUME IInv, HeldInv,
           \/ \E r \in Reqs : (\E t \in Terms : Close(r, t)) \/ Finish(r)
           \/ \E t \in Terms : PumpStep(t) \/ PumpFails(t)
           \/ \E s \in Sessions : CloseAllFor(s)
           \/ SweepStep
    PROVE  HeldInv'
  <1> USE ConstantsAssumption
        DEF IInv, TypeOK, HeldInv, UnlistedIsHeld, ClosedIsBusy, AskedIsFresh, ListsStartEmpty,
            Holds, Closers, Delist
  <1>1. ASSUME NEW r \in Reqs, NEW t \in Terms, Close(r, t)
        PROVE  HeldInv'
    BY <1>1, SMTT(100) DEF Close, Free
  <1>7. ASSUME NEW r \in Reqs, Finish(r)
        PROVE  HeldInv'
    BY <1>7, SMTT(100) DEF Finish
  <1>2. ASSUME NEW t \in Terms, PumpStep(t) \/ PumpFails(t)
        PROVE  HeldInv'
    <2>1. CASE PumpEof(t) \/ PumpFails(t)
      BY <2>1, SMTT(100) DEF PumpEof, PumpFails, PumpMoves
    <2>2. CASE PumpStops(t)
      BY <2>2, SMTT(100) DEF PumpStops, PumpMoves, ListedIsOpen
    <2>3. CASE PumpFinish(t)
      BY <2>3, SMTT(100) DEF PumpFinish, PumpMoves
    <2> QED
      BY <1>2, <2>1, <2>2, <2>3 DEF PumpStep
  <1>3. ASSUME NEW s \in Sessions, CloseAllFor(s)
        PROVE  HeldInv'
    BY <1>3, SMTT(100) DEF CloseAllFor, TermsOf
  <1>4. CASE SweepScan
    BY <1>4, SMTT(100) DEF SweepScan
  <1>5. CASE SweepRemove
    BY <1>5, SMTT(100) DEF SweepRemove, StillListed
  <1>6. CASE SweepDone
    BY <1>6, SMTT(100) DEF SweepDone
  <1> QED
    BY <1>1, <1>2, <1>3, <1>4, <1>5, <1>6, <1>7 DEF SweepStep

\* shutdown(term): the loser lets go of what the winner holds, and the winner of a shell that
\* has ended.
LEMMA ShutdownHeld ==
    ASSUME IInv, HeldInv, Faults \subseteq {"crash", "read"}, NEW a \in Closers, CloserStep(a)
    PROVE  HeldInv'
  <1> USE ConstantsAssumption
        DEF IInv, TypeOK, HeldInv, UnlistedIsHeld, ClosedIsBusy, AskedIsFresh, ListsStartEmpty, Holds,
            Closers
  <1>1. ASSUME NEW t \in Terms, Shutdown(a, t)
        PROVE  HeldInv'
    BY <1>1, SMTT(100) DEF Shutdown, Claim, UncommittedIsUnknown
  <1>2. CASE ShutdownEnds(a)
    BY <1>2, SMTT(100) DEF ShutdownEnds
  <1> QED
    BY <1>1, <1>2 DEF CloserStep

\* The world around the registry.
LEMMA WorldHeld ==
    ASSUME IInv, HeldInv, Faults \subseteq {"crash", "read"},
           \/ \E t \in Terms : WorkerOpens(t) \/ ShellExits(t) \/ Attach(t)
                               \/ Detach(t) \/ Output(t) \/ Quiet(t)
           \/ \E s \in Sessions : TeardownWorker(s) \/ TeardownDropped(s) \/ WorkerCrashes(s)
           \/ UNCHANGED vars
    PROVE  HeldInv'
  <1> USE ConstantsAssumption
        DEF IInv, TypeOK, HeldInv, UnlistedIsHeld, ClosedIsBusy, AskedIsFresh, ListsStartEmpty, Holds
  <1>1. ASSUME NEW t \in Terms, WorkerOpens(t)
        PROVE  HeldInv'
    BY <1>1, SMTT(100) DEF WorkerOpens, UncommittedIsUnknown
  <1>2. ASSUME NEW t \in Terms, ShellExits(t) \/ Attach(t) \/ Detach(t) \/ Output(t) \/ Quiet(t)
        PROVE  HeldInv'
    BY <1>2, SMTT(100) DEF ShellExits, Attach, Detach, Output, Quiet
  <1>3. ASSUME NEW s \in Sessions, TeardownWorker(s) \/ WorkerCrashes(s)
        PROVE  HeldInv'
    <2>1. \A t \in Terms : /\ shell'[t] = "running" => shell[t] = "running"
                           /\ shell'[t] = "asked" => shell[t] = "asked"
      BY <1>3 DEF TeardownWorker, WorkerCrashes, ShellsWithout
    <2>2. /\ UNCHANGED <<table, pump, closed, found, doomed, busy, sweep>>
          /\ \A u \in Sessions : session'[u] = "live" => session[u] = "live"
      BY <1>3 DEF TeardownWorker, WorkerCrashes
    <2> QED
      BY <2>1, <2>2, SMTT(100)
  <1>4. ASSUME NEW s \in Sessions, TeardownDropped(s)
        PROVE  HeldInv'
    BY <1>4 DEF TeardownDropped
  <1>5. CASE UNCHANGED vars
    BY <1>5, SMTT(100) DEF vars
  <1> QED
    BY <1>1, <1>2, <1>3, <1>4, <1>5

\* As long as every call of term.close is answered and no request is dropped, no interleaving
\* of requests, pumps, the sweep and teardowns lets go of a running shell, even when workers
\* crash.
THEOREM ShellsAreNeverLetGo ==
    ASSUME Faults \subseteq {"crash", "read"}
    PROVE  Spec => []NoStrayShell
  <1>1. Init => HeldInv
    BY ConstantsAssumption
       DEF Init, HeldInv, UnlistedIsHeld, ClosedIsBusy, AskedIsFresh, ListsStartEmpty, Holds, Closers
  <1>2. IInv /\ HeldInv /\ [Next]_vars => HeldInv'
    <2> SUFFICES ASSUME IInv, HeldInv, [Next]_vars
                 PROVE  HeldInv'
      OBVIOUS
    <2>1. ASSUME NEW r \in Reqs,
                 (\E s \in Sessions : OpenRequest(r, s)) \/ OpenStep(r) \/ Disconnect(r)
          PROVE  HeldInv'
      BY <2>1, OpenHeld
    <2>2. ASSUME \/ \E r \in Reqs : (\E t \in Terms : Close(r, t)) \/ Finish(r)
                 \/ \E t \in Terms : PumpStep(t) \/ PumpFails(t)
                 \/ \E s \in Sessions : CloseAllFor(s)
                 \/ SweepStep
          PROVE  HeldInv'
      BY <2>2, CollectHeld
    <2>3. ASSUME NEW a \in Closers, CloserStep(a)
          PROVE  HeldInv'
      BY <2>3, ShutdownHeld
    <2>4. ASSUME \/ \E t \in Terms : WorkerOpens(t) \/ ShellExits(t) \/ Attach(t)
                                     \/ Detach(t) \/ Output(t) \/ Quiet(t)
                 \/ \E s \in Sessions : TeardownWorker(s) \/ TeardownDropped(s) \/ WorkerCrashes(s)
                 \/ UNCHANGED vars
          PROVE  HeldInv'
      BY <2>4, WorldHeld
    <2> QED
      BY <2>1, <2>2, <2>3, <2>4 DEF Next
  <1>3. HeldInv => NoStrayShell
    BY DEF HeldInv, UnlistedIsHeld, NoStrayShell, Holds
  <1> QED
    BY <1>1, <1>2, <1>3, Inductive, PTL DEF Spec

=============================================================================
