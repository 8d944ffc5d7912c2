---------------------------- MODULE ExamHallProofs ----------------------------
(***************************************************************************)
(* The safety of one open session for every roster, pool and clock.        *)
(***************************************************************************)
EXTENDS ExamHall, FiniteSetTheorems, TLAPS

-------------------------------------------------------------------------------
(* reconcilePool asks for at least nothing and at most the pool.           *)
LEMMA DesiredInPool ==
  ASSUME TypeOK
  PROVE  DesiredReplicas \in 0 .. PoolSize
<1>1. Used \in Nat
  <2>1. RowsIn(slotState, UsedState) \subseteq Slots
    BY DEF RowsIn, TypeOK
  <2>2. IsFiniteSet(Slots)
    BY FS_Interval, PoolAssumption DEF Slots
  <2> QED
    BY <2>1, <2>2, FS_Subset, FS_CardinalityType DEF Used
<1>2. Cardinality(Waiting) \in Nat
  BY AttemptsAssumption, FS_Subset, FS_CardinalityType DEF Waiting
<1> QED
  BY <1>1, <1>2, PoolAssumption DEF DesiredReplicas, Smaller, Larger

(* Every action keeps the columns, the carried values and the counters     *)
(* within their types.                                                     *)
LEMMA TypeInductive ==
  ASSUME TypeOK, [Next]_vars
  PROVE  TypeOK'
<1> USE NullAssumption, PoolAssumption, TimeAssumption
        DEF TypeOK, attemptVars, slotVars, podVars
<1>1. ASSUME NEW r \in Requests, NEW a \in Attempts, StartCheck(r, a)
      PROVE  TypeOK'
  BY <1>1 DEF StartCheck, Request
<1>2. ASSUME NEW r \in Requests, StartBegin(r)
      PROVE  TypeOK'
  BY <1>2 DEF StartBegin, Request, NoRequest
<1>3. ASSUME NEW r \in Requests, StartTx(r)
      PROVE  TypeOK'
  <2> DEFINE a == req[r].attempt
  <2>1. a \in Attempts /\ req[r].deadline \in Nat /\ req[r].began \in Nat
    BY <1>3 DEF StartTx, Request, NoRequest
  <2>2. req' \in [Requests -> Request]
    BY <1>3 DEF StartTx, Request
  <2>3. status' \in [Attempts -> AttemptStatus] /\ deadline' \in [Attempts -> Nat \cup {Null}]
    BY <1>3, <2>1 DEF StartTx, AttemptStatus
  <2>4. CASE UNCHANGED <<slotVars, enqueuedAt>>
    BY <1>3, <2>2, <2>3, <2>4 DEF StartTx
  <2>5. CASE StartAdmits(a) /\ PlaceStudent(a, req[r].began)
    <3>1. slotState' \in [Slots -> SlotState] /\ slotAttempt' \in [Slots -> Attempts \cup {Null}]
      BY <2>5, <2>1 DEF PlaceStudent, Assign, NextReady, RowsIn, SlotState
    <3>2. enqueuedAt' \in [Attempts -> Nat \cup {Null}]
      BY <2>5, <2>1 DEF PlaceStudent, EnqueuePos
    <3> QED
      BY <1>3, <2>2, <2>3, <3>1, <3>2 DEF StartTx
  <2> QED
    BY <1>3, <2>4, <2>5 DEF StartTx
<1>4. ASSUME NEW a \in Attempts, Submit(a)
      PROVE  TypeOK'
  BY <1>4 DEF Submit, CloseAttempt, MarkSubmitting, AttemptStatus, Closers, PkgState, SlotState
<1>5. ASSUME NEW a \in Attempts, Expire(a)
      PROVE  TypeOK'
  BY <1>5 DEF Expire, CloseAttempt, MarkSubmitting, AttemptStatus, Closers, PkgState, SlotState
<1>6. ASSUME NEW a \in Attempts, ForceSubmit(a)
      PROVE  TypeOK'
  BY <1>6 DEF ForceSubmit, CloseAttempt, MarkSubmitting, AttemptStatus, Closers, PkgState, SlotState
<1>7. ASSUME NEW a \in Attempts, VoidAttempt(a)
      PROVE  TypeOK'
  BY <1>7 DEF VoidAttempt, AttemptStatus
<1>8. ASSUME NEW a \in Attempts, ExtendDeadline(a)
      PROVE  TypeOK'
  BY <1>8 DEF ExtendDeadline, ExtendedDeadline
<1>9. ASSUME NEW a \in Attempts, TriggerPackaging(a)
      PROVE  TypeOK'
  BY <1>9 DEF TriggerPackaging, PkgState
<1>10. ASSUME NEW a \in Attempts, PackageCallback(a)
      PROVE  TypeOK'
  BY <1>10 DEF PackageCallback, MarkRecycling, PkgState, SlotState
<1>11. CASE SweepList
  BY <1>11 DEF SweepList, ExpiredRunning, Sweepers
<1>12. ASSUME NEW w \in Sweepers, NEW a \in Attempts, SweepOne(w, a)
      PROVE  TypeOK'
  BY <1>12 DEF SweepOne, CloseAttempt, MarkSubmitting, AttemptStatus, Closers, PkgState,
     SlotState, Sweepers
<1>13. CASE ReconcileLock
  BY <1>13 DEF ReconcileLock, Reconcile, RecPc
<1>14. CASE ListPods
  BY <1>14 DEF ListPods, Reconcile, RecPc
<1>15. CASE SyncSlotsUp
  BY <1>15 DEF SyncSlotsUp, SyncUp, SlotState, Reconcile, RecPc
<1>16. CASE SyncSlotsDown
  BY <1>16 DEF SyncSlotsDown, SyncDown, SlotState, Reconcile, RecPc
<1>17. CASE AssignHead
  BY <1>17 DEF AssignHead, TimeFromSeat, Assign, QueueHeads, Waiting, NextReady, RowsIn,
               SlotState
<1>18. CASE MeasurePool
  <2>1. DesiredReplicas \in 0 .. PoolSize
    BY DesiredInPool
  <2> QED
    BY <1>18, <2>1 DEF MeasurePool, Reconcile, NoReconcile, RecPc
<1>19. CASE Scale
  BY <1>19 DEF Scale, Reconcile, NoReconcile, RecPc
<1>20. CASE ReconcileFails
  BY <1>20 DEF ReconcileFails, Reconcile, NoReconcile, RecPc
<1>21. CASE CloseStatus
  BY <1>21 DEF CloseStatus, Closing, ClosingPc
<1>22. CASE CloseList
  BY <1>22 DEF CloseList, Closing, ClosingPc, ExpiredRunning, Sweepers
<1>23. CASE CloseSwept
  BY <1>23 DEF CloseSwept, Closing, ClosingPc
<1>24. CASE CloseScale
  BY <1>24 DEF CloseScale, Closing, ClosingPc
<1>25. CASE CloseMarkDown
  BY <1>25 DEF CloseMarkDown, MarkBatchDown, SlotState, Closing, ClosingPc
<1>26. CASE CloseClearQueue
  BY <1>26 DEF CloseClearQueue, Closing, ClosingPc
<1>27. ASSUME NEW s \in Slots, PodReady(s)
      PROVE  TypeOK'
  BY <1>27 DEF PodReady
<1>28. ASSUME NEW s \in Slots, PodLost(s)
      PROVE  TypeOK'
  BY <1>28 DEF PodLost
<1>29. ASSUME NEW s \in Slots, RegisterSlot(s)
      PROVE  TypeOK'
  BY <1>29 DEF RegisterSlot, Register, SlotState
<1>30. CASE Tick
  BY <1>30 DEF Tick
<1>31. CASE UNCHANGED vars
  BY <1>31 DEF vars
<1> QED
  BY <1>1, <1>2, <1>3, <1>4, <1>5, <1>6, <1>7, <1>8, <1>9, <1>10, <1>11,
     <1>12, <1>13, <1>14, <1>15, <1>16, <1>17, <1>18, <1>19, <1>20, <1>21,
     <1>22, <1>23, <1>24, <1>25, <1>26, <1>27, <1>28, <1>29, <1>30, <1>31
     DEF Next, Starting, Finishing, Sweeping, Reconciling, ClosingDown,
     Environment

(* The columns always have their types.                                    *)
THEOREM TypeSafety == Spec => []TypeOK
<1>1. Init => TypeOK
  BY NullAssumption, PoolAssumption
     DEF Init, TypeOK, AttemptStatus, Closers, SlotState, PkgState, Request, NoRequest,
         Reconcile, NoReconcile, RecPc, Closing, NotClosing, ClosingPc
<1> QED
  BY <1>1, TypeInductive, PTL DEF Spec

-------------------------------------------------------------------------------
(* UNIQUE(attempt_id).                                                     *)

(* A step that moves no owner and puts into use only rows that have one.   *)
LEMMA SameOwnersKeepSeats ==
  ASSUME SeatInv,
         slotAttempt' = slotAttempt,
         Waiting' \subseteq Waiting,
         \A s \in Slots : slotState'[s] \in UsedState => slotAttempt[s] # Null
  PROVE  SeatInv'
BY DEF SeatInv, HasSlot, RowsOf

(* assignReadySlotTx for an attempt without a row.                         *)
LEMMA AssignKeepsSeats ==
  ASSUME TypeOK, SeatInv, NEW a \in Attempts, ~HasSlot(a), Assign(a),
         Waiting' \subseteq Waiting \ {a}
  PROVE  SeatInv'
<1> PICK s \in NextReady(slotState) :
         /\ slotState' = [slotState EXCEPT ![s] = "assigned"]
         /\ slotAttempt' = [slotAttempt EXCEPT ![s] = a]
  BY DEF Assign
<1>1. s \in Slots
  BY DEF NextReady, RowsIn, TypeOK
<1>2. \A t \in Slots : slotAttempt[t] # a
  BY DEF HasSlot, RowsOf, TypeOK
<1>3. \A t \in Slots : slotAttempt'[t] = IF t = s THEN a ELSE slotAttempt[t]
  BY <1>1 DEF TypeOK
<1>4. \A t \in Slots : t # s => slotState'[t] = slotState[t]
  BY <1>1 DEF TypeOK
<1>5. a # Null
  BY NullAssumption
<1>6. (\A t, u \in Slots :
         slotAttempt[t] = slotAttempt[u] /\ slotAttempt[t] # Null => t = u)'
  BY <1>1, <1>2, <1>3 DEF SeatInv
<1>7. (\A b \in Waiting : ~HasSlot(b))'
  <2> SUFFICES ASSUME NEW b \in Waiting \ {a}
               PROVE  ~HasSlot(b)'
    OBVIOUS
  <2>1. \A t \in Slots : slotAttempt[t] # b
    BY DEF SeatInv, HasSlot, RowsOf, TypeOK
  <2>2. DOMAIN slotAttempt' = Slots
    BY DEF TypeOK
  <2> QED
    BY <1>3, <2>1, <2>2 DEF HasSlot, RowsOf
<1> QED
  BY <1>3, <1>4, <1>5, <1>6, <1>7 DEF SeatInv

(* startExam's placement and reconcilePool's assignment never give an      *)
(* attempt a second row; every other action leaves the owners alone.       *)
LEMMA SeatInductive ==
  ASSUME TypeOK, SeatInv, [Next]_vars
  PROVE  SeatInv'
<1>1. CASE UNCHANGED <<slotState, slotAttempt, enqueuedAt>>
  BY <1>1 DEF SeatInv, Waiting, HasSlot
<1>2. ASSUME NEW r \in Requests, StartTx(r)
      PROVE  SeatInv'
  <2> DEFINE a == req[r].attempt
  <2>1. a \in Attempts /\ req[r].began \in Nat
    BY <1>2 DEF StartTx, TypeOK, Request, NoRequest
  <2>2. CASE UNCHANGED <<slotVars, enqueuedAt>>
    BY <2>2, <1>1 DEF slotVars
  <2>3. CASE ~HasSlot(a) /\ Waiting = {} /\ Assign(a) /\ UNCHANGED enqueuedAt
    <3>1. Waiting' \subseteq Waiting \ {a}
      BY <2>3 DEF Waiting
    <3> QED
      BY <2>1, <2>3, <3>1, AssignKeepsSeats
  <2>4. CASE ~HasSlot(a) /\ enqueuedAt' = EnqueuePos(a, req[r].began) /\ UNCHANGED slotVars
    <3>1. Waiting' \subseteq Waiting \cup {a}
      BY <2>4 DEF Waiting, EnqueuePos, TypeOK
    <3> QED
      BY <2>4, <3>1 DEF SeatInv, HasSlot, RowsOf, slotVars
  <2> QED
    BY <1>2, <2>2, <2>3, <2>4 DEF StartTx, PlaceStudent, HasSlot
<1>3. ASSUME NEW a \in Attempts, slotState' = MarkSubmitting(slotState, slotAttempt, a),
             UNCHANGED <<slotAttempt, enqueuedAt>>
      PROVE  SeatInv'
  <2>1. \A s \in Slots : slotState'[s] \in UsedState => slotAttempt[s] # Null
    BY <1>3 DEF MarkSubmitting, UsedState, SeatInv, TypeOK
  <2> QED
    BY <1>3, <2>1, SameOwnersKeepSeats DEF Waiting
<1>4. ASSUME NEW a \in Attempts, PackageCallback(a)
      PROVE  SeatInv'
  <2>1. \A s \in Slots : slotState'[s] \in UsedState => slotAttempt[s] # Null
    BY <1>4 DEF PackageCallback, MarkRecycling, UsedState, BusyState, SeatInv, TypeOK
  <2> QED
    BY <1>4, <2>1, SameOwnersKeepSeats DEF PackageCallback, Waiting
<1>5. CASE SyncSlotsUp
  <2>1. \A s \in Slots : slotState'[s] \in UsedState => slotAttempt[s] # Null
    BY <1>5 DEF SyncSlotsUp, SyncUp, UsedState, SeatInv, TypeOK
  <2> QED
    BY <1>5, <2>1, SameOwnersKeepSeats DEF SyncSlotsUp, Waiting
<1>6. CASE SyncSlotsDown
  <2>1. \A s \in Slots : slotState'[s] \in UsedState => slotAttempt[s] # Null
    BY <1>6 DEF SyncSlotsDown, SyncDown, UsedState, SeatInv, TypeOK
  <2> QED
    BY <1>6, <2>1, SameOwnersKeepSeats DEF SyncSlotsDown, Waiting
<1>7. CASE AssignHead
  <2> PICK a \in QueueHeads : Assign(a) /\ enqueuedAt' = [enqueuedAt EXCEPT ![a] = Null]
    BY <1>7 DEF AssignHead
  <2>1. a \in Attempts /\ ~HasSlot(a)
    BY DEF QueueHeads, Waiting, SeatInv
  <2>2. Waiting' \subseteq Waiting \ {a}
    BY DEF Waiting, TypeOK
  <2> QED
    BY <2>1, <2>2, AssignKeepsSeats
<1>8. CASE CloseMarkDown
  <2>1. \A s \in Slots : slotState'[s] \in UsedState => slotAttempt[s] # Null
    BY <1>8 DEF CloseMarkDown, MarkBatchDown, UsedState, TypeOK
  <2> QED
    BY <1>8, <2>1, SameOwnersKeepSeats DEF CloseMarkDown, Waiting
<1>9. CASE CloseClearQueue
  BY <1>9 DEF CloseClearQueue, slotVars, SeatInv, Waiting
<1>10. ASSUME NEW s \in Slots, RegisterSlot(s)
       PROVE  SeatInv'
  <2>1. \A t \in Slots : slotState'[t] \in UsedState => slotAttempt[t] # Null
    BY <1>10 DEF RegisterSlot, Register, UsedState, SeatInv, TypeOK
  <2> QED
    BY <1>10, <2>1, SameOwnersKeepSeats DEF RegisterSlot, Waiting
<1> QED
  BY <1>1, <1>2, <1>3, <1>4, <1>5, <1>6, <1>7, <1>8, <1>9, <1>10
     DEF Next, vars, slotVars, Starting, StartCheck, StartBegin, Finishing, Submit, Expire,
         ForceSubmit, CloseAttempt, VoidAttempt, ExtendDeadline, TriggerPackaging, Sweeping,
         SweepList, SweepOne, Reconciling, ReconcileLock, ListPods, MeasurePool, Scale,
         ReconcileFails, ClosingDown, CloseStatus, CloseList, CloseSwept, CloseScale,
         Environment, PodReady, PodLost, Tick

(* No attempt ever holds two slots, nor waits while it holds one.          *)
THEOREM OneSeatEach == Spec => []SeatInv
<1>1. Init => SeatInv
  BY DEF Init, SeatInv, UsedState, Waiting
<1>2. TypeOK /\ SeatInv /\ [Next]_vars => SeatInv'
  BY SeatInductive
<1> QED
  BY <1>1, <1>2, TypeSafety, PTL DEF Spec

-------------------------------------------------------------------------------
(* The hall implements SeatAllocation.                                     *)

LEMMA AssignTakesASeat ==
  ASSUME TypeOK, NEW a \in Attempts, ~HasSlot(a), Assign(a)
  PROVE  Seats!Next
<1> PICK s \in NextReady(slotState) :
         /\ slotState' = [slotState EXCEPT ![s] = "assigned"]
         /\ slotAttempt' = [slotAttempt EXCEPT ![s] = a]
  BY DEF Assign
<1>1. s \in Slots /\ slotState[s] = "ready"
  BY DEF NextReady, RowsIn, TypeOK
<1>2. Holder[s] = Null
  BY <1>1 DEF Holder, UsedState
<1>3. \A t \in Slots : Holder[t] # a
  BY NullAssumption DEF Holder, HasSlot, RowsOf, TypeOK
<1>4. Holder' = [Holder EXCEPT ![s] = a]
  BY <1>1 DEF Holder, UsedState, TypeOK
<1>5. Seats!Take(a, s)
  BY <1>2, <1>3, <1>4 DEF Seats!Take
<1> QED
  BY <1>1, <1>5 DEF Seats!Next

(* A step is an assignment, the teardown, or nothing to SeatAllocation.    *)
LEMMA SeatStep ==
  ASSUME TypeOK, SeatInv, [Next]_vars
  PROVE  [Seats!Next]_Holder
<1>1. CASE UNCHANGED <<slotState, slotAttempt>>
  BY <1>1 DEF Holder
<1>2. ASSUME slotAttempt' = slotAttempt,
             \A s \in Slots : slotState'[s] \in UsedState <=> slotState[s] \in UsedState
      PROVE  Holder' = Holder
  BY <1>2 DEF Holder
<1>3. ASSUME NEW r \in Requests, StartTx(r)
      PROVE  [Seats!Next]_Holder
  <2>1. req[r].attempt \in Attempts
    BY <1>3 DEF StartTx, TypeOK, Request, NoRequest
  <2> QED
    BY <1>1, <1>3, <2>1, AssignTakesASeat DEF StartTx, PlaceStudent, HasSlot, slotVars
<1>4. ASSUME NEW a \in Attempts, slotState' = MarkSubmitting(slotState, slotAttempt, a),
             UNCHANGED slotAttempt
      PROVE  [Seats!Next]_Holder
  BY <1>2, <1>4 DEF MarkSubmitting, UsedState, TypeOK
<1>5. ASSUME NEW a \in Attempts, PackageCallback(a)
      PROVE  [Seats!Next]_Holder
  BY <1>2, <1>5 DEF PackageCallback, MarkRecycling, UsedState, BusyState, TypeOK
<1>6. CASE SyncSlotsUp
  BY <1>2, <1>6 DEF SyncSlotsUp, SyncUp, UsedState, TypeOK
<1>7. CASE SyncSlotsDown
  BY <1>2, <1>7 DEF SyncSlotsDown, SyncDown, UsedState, TypeOK
<1>8. CASE AssignHead
  <2> PICK a \in QueueHeads : Assign(a)
    BY <1>8 DEF AssignHead
  <2>1. a \in Attempts /\ ~HasSlot(a)
    BY DEF QueueHeads, Waiting, SeatInv
  <2> QED
    BY <2>1, AssignTakesASeat
<1>9. CASE CloseMarkDown
  <2>1. Holder' = [s \in Slots |-> Null]
    BY <1>9 DEF CloseMarkDown, MarkBatchDown, Holder, UsedState, TypeOK
  <2> QED
    BY <2>1 DEF Seats!Next, Seats!ClearRoom
<1>10. ASSUME NEW s \in Slots, RegisterSlot(s)
       PROVE  [Seats!Next]_Holder
  BY <1>2, <1>10 DEF RegisterSlot, Register, UsedState, UnassignedState, TypeOK
<1> QED
  BY <1>1, <1>3, <1>4, <1>5, <1>6, <1>7, <1>8, <1>9, <1>10
     DEF Next, vars, slotVars, Starting, StartCheck, StartBegin, Finishing, Submit, Expire,
         ForceSubmit, CloseAttempt, VoidAttempt, ExtendDeadline, TriggerPackaging, Sweeping,
         SweepList, SweepOne, Reconciling, ReconcileLock, ListPods, MeasurePool, Scale,
         ReconcileFails, ClosingDown, CloseStatus, CloseList, CloseSwept, CloseScale,
         CloseClearQueue, Environment, PodReady, PodLost, Tick

(* A seat is never handed from one student to another.                     *)
THEOREM HallAllocatesSeats == Spec => SeatsAreAllocated
<1>1. Init => Seats!Init
  BY DEF Init, Seats!Init, Holder, UsedState
<1>2. TypeOK /\ SeatInv /\ [Next]_vars => [Seats!Next]_Holder
  BY SeatStep
<1> QED
  BY <1>1, <1>2, TypeSafety, OneSeatEach, PTL DEF Spec, SeatsAreAllocated, Seats!Spec

-------------------------------------------------------------------------------
(* Submitted is terminal.                                                  *)

Final(a) ==
  /\ status'[a] = "submitted"
  /\ deadline'[a] = deadline[a]
  /\ submittedAt'[a] = submittedAt[a]
  /\ closedBy'[a] = closedBy[a]

(* Every action that writes an attempt row asks for a status that is not   *)
(* submitted, inside the transaction that writes it.                       *)
LEMMA SubmittedStays ==
  ASSUME TypeOK, [Next]_vars, NEW a \in Attempts, status[a] = "submitted"
  PROVE  Final(a)
<1> USE DEF Final, TypeOK, Startable
<1>1. CASE UNCHANGED attemptVars
  BY <1>1 DEF attemptVars
<1>2. ASSUME NEW r \in Requests, StartTx(r)
      PROVE  Final(a)
  BY <1>2 DEF StartTx, StartAdmits
<1>3. ASSUME NEW b \in Attempts, NEW how, CloseAttempt(b, how), status[b] # "submitted"
      PROVE  Final(a)
  BY <1>3 DEF CloseAttempt
<1>4. ASSUME NEW b \in Attempts, VoidAttempt(b)
      PROVE  Final(a)
  BY <1>4 DEF VoidAttempt, Voidable
<1>5. ASSUME NEW b \in Attempts, ExtendDeadline(b)
      PROVE  Final(a)
  BY <1>5 DEF ExtendDeadline, Extendable
<1>6. CASE AssignHead
  BY <1>6 DEF AssignHead
<1> QED
  BY <1>1, <1>2, <1>3, <1>4, <1>5, <1>6
     DEF Next, vars, attemptVars, slotVars, Starting, StartCheck, StartBegin, Finishing,
         Submit, Expire, ForceSubmit, Overdue, TriggerPackaging, PackageCallback, Sweeping,
         SweepList, SweepOne, Reconciling, ReconcileLock, ListPods, SyncSlotsUp,
         SyncSlotsDown, MeasurePool, Scale, ReconcileFails, ClosingDown, CloseStatus,
         CloseList, CloseSwept, CloseScale, CloseMarkDown, CloseClearQueue, Environment,
         PodReady, PodLost, RegisterSlot, Tick

(* No late request moves a submitted attempt.                              *)
THEOREM Finality == Spec => SubmittedIsFinal
<1>1. TypeOK /\ [Next]_vars =>
        [\A a \in Attempts : status[a] = "submitted" => Final(a)]_vars
  BY SubmittedStays
<1> QED
  BY <1>1, TypeSafety, PTL DEF Spec, SubmittedIsFinal, Final

-------------------------------------------------------------------------------
(* Placement.                                                              *)

(* What RunningIsPlaced needs: while the batch is open a row with an owner *)
(* is in use, so a running owner's row is assigned.                        *)
OwnedIsUsed ==
  batch = "open" => \A s \in Slots : slotAttempt[s] # Null => slotState[s] \in UsedState

TearDownIsClosed == closing.pc # "no" => batch = "closed"

PlacementInv ==
  /\ TearDownIsClosed
  /\ OwnedIsUsed
  /\ ReleasedSlotsAreSubmitted
  /\ RunningIsPlaced

LEMMA TearDownInductive ==
  ASSUME TearDownIsClosed, [Next]_vars
  PROVE  TearDownIsClosed'
BY DEF TearDownIsClosed, Next, vars, attemptVars, slotVars, podVars, Starting, StartCheck,
       StartBegin, StartTx, Finishing, Submit, Expire, ForceSubmit, CloseAttempt,
       VoidAttempt, ExtendDeadline, TriggerPackaging, PackageCallback, Sweeping, SweepList,
       SweepOne, Reconciling, ReconcileLock, ListPods, SyncSlotsUp, SyncSlotsDown,
       AssignHead, MeasurePool, Scale, ReconcileFails, ClosingDown, CloseStatus, CloseList,
       CloseSwept, CloseScale, CloseMarkDown, CloseClearQueue, Environment, PodReady,
       PodLost, RegisterSlot, Tick

(* A step that leaves owners, queue and statuses alone, and neither gives  *)
(* nor takes an assigned row, nor starts using or releasing one.           *)
LEMMA SamePlaces ==
  ASSUME TypeOK, PlacementInv, TearDownIsClosed',
         batch' = "open" => batch = "open",
         UNCHANGED <<slotAttempt, status, enqueuedAt>>,
         \A s \in Slots : slotState[s] \in UsedState => slotState'[s] = slotState[s],
         \A s \in Slots : slotState'[s] \in UsedState => slotState'[s] = slotState[s]
  PROVE  PlacementInv'
BY DEF PlacementInv, OwnedIsUsed, ReleasedSlotsAreSubmitted, RunningIsPlaced, Seated,
       UsedState, TypeOK

(* An attempt without a row gets a ready one and leaves the queue.         *)
LEMMA AssignKeepsPlaces ==
  ASSUME TypeOK, SeatInv, PlacementInv, TearDownIsClosed', UNCHANGED batch,
         NEW a \in Attempts, ~HasSlot(a), Assign(a),
         \A b \in Attempts \ {a} : enqueuedAt'[b] = enqueuedAt[b],
         \A b \in Attempts \ {a} : status'[b] = status[b],
         status[a] = "submitted" => status'[a] = "submitted"
  PROVE  PlacementInv'
<1> PICK s \in NextReady(slotState) :
         /\ slotState' = [slotState EXCEPT ![s] = "assigned"]
         /\ slotAttempt' = [slotAttempt EXCEPT ![s] = a]
  BY DEF Assign
<1>1. s \in Slots /\ slotState[s] = "ready"
  BY DEF NextReady, RowsIn, TypeOK
<1>2. \A t \in Slots : t # s => slotState'[t] = slotState[t] /\ slotAttempt'[t] = slotAttempt[t]
  BY <1>1 DEF TypeOK
<1>3. slotState'[s] = "assigned" /\ slotAttempt'[s] = a
  BY <1>1 DEF TypeOK
<1>4. OwnedIsUsed'
  BY <1>2, <1>3 DEF PlacementInv, OwnedIsUsed, UsedState
<1>5. \A t \in Slots : slotState[t] \in UsedState => slotAttempt[t] \in Attempts
  BY DEF SeatInv, TypeOK
<1>6. ReleasedSlotsAreSubmitted'
  BY <1>2, <1>3, <1>5 DEF PlacementInv, ReleasedSlotsAreSubmitted, UsedState
<1>7. RunningIsPlaced'
  BY <1>1, <1>2, <1>3 DEF PlacementInv, RunningIsPlaced, Seated
<1> QED
  BY <1>4, <1>6, <1>7 DEF PlacementInv

LEMMA PlacementInductive ==
  ASSUME TypeOK, SeatInv, PlacementInv, [Next]_vars
  PROVE  PlacementInv'
<1>0. TearDownIsClosed'
  BY TearDownInductive DEF PlacementInv
<1>a. \A s \in Slots : slotState[s] \in UsedState => slotAttempt[s] \in Attempts
  BY DEF SeatInv, TypeOK
<1>1. CASE UNCHANGED <<slotState, slotAttempt, status, enqueuedAt>> /\ (batch' = "open" => batch = "open")
  BY <1>0, <1>1, SamePlaces
<1>2. ASSUME NEW r \in Requests, StartTx(r)
      PROVE  PlacementInv'
  <2> DEFINE a == req[r].attempt
  <2>1. a \in Attempts /\ req[r].began \in Nat
    BY <1>2 DEF StartTx, TypeOK, Request, NoRequest
  <2>2. CASE ~StartAdmits(a)
    BY <1>1, <1>2, <2>2 DEF StartTx, slotVars
  <2>3. CASE StartAdmits(a)
    <3>1. batch' = batch /\ status' = [status EXCEPT ![a] = "running"]
             /\ PlaceStudent(a, req[r].began)
      BY <1>2, <2>3 DEF StartTx
    <3>2. batch = "open" /\ status[a] # "submitted"
      BY <2>3 DEF StartAdmits, Startable
    <3>3. \A b \in Attempts \ {a} : status'[b] = status[b]
      BY <3>1 DEF TypeOK
    <3>4. CASE HasSlot(a) /\ UNCHANGED <<slotVars, enqueuedAt>>
      <4>1. Seated(a)
        <5>1. PICK s \in Slots : slotAttempt[s] = a
          BY <3>4 DEF HasSlot, RowsOf, TypeOK
        <5>2. slotState[s] \in UsedState /\ slotState[s] \notin {"submitting", "recycling"}
          BY <5>1, <3>2, <2>1, NullAssumption
             DEF PlacementInv, OwnedIsUsed, ReleasedSlotsAreSubmitted
        <5> QED
          BY <5>1, <5>2 DEF Seated, UsedState
      <4>2. \A s \in Slots : slotState[s] \in {"submitting", "recycling"} => slotAttempt[s] \in Attempts \ {a}
        BY <1>a, <3>2 DEF UsedState, PlacementInv, ReleasedSlotsAreSubmitted
      <4> QED
        BY <1>0, <3>1, <3>3, <3>4, <4>1, <4>2
           DEF PlacementInv, OwnedIsUsed, ReleasedSlotsAreSubmitted, RunningIsPlaced, Seated,
               slotVars
    <3>5. CASE ~HasSlot(a) /\ Assign(a) /\ UNCHANGED enqueuedAt
      BY <1>0, <2>1, <3>1, <3>2, <3>3, <3>5, AssignKeepsPlaces
    <3>6. CASE ~HasSlot(a) /\ enqueuedAt' = EnqueuePos(a, req[r].began) /\ UNCHANGED slotVars
      <4>1. enqueuedAt'[a] # Null
        BY <2>1, <3>6, NullAssumption DEF EnqueuePos, TypeOK
      <4>2. \A b \in Attempts \ {a} : enqueuedAt'[b] = enqueuedAt[b]
        BY <3>6 DEF EnqueuePos, TypeOK
      <4>3. \A s \in Slots : slotState[s] \in {"submitting", "recycling"} => slotAttempt[s] \in Attempts \ {a}
        BY <1>a, <3>2 DEF UsedState, PlacementInv, ReleasedSlotsAreSubmitted
      <4> QED
        BY <1>0, <3>1, <3>3, <3>6, <4>1, <4>2, <4>3
           DEF PlacementInv, OwnedIsUsed, ReleasedSlotsAreSubmitted, RunningIsPlaced, Seated,
               slotVars
    <3> QED
      BY <3>1, <3>4, <3>5, <3>6 DEF PlaceStudent, HasSlot
  <2> QED
    BY <2>2, <2>3
<1>3. ASSUME NEW a \in Attempts, NEW how, CloseAttempt(a, how), status[a] # "submitted"
      PROVE  PlacementInv'
  <2>1. batch' = batch /\ slotAttempt' = slotAttempt /\ enqueuedAt' = enqueuedAt
    BY <1>3 DEF CloseAttempt
  <2>2. status' = [status EXCEPT ![a] = "submitted"]
    BY <1>3 DEF CloseAttempt
  <2>3. \A s \in Slots : slotState'[s] =
          IF slotAttempt[s] = a /\ slotState[s] = "assigned" THEN "submitting" ELSE slotState[s]
    BY <1>3 DEF CloseAttempt, MarkSubmitting, TypeOK
  <2>4. OwnedIsUsed'
    BY <2>1, <2>3 DEF PlacementInv, OwnedIsUsed, UsedState
  <2>5. ReleasedSlotsAreSubmitted'
    BY <2>1, <2>2, <2>3, <1>a DEF PlacementInv, ReleasedSlotsAreSubmitted, UsedState, TypeOK
  <2>6. RunningIsPlaced'
    BY <2>1, <2>2, <2>3 DEF PlacementInv, RunningIsPlaced, Seated, TypeOK
  <2> QED
    BY <1>0, <2>4, <2>5, <2>6 DEF PlacementInv
<1>4. ASSUME NEW a \in Attempts, VoidAttempt(a)
      PROVE  PlacementInv'
  <2>1. status' = [status EXCEPT ![a] = "void"] /\ status[a] # "submitted"
           /\ UNCHANGED <<batch, slotState, slotAttempt, enqueuedAt>>
    BY <1>4 DEF VoidAttempt, Voidable, slotVars
  <2> QED
    BY <1>0, <2>1, <1>a
       DEF PlacementInv, OwnedIsUsed, ReleasedSlotsAreSubmitted, RunningIsPlaced, Seated,
           UsedState, TypeOK
<1>5. ASSUME NEW a \in Attempts, PackageCallback(a)
      PROVE  PlacementInv'
  <2>1. status[a] = "submitted" /\ UNCHANGED <<batch, status, slotAttempt, enqueuedAt>>
    BY <1>5 DEF PackageCallback, attemptVars
  <2>2. \A s \in Slots : slotState'[s] =
          IF slotAttempt[s] = a /\ slotState[s] \in BusyState THEN "recycling" ELSE slotState[s]
    BY <1>5 DEF PackageCallback, MarkRecycling, TypeOK
  <2> QED
    BY <1>0, <1>a, <2>1, <2>2
       DEF PlacementInv, OwnedIsUsed, ReleasedSlotsAreSubmitted, RunningIsPlaced, Seated,
           UsedState, BusyState, TypeOK
<1>6. CASE SyncSlotsUp
  BY <1>0, <1>6, SamePlaces DEF SyncSlotsUp, SyncUp, UsedState, attemptVars, TypeOK
<1>7. CASE SyncSlotsDown
  BY <1>0, <1>7, SamePlaces DEF SyncSlotsDown, SyncDown, UsedState, attemptVars, TypeOK
<1>8. CASE AssignHead
  <2> PICK a \in QueueHeads : Assign(a) /\ enqueuedAt' = [enqueuedAt EXCEPT ![a] = Null]
    BY <1>8 DEF AssignHead
  <2>1. a \in Attempts /\ ~HasSlot(a)
    BY DEF QueueHeads, Waiting, SeatInv
  <2>2. \A b \in Attempts \ {a} : enqueuedAt'[b] = enqueuedAt[b]
    BY DEF TypeOK
  <2> QED
    BY <1>0, <1>8, <2>1, <2>2, AssignKeepsPlaces DEF AssignHead
<1>9. CASE CloseMarkDown \/ CloseClearQueue
  <2>1. batch' = "closed" /\ UNCHANGED <<status, slotAttempt>>
    BY <1>9 DEF CloseMarkDown, CloseClearQueue, PlacementInv, TearDownIsClosed, attemptVars, slotVars
  <2>2. \A s \in Slots : slotState'[s] \in UsedState => slotState'[s] = slotState[s]
    BY <1>9 DEF CloseMarkDown, MarkBatchDown, CloseClearQueue, slotVars, UsedState, TypeOK
  <2> QED
    BY <1>0, <2>1, <2>2
       DEF PlacementInv, OwnedIsUsed, ReleasedSlotsAreSubmitted, RunningIsPlaced, UsedState
<1>10. ASSUME NEW s \in Slots, RegisterSlot(s)
       PROVE  PlacementInv'
  BY <1>0, <1>10, SamePlaces
     DEF RegisterSlot, Register, UsedState, UnassignedState, attemptVars, TypeOK
<1> QED
  BY <1>1, <1>2, <1>3, <1>4, <1>5, <1>6, <1>7, <1>8, <1>9, <1>10
     DEF Next, vars, slotVars, attemptVars, Starting, StartCheck, StartBegin, Finishing,
         Submit, Expire, ForceSubmit, Overdue, Startable, ExtendDeadline, TriggerPackaging,
         Sweeping, SweepList, SweepOne, Reconciling, ReconcileLock, ListPods, MeasurePool,
         Scale, ReconcileFails, ClosingDown, CloseStatus, CloseList, CloseSwept, CloseScale,
         Environment, PodReady, PodLost, Tick

LEMMA PlacementAlways == Spec => []PlacementInv
<1>1. Init => PlacementInv
  BY DEF Init, PlacementInv, TearDownIsClosed, OwnedIsUsed, ReleasedSlotsAreSubmitted,
         RunningIsPlaced, NotClosing
<1>2. TypeOK /\ SeatInv /\ PlacementInv /\ [Next]_vars => PlacementInv'
  BY PlacementInductive
<1> QED
  BY <1>1, <1>2, TypeSafety, OneSeatEach, PTL DEF Spec

(* No running student is ever outside both the pool and the queue.         *)
THEOREM Placement == Spec => []RunningIsPlaced
<1>1. PlacementInv => RunningIsPlaced
  BY DEF PlacementInv
<1> QED
  BY <1>1, PlacementAlways, PTL

(* The pod of a student who still works is never released.                 *)
THEOREM Release == Spec => []ReleasedSlotsAreSubmitted
<1>1. PlacementInv => ReleasedSlotsAreSubmitted
  BY DEF PlacementInv
<1> QED
  BY <1>1, PlacementAlways, PTL

-------------------------------------------------------------------------------
(* Deadlines.                                                              *)

(* What AutoCollectedWasOverdue needs: whoever has been closed stays       *)
(* submitted, so nothing moves the deadline afterwards.                    *)
ClosedIsSubmitted == \A a \in Attempts : closedBy[a] # Null => status[a] = "submitted"

CollectedInv == ClosedIsSubmitted /\ AutoCollectedWasOverdue

(* The step that writes the audit event is the one that submits.           *)
LEMMA NewlyClosed ==
  ASSUME TypeOK, [Next]_vars, NEW a \in Attempts, closedBy'[a] # closedBy[a]
  PROVE  /\ status'[a] = "submitted" /\ submittedAt'[a] = now
         /\ deadline'[a] = deadline[a]
         /\ closedBy'[a] = "auto" => Overdue(a)
<1>1. ASSUME NEW b \in Attempts, NEW how, CloseAttempt(b, how), how = "auto" => Overdue(b)
      PROVE  /\ status'[a] = "submitted" /\ submittedAt'[a] = now
             /\ deadline'[a] = deadline[a]
             /\ closedBy'[a] = "auto" => Overdue(a)
  BY <1>1 DEF CloseAttempt, TypeOK
<1>2. CASE closedBy' = closedBy
  BY <1>2
<1> QED
  BY <1>1, <1>2
     DEF Next, vars, attemptVars, Starting, StartCheck, StartBegin, StartTx, Finishing,
         Submit, Expire, ForceSubmit, VoidAttempt, ExtendDeadline, TriggerPackaging,
         PackageCallback, Sweeping, SweepList, SweepOne, Reconciling, ReconcileLock,
         ListPods, SyncSlotsUp, SyncSlotsDown, AssignHead, MeasurePool, Scale,
         ReconcileFails, ClosingDown, CloseStatus, CloseList, CloseSwept, CloseScale,
         CloseMarkDown, CloseClearQueue, Environment, PodReady, PodLost, RegisterSlot, Tick

LEMMA CollectedInductive ==
  ASSUME TypeOK, CollectedInv, [Next]_vars
  PROVE  CollectedInv'
<1> SUFFICES ASSUME NEW a \in Attempts, closedBy'[a] # Null
             PROVE  /\ status'[a] = "submitted"
                    /\ closedBy'[a] = "auto" =>
                         deadline'[a] # Null /\ deadline'[a] <= submittedAt'[a]
  BY NullAssumption DEF CollectedInv, ClosedIsSubmitted, AutoCollectedWasOverdue, Closers
<1>1. CASE closedBy'[a] = closedBy[a]
  <2>1. status[a] = "submitted"
    BY <1>1 DEF CollectedInv, ClosedIsSubmitted
  <2> QED
    BY <1>1, <2>1, SubmittedStays DEF Final, CollectedInv, AutoCollectedWasOverdue
<1>2. CASE closedBy'[a] # closedBy[a]
  BY <1>2, NewlyClosed DEF Overdue
<1> QED
  BY <1>1, <1>2

(* An attempt the sweep has collected really was overdue.                  *)
THEOREM Collection == Spec => []AutoCollectedWasOverdue
<1>1. Init => CollectedInv
  BY NullAssumption DEF Init, CollectedInv, ClosedIsSubmitted, AutoCollectedWasOverdue, Closers
<1>2. TypeOK /\ CollectedInv /\ [Next]_vars => CollectedInv'
  BY CollectedInductive
<1>3. CollectedInv => AutoCollectedWasOverdue
  BY DEF CollectedInv
<1> QED
  BY <1>1, <1>2, <1>3, TypeSafety, PTL DEF Spec

(* What CloseLeavesNoOverdue needs: while closeBatch works through its     *)
(* list, every running attempt off the list has a deadline that had not    *)
(* passed when the list was read.                                          *)
CloseProgress ==
  /\ TearDownIsClosed
  /\ closing.listedAt <= now
  /\ \A a \in Attempts : status[a] = "running" => deadline[a] # Null
  /\ closing.pc = "sweeping" =>
       \A a \in Attempts \ sweep["close"] :
         status[a] = "running" => deadline[a] >= closing.listedAt
  /\ CloseLeavesNoOverdue

(* A step that starts nobody and moves no deadline below the clock.        *)
LEMMA DeadlinesMoveUp ==
  ASSUME TypeOK, CloseProgress, TearDownIsClosed', closing' = closing,
         now' \in Nat, now <= now',
         sweep'["close"] = sweep["close"],
         \A a \in Attempts : status'[a] = "running" =>
           /\ status[a] = "running"
           /\ \/ deadline'[a] = deadline[a]
              \/ deadline'[a] \in Nat /\ deadline'[a] >= now
  PROVE  CloseProgress'
<1>1. closing.listedAt \in Nat
  BY DEF TypeOK, Closing
<1>2. \A a \in Attempts : deadline[a] # Null => deadline[a] \in Nat
  BY DEF TypeOK
<1>3. now \in Nat
  BY DEF TypeOK
<1> QED
  BY <1>1, <1>2, <1>3, NullAssumption DEF CloseProgress, CloseLeavesNoOverdue

LEMMA CloseProgressInductive ==
  ASSUME TypeOK, CloseProgress, [Next]_vars
  PROVE  CloseProgress'
<1>0. TearDownIsClosed'
  BY TearDownInductive DEF CloseProgress
<1>t. now \in Nat /\ Duration \in Nat
  BY TimeAssumption DEF TypeOK
<1>1. CASE UNCHANGED <<now, status, deadline, closing>> /\ sweep'["close"] = sweep["close"]
  BY <1>0, <1>t, <1>1, DeadlinesMoveUp
<1>2. ASSUME NEW r \in Requests, StartTx(r)
      PROVE  CloseProgress'
  <2> DEFINE a == req[r].attempt
  <2>1. a \in Attempts /\ req[r].deadline \in Nat
    BY <1>2 DEF StartTx, TypeOK, Request, NoRequest
  <2>2. CASE ~StartAdmits(a)
    BY <1>1, <1>2, <2>2 DEF StartTx
  <2>3. CASE StartAdmits(a)
    <3>1. closing.pc = "no" /\ closing' = closing /\ now' = now
      BY <1>2, <2>3 DEF StartTx, StartAdmits, CloseProgress, TearDownIsClosed
    <3>2. \A b \in Attempts : status'[b] = "running" => deadline'[b] # Null
      BY <1>2, <2>1, <2>3, NullAssumption DEF StartTx, CloseProgress, TypeOK
    <3> QED
      BY <1>0, <3>1, <3>2 DEF CloseProgress, CloseLeavesNoOverdue
  <2> QED
    BY <2>2, <2>3
<1>3. ASSUME NEW a \in Attempts, NEW how, CloseAttempt(a, how), sweep' = sweep
      PROVE  CloseProgress'
  BY <1>0, <1>t, <1>3, DeadlinesMoveUp DEF CloseAttempt, TypeOK
<1>4. ASSUME NEW a \in Attempts, VoidAttempt(a)
      PROVE  CloseProgress'
  BY <1>0, <1>t, <1>4, DeadlinesMoveUp DEF VoidAttempt, TypeOK
<1>5. ASSUME NEW a \in Attempts, ExtendDeadline(a)
      PROVE  CloseProgress'
  <2>1. ExtendedDeadline(a, 1) \in Nat /\ ExtendedDeadline(a, 1) >= now
    BY <1>t DEF ExtendedDeadline, TypeOK
  <2>2. deadline' = [deadline EXCEPT ![a] = ExtendedDeadline(a, 1)]
    BY <1>5 DEF ExtendDeadline
  <2>3. \A b \in Attempts : 
          deadline'[b] = deadline[b] \/ (deadline'[b] \in Nat /\ deadline'[b] >= now)
    BY <2>1, <2>2 DEF TypeOK
  <2> QED
    BY <1>0, <1>t, <1>5, <2>3, DeadlinesMoveUp DEF ExtendDeadline
<1>6. ASSUME NEW w \in Sweepers, NEW a \in Attempts, SweepOne(w, a)
      PROVE  CloseProgress'
  <2>1. closing' = closing /\ now' = now /\ deadline' = deadline
    BY <1>6 DEF SweepOne, CloseAttempt, attemptVars
  <2>2. \A b \in Attempts : status'[b] = "running" => status[b] = "running"
    BY <1>6 DEF SweepOne, CloseAttempt, attemptVars, TypeOK
  <2>3. CASE w = "ops"
    <3>1. sweep'["close"] = sweep["close"]
      BY <1>6, <2>3 DEF SweepOne, TypeOK, Sweepers
    <3> QED
      BY <1>0, <1>t, <2>1, <2>2, <3>1, DeadlinesMoveUp
  <2>4. CASE w = "close"
    <3>1. sweep'["close"] = sweep["close"] \ {a}
      BY <1>6, <2>4 DEF SweepOne, TypeOK, Sweepers
    <3>2. status'[a] = "running" => deadline[a] > now
      BY <1>6, NullAssumption
         DEF SweepOne, CloseAttempt, Overdue, attemptVars, TypeOK, CloseProgress
    <3>3. closing.listedAt \in Nat /\ closing.listedAt <= now
      BY DEF TypeOK, Closing, CloseProgress
    <3>4. \A b \in Attempts : deadline[b] # Null => deadline[b] \in Nat
      BY DEF TypeOK
    <3> QED
      BY <1>0, <1>t, <2>1, <2>2, <3>1, <3>2, <3>3, <3>4 DEF CloseProgress, CloseLeavesNoOverdue
  <2> QED
    BY <2>3, <2>4 DEF Sweepers
<1>7. CASE AssignHead
  <2>1. \A b \in Attempts : 
          deadline'[b] = deadline[b] \/ (deadline'[b] \in Nat /\ deadline'[b] >= now)
    BY <1>7, <1>t DEF AssignHead, TimeFromSeat, TypeOK
  <2> QED
    BY <1>0, <1>t, <1>7, <2>1, DeadlinesMoveUp DEF AssignHead
<1>8. CASE CloseStatus
  BY <1>0, <1>8 DEF CloseStatus, CloseProgress, CloseLeavesNoOverdue, attemptVars, TypeOK, Closing
<1>9. CASE CloseList
  <2>1. closing'.pc = "sweeping" /\ closing'.listedAt = now /\ now' = now
          /\ status' = status /\ deadline' = deadline
    BY <1>9 DEF CloseList, attemptVars
  <2>2. sweep'["close"] = ExpiredRunning
    BY <1>9 DEF CloseList, TypeOK, Sweepers
  <2>3. \A a \in Attempts \ ExpiredRunning : status[a] = "running" => deadline[a] >= now
    BY <1>t DEF ExpiredRunning, CloseProgress, TypeOK
  <2> QED
    BY <1>0, <1>t, <2>1, <2>2, <2>3 DEF CloseProgress, CloseLeavesNoOverdue
<1>10. CASE CloseSwept
  BY <1>0, <1>10 DEF CloseSwept, CloseProgress, CloseLeavesNoOverdue, attemptVars, TypeOK, Closing
<1>11. CASE CloseScale \/ CloseMarkDown \/ CloseClearQueue
  BY <1>0, <1>11
     DEF CloseScale, CloseMarkDown, CloseClearQueue, CloseProgress, CloseLeavesNoOverdue,
         attemptVars, TypeOK, Closing
<1>12. CASE Tick
  BY <1>0, <1>t, <1>12, DeadlinesMoveUp DEF Tick, attemptVars
<1>13. CASE SweepList
  BY <1>1, <1>13 DEF SweepList, attemptVars, TypeOK, Sweepers
<1> QED
  BY <1>1, <1>2, <1>3, <1>4, <1>5, <1>6, <1>7, <1>8, <1>9, <1>10, <1>11, <1>12, <1>13
     DEF Next, vars, attemptVars, Starting, StartCheck, StartBegin, Finishing, Submit,
         Expire, ForceSubmit, TriggerPackaging, PackageCallback, Sweeping, Reconciling,
         ReconcileLock, ListPods, SyncSlotsUp, SyncSlotsDown, MeasurePool, Scale,
         ReconcileFails, ClosingDown, Environment, PodReady, PodLost, RegisterSlot

(* closeBatch leaves nobody running whose deadline had passed.             *)
THEOREM CloseCollects == Spec => []CloseLeavesNoOverdue
<1>1. Init => CloseProgress
  BY DEF Init, CloseProgress, TearDownIsClosed, CloseLeavesNoOverdue, NotClosing
<1>2. TypeOK /\ CloseProgress /\ [Next]_vars => CloseProgress'
  BY CloseProgressInductive
<1>3. CloseProgress => CloseLeavesNoOverdue
  BY DEF CloseProgress
<1> QED
  BY <1>1, <1>2, <1>3, TypeSafety, PTL DEF Spec

-------------------------------------------------------------------------------
(* Admission.                                                              *)

Admitted(a) == status'[a] = "running" /\ status[a] # "running"

(* Only startExam's transaction admits, and it has seen the batch open.    *)
LEMMA AdmittedWhileOpen ==
  ASSUME TypeOK, [Next]_vars, NEW a \in Attempts, Admitted(a)
  PROVE  batch = "open"
<1> USE DEF Admitted, TypeOK
<1>1. CASE status' = status
  BY <1>1
<1>2. ASSUME NEW r \in Requests, StartTx(r)
      PROVE  batch = "open"
  BY <1>2 DEF StartTx, StartAdmits
<1>3. ASSUME NEW b \in Attempts, NEW how, CloseAttempt(b, how)
      PROVE  batch = "open"
  BY <1>3 DEF CloseAttempt
<1>4. ASSUME NEW b \in Attempts, VoidAttempt(b)
      PROVE  batch = "open"
  BY <1>4 DEF VoidAttempt
<1> QED
  BY <1>1, <1>2, <1>3, <1>4
     DEF Next, vars, attemptVars, Starting, StartCheck, StartBegin, Finishing, Submit,
         Expire, ForceSubmit, ExtendDeadline, TriggerPackaging, PackageCallback, Sweeping,
         SweepList, SweepOne, Reconciling, ReconcileLock, ListPods, SyncSlotsUp,
         SyncSlotsDown, AssignHead, MeasurePool, Scale, ReconcileFails, ClosingDown,
         CloseStatus, CloseList, CloseSwept, CloseScale, CloseMarkDown, CloseClearQueue,
         Environment, PodReady, PodLost, RegisterSlot, Tick

(* A start that passed its check loses to a close that commits first.      *)
THEOREM Admission == Spec => ClosedAdmitsNobody
<1>1. TypeOK /\ [Next]_vars =>
        [batch # "open" =>
           \A a \in Attempts : status'[a] = "running" => status[a] = "running"]_vars
  BY AdmittedWhileOpen DEF Admitted
<1> QED
  BY <1>1, TypeSafety, PTL DEF Spec, ClosedAdmitsNobody

-------------------------------------------------------------------------------
(* The queue is first come, first served.                                  *)

LEMMA SeatedInOrder ==
  ASSUME TypeOK, [Next]_vars, NEW a \in Attempts, NEW b \in Attempts,
         enqueuedAt[a] # Null, ~HasSlot(b), HasSlot(b)'
  PROVE  enqueuedAt[b] # Null /\ enqueuedAt[b] <= enqueuedAt[a]
<1>0. a \in Waiting
  BY DEF Waiting
<1>1. slotAttempt' # slotAttempt
  BY DEF HasSlot
<1>2. CASE AssignHead
  <2> PICK c \in QueueHeads : Assign(c)
    BY <1>2 DEF AssignHead
  <2>1. PICK s \in Slots : slotAttempt' = [slotAttempt EXCEPT ![s] = c]
    BY DEF Assign, NextReady, RowsIn, TypeOK
  <2>2. b = c
    BY <2>1 DEF HasSlot, RowsOf, TypeOK
  <2> QED
    BY <1>0, <2>2 DEF QueueHeads, Waiting
<1> QED
  BY <1>0, <1>1, <1>2
     DEF Next, vars, attemptVars, slotVars, Starting, StartCheck, StartBegin, StartTx,
         PlaceStudent, Finishing, Submit, Expire, ForceSubmit, CloseAttempt, VoidAttempt,
         ExtendDeadline, TriggerPackaging, PackageCallback, Sweeping, SweepList, SweepOne,
         Reconciling, ReconcileLock, ListPods, SyncSlotsUp, SyncSlotsDown, MeasurePool,
         Scale, ReconcileFails, ClosingDown, CloseStatus, CloseList, CloseSwept, CloseScale,
         CloseMarkDown, CloseClearQueue, Environment, PodReady, PodLost, RegisterSlot, Tick

(* Nobody is seated past a student who has waited longer.                  *)
THEOREM QueueOrder == Spec => NoOvertaking
<1>1. TypeOK /\ [Next]_vars =>
        [\A a, b \in Attempts :
           enqueuedAt[a] # Null /\ enqueuedAt'[a] # Null /\ ~HasSlot(b) /\ HasSlot(b)' =>
             enqueuedAt[b] # Null /\ enqueuedAt[b] <= enqueuedAt[a]]_vars
  BY SeatedInOrder
<1> QED
  BY <1>1, TypeSafety, PTL DEF Spec, NoOvertaking

-------------------------------------------------------------------------------
(* The rows of exam.attempts.                                              *)

(* No deadline, and none that a start has read and not yet written, is     *)
(* further away than a whole exam and the minutes granted so far.          *)
DeadlineInv ==
  /\ \A a \in Attempts : deadline[a] # Null => deadline[a] <= now + Duration + extensions
  /\ \A r \in Requests :
       req[r].pc # "idle" => req[r].deadline <= now + Duration + extensions

(* Time passes and minutes are granted: what was within bounds stays so.   *)
LEMMA BoundGrows ==
  ASSUME TypeOK, DeadlineInv, UNCHANGED <<deadline, req>>,
         now' \in Nat, extensions' \in Nat, now <= now', extensions <= extensions'
  PROVE  DeadlineInv'
<1>1. now \in Nat /\ extensions \in Nat /\ Duration \in Nat
  BY TimeAssumption DEF TypeOK
<1>2. \A r \in Requests : req[r].pc # "idle" => req[r].deadline \in Nat
  BY DEF TypeOK, Request, NoRequest
<1>3. \A a \in Attempts : deadline[a] # Null => deadline[a] \in Nat
  BY DEF TypeOK
<1> QED
  BY <1>1, <1>2, <1>3 DEF DeadlineInv

LEMMA DeadlineInductive ==
  ASSUME TypeOK, DeadlineInv, [Next]_vars
  PROVE  DeadlineInv'
<1>1. now \in Nat /\ extensions \in Nat /\ Duration \in Nat
  BY TimeAssumption DEF TypeOK
<1>2. CASE UNCHANGED <<now, deadline, req, extensions>>
  BY <1>2 DEF DeadlineInv
<1>3. ASSUME NEW r \in Requests, NEW a \in Attempts, StartCheck(r, a)
      PROVE  DeadlineInv'
  BY <1>1, <1>3 DEF StartCheck, attemptVars, DeadlineInv, TypeOK
<1>4. ASSUME NEW r \in Requests, StartBegin(r)
      PROVE  DeadlineInv'
  BY <1>1, <1>4 DEF StartBegin, attemptVars, DeadlineInv, TypeOK
<1>5. ASSUME NEW r \in Requests, StartTx(r)
      PROVE  DeadlineInv'
  <2>1. UNCHANGED <<now, extensions>> /\ req' = [req EXCEPT ![r] = NoRequest]
        /\ req[r].pc = "begun"
    BY <1>5 DEF StartTx
  <2>2. \A a \in Attempts : deadline'[a] \in {deadline[a], req[r].deadline}
    BY <1>5 DEF StartTx, TypeOK
  <2> QED
    BY <1>1, <2>1, <2>2 DEF DeadlineInv, TypeOK, NoRequest
<1>6. ASSUME NEW a \in Attempts, ExtendDeadline(a)
      PROVE  DeadlineInv'
  <2>1. /\ UNCHANGED <<now, req>> /\ extensions' = extensions + 1
        /\ deadline' = [deadline EXCEPT ![a] = ExtendedDeadline(a, 1)]
    BY <1>6 DEF ExtendDeadline
  <2>2. /\ \A b \in Attempts : deadline[b] # Null => deadline[b] \in Nat
        /\ \A r \in Requests : req[r].pc # "idle" => req[r].deadline \in Nat
    BY DEF TypeOK, Request, NoRequest
  <2>3. ExtendedDeadline(a, 1) <= now + Duration + extensions'
    BY <1>1, <2>1, <2>2 DEF ExtendedDeadline, DeadlineInv
  <2>4. \A b \in Attempts : deadline'[b] # Null => deadline'[b] <= now + Duration + extensions'
    BY <1>1, <2>1, <2>2, <2>3 DEF DeadlineInv, TypeOK
  <2> QED
    BY <1>1, <2>1, <2>2, <2>4 DEF DeadlineInv
<1>7. CASE AssignHead
  BY <1>1, <1>7 DEF AssignHead, TimeFromSeat, DeadlineInv, TypeOK
<1>8. CASE Tick
  <2>1. UNCHANGED <<deadline, req, extensions>> /\ now' = now + 1
    BY <1>8 DEF Tick, attemptVars
  <2> QED
    BY <1>1, <2>1, BoundGrows
<1> QED
  BY <1>2, <1>3, <1>4, <1>5, <1>6, <1>7, <1>8
     DEF Next, vars, attemptVars, slotVars, Starting, Finishing, Submit, Expire, ForceSubmit,
         CloseAttempt, VoidAttempt, TriggerPackaging, PackageCallback, Sweeping, SweepList,
         SweepOne, Reconciling, ReconcileLock, ListPods, SyncSlotsUp, SyncSlotsDown,
         MeasurePool, Scale, ReconcileFails, ClosingDown, CloseStatus, CloseList, CloseSwept,
         CloseScale, CloseMarkDown, CloseClearQueue, Environment, PodReady, PodLost,
         RegisterSlot

(* Every action is one of AttemptRecord or leaves the rows alone.          *)
LEMMA RowStep ==
  ASSUME TypeOK, DeadlineInv, [Next]_vars
  PROVE  [Row!Next]_(Row!vars)
<1>1. now \in Nat /\ extensions \in Nat /\ Duration \in Nat
  BY TimeAssumption DEF TypeOK
<1>2. CASE UNCHANGED <<now, status, deadline, extensions>>
  BY <1>2 DEF Row!vars
<1>3. ASSUME NEW r \in Requests, StartTx(r)
      PROVE  [Row!Next]_(Row!vars)
  <2> DEFINE a == req[r].attempt
  <2>1. a \in Attempts /\ req[r].deadline \in Nat
    BY <1>3 DEF StartTx, TypeOK, Request, NoRequest
  <2>2. CASE ~ StartAdmits(a)
    BY <1>2, <1>3, <2>2 DEF StartTx
  <2>3. CASE StartAdmits(a)
    <3>1. /\ status' = [status EXCEPT ![a] = "running"]
          /\ deadline' = [deadline EXCEPT ![a] = req[r].deadline]
          /\ UNCHANGED <<now, extensions>>
      BY <1>3, <2>3 DEF StartTx
    <3>2. req[r].deadline \in 0 .. now + Duration + extensions
      BY <1>1, <1>3, <2>1 DEF StartTx, DeadlineInv
    <3>3. Row!Start(a)
      BY <2>3, <3>1, <3>2 DEF StartAdmits, Startable, Row!Start, Row!Live, Row!Limit
    <3> QED BY <2>1, <3>3 DEF Row!Next
  <2> QED BY <2>2, <2>3
<1>4. ASSUME NEW a \in Attempts, NEW how, CloseAttempt(a, how), Startable(a)
      PROVE  [Row!Next]_(Row!vars)
  <2>1. Row!Submit(a)
    BY <1>4 DEF CloseAttempt, podVars, Startable, Row!Submit, Row!Live
  <2> QED BY <2>1 DEF Row!Next
<1>5. ASSUME NEW a \in Attempts, VoidAttempt(a)
      PROVE  [Row!Next]_(Row!vars)
  <2>1. Row!Void(a)
    BY <1>5 DEF VoidAttempt, Voidable, Row!Void
  <2> QED BY <2>1 DEF Row!Next
<1>6. ASSUME NEW a \in Attempts, ExtendDeadline(a)
      PROVE  [Row!Next]_(Row!vars)
  <2> DEFINE later == IF deadline[a] # Null /\ deadline[a] > now THEN deadline[a] ELSE now
  <2>1. later \in Nat /\ ExtendedDeadline(a, 1) = later + 1
    BY <1>1 DEF TypeOK, ExtendedDeadline
  <2>2. later + 1 = 1 + later
    BY <2>1
  <2>3. Row!Extend(a)
    BY <1>6, <2>1, <2>2 DEF ExtendDeadline, Extendable, Startable, Row!Extend, Row!Live, TypeOK
  <2> QED BY <2>3 DEF Row!Next
<1>7. CASE AssignHead
  <2>1. PICK a \in QueueHeads :
          deadline' = IF Startable(a) THEN [deadline EXCEPT ![a] = TimeFromSeat(a)] ELSE deadline
    BY <1>7 DEF AssignHead
  <2>2. a \in Attempts /\ UNCHANGED <<now, status, extensions>>
    BY <1>7, <2>1 DEF AssignHead, QueueHeads, Waiting
  <2>3. Startable(a) => Row!Seat(a)
    BY <2>1, <2>2 DEF TimeFromSeat, Startable, Row!Seat, Row!Live
  <2> QED BY <1>2, <2>1, <2>2, <2>3 DEF Row!Next
<1>8. CASE Tick
  <2>1. Row!Tick
    BY <1>8 DEF Tick, attemptVars, Row!Tick
  <2> QED BY <2>1 DEF Row!Next
<1> QED
  BY <1>2, <1>3, <1>4, <1>5, <1>6, <1>7, <1>8
     DEF Next, vars, attemptVars, slotVars, Starting, StartCheck, StartBegin, Finishing, Submit,
         Expire, ForceSubmit, Overdue, Startable, TriggerPackaging, PackageCallback, Sweeping,
         SweepList, SweepOne, Reconciling, ReconcileLock, ListPods, SyncSlotsUp,
         SyncSlotsDown, MeasurePool, Scale, ReconcileFails, ClosingDown, CloseStatus,
         CloseList, CloseSwept, CloseScale, CloseMarkDown, CloseClearQueue, Environment,
         PodReady, PodLost, RegisterSlot

(* The hall keeps its rows as AttemptRecord promises.                      *)
THEOREM RowsAreKept == Spec => RowsKeepTheirPromise
<1>1. Init => DeadlineInv /\ Row!Init
  BY DEF Init, DeadlineInv, NoRequest, Row!Init
<1>2. TypeOK /\ DeadlineInv /\ [Next]_vars => DeadlineInv'
  BY DeadlineInductive
<1>3. TypeOK /\ DeadlineInv /\ [Next]_vars => [Row!Next]_(Row!vars)
  BY RowStep
<1> QED
  BY <1>1, <1>2, <1>3, TypeSafety, PTL DEF Spec, RowsKeepTheirPromise, Row!Spec
===============================================================================
