------------------------------- MODULE ExamHall -------------------------------
(***************************************************************************)
(* One open session ("batch") of the exam platform, from the moment its    *)
(* environment is provisioned until closeBatchEnvAction has torn it down.  *)
(* Students start, wait for a seat, submit or run out of time; operators   *)
(* extend, void, force-submit and sweep; the polling of the waiting room   *)
(* drives reconcilePool; Kubernetes starts and loses pods.                 *)
(*                                                                         *)
(* Every database transaction is one action: the rows it decides on are    *)
(* locked (FOR UPDATE) before they are read.  What a handler does in more  *)
(* than one transaction, or reads before its transaction, is several       *)
(* actions with the values it carries from one to the next kept in `req`,  *)
(* `rec`, `sweep` and `closing`.                                           *)
(***************************************************************************)
EXTENDS SlotsRepo

CONSTANTS
  Attempts,        \* rows of exam.attempts of the batch, one per student
  Requests,        \* startExam calls that may be in flight at once
  Null,            \* SQL NULL
  PoolSize,        \* min(batch.capacity, MAX_SLOTS)
  WarmCount,       \* batch.warm_count
  Duration,        \* DEFAULT_DURATION_MIN, in ticks of the clock
  MaxTime,         \* bound: the last tick
  MaxExtensions,   \* bound: deadline extensions granted
  MaxPodLosses,    \* bound: pods that stop being Ready
  Events           \* bound: the outside requests that are made at all

ASSUME AttemptsAssumption == IsFiniteSet(Attempts)
ASSUME PoolAssumption ==
  /\ PoolSize \in Nat \ {0}
  /\ WarmCount \in 0 .. PoolSize
ASSUME TimeAssumption ==
  /\ Duration \in Nat \ {0}
  /\ MaxTime \in Nat
  /\ MaxExtensions \in Nat
  /\ MaxPodLosses \in Nat

EventKinds ==
  {"submit", "expire", "force", "void", "extend", "sweep", "package", "register", "close"}
ASSUME EventsAssumption == Events \subseteq EventKinds

Slots == 0 .. PoolSize - 1
Sweepers == {"ops", "close"}

AttemptStatus == {"ready", "running", "submitted", "expired", "void"}
Closers == {"examinee", "auto", "ops"}
ASSUME NullAssumption == Null \notin Attempts /\ Null \notin Nat /\ Null \notin Closers

PkgState == {"none", "due", "job", "skipped", "packaged"}
RecPc == {"idle", "locked", "listed", "up", "down", "scale"}
ClosingPc == {"no", "listing", "sweeping", "scaling", "marking", "clearing", "done"}

VARIABLES
  now,            \* the server's clock
  batch,          \* exam.batches.status: "open", then "closed"
  status,         \* exam.attempts.status
  deadline,       \* exam.attempts.deadline_at
  submittedAt,    \* exam.attempts.submitted_at
  closedBy,       \* exam.attempt_events: who closed the attempt, if anybody
  slotState,      \* hosted.slots.state
  slotAttempt,    \* hosted.slots.attempt_id
  enqueuedAt,     \* hosted.entry_queue.enqueued_at, Null without a row
  req,            \* startExam calls in flight
  rec,            \* the reconcilePool call that has the advisory lock
  sweep,          \* ids each running sweepDeadlines still has to collect
  closing,        \* closeBatchEnvAction
  pkg,            \* triggerPackaging and the packaging Job of each attempt
  replicas,       \* StatefulSet spec.replicas
  podReady,       \* ordinals of the pods that are Ready
  extensions,     \* count of extensions granted (deadline_extended events)
  podLosses       \* count of pods lost

attemptVars == <<status, deadline, submittedAt, closedBy>>
slotVars    == <<slotState, slotAttempt>>
podVars     == <<replicas, podReady, podLosses>>
vars == <<now, batch, attemptVars, slotVars, enqueuedAt, req, rec, sweep,
          closing, pkg, podVars, extensions>>

NoRequest == [pc |-> "idle", attempt |-> Null, deadline |-> Null, began |-> Null]
Request ==
  {NoRequest}
    \cup [pc : {"checked"}, attempt : Attempts, deadline : Nat, began : {Null}]
    \cup [pc : {"begun"}, attempt : Attempts, deadline : Nat, began : Nat]

NoReconcile == [pc |-> "idle", live |-> {}, desired |-> 0]
Reconcile == [pc : RecPc, live : SUBSET Slots, desired : 0 .. PoolSize]

NotClosing == [pc |-> "no", listedAt |-> 0]
Closing == [pc : ClosingPc, listedAt : Nat]

TypeOK ==
  /\ now \in Nat
  /\ batch \in {"open", "closed"}
  /\ status \in [Attempts -> AttemptStatus]
  /\ deadline \in [Attempts -> Nat \cup {Null}]
  /\ submittedAt \in [Attempts -> Nat \cup {Null}]
  /\ closedBy \in [Attempts -> Closers \cup {Null}]
  /\ slotState \in [Slots -> SlotState]
  /\ slotAttempt \in [Slots -> Attempts \cup {Null}]
  /\ enqueuedAt \in [Attempts -> Nat \cup {Null}]
  /\ req \in [Requests -> Request]
  /\ rec \in Reconcile
  /\ sweep \in [Sweepers -> SUBSET Attempts]
  /\ closing \in Closing
  /\ pkg \in [Attempts -> PkgState]
  /\ replicas \in 0 .. PoolSize
  /\ podReady \in SUBSET Slots
  /\ extensions \in Nat
  /\ podLosses \in Nat

(* The state openBatchEnvAction leaves: every row registered as down with  *)
(* no attempt, an empty entry queue, WarmCount replicas asked for.         *)
Init ==
  /\ now = 0
  /\ batch = "open"
  /\ status = [a \in Attempts |-> "ready"]
  /\ deadline = [a \in Attempts |-> Null]
  /\ submittedAt = [a \in Attempts |-> Null]
  /\ closedBy = [a \in Attempts |-> Null]
  /\ slotState = [s \in Slots |-> "down"]
  /\ slotAttempt = [s \in Slots |-> Null]
  /\ enqueuedAt = [a \in Attempts |-> Null]
  /\ req = [r \in Requests |-> NoRequest]
  /\ rec = NoReconcile
  /\ sweep = [w \in Sweepers |-> {}]
  /\ closing = NotClosing
  /\ pkg = [a \in Attempts |-> "none"]
  /\ replicas = WarmCount
  /\ podReady = {}
  /\ extensions = 0
  /\ podLosses = 0

-------------------------------------------------------------------------------
(* The repositories' reads.                                                *)

Waiting == {a \in Attempts : enqueuedAt[a] # Null}

(* lockHeadTx: ORDER BY enqueued_at; equal timestamps come in any order.   *)
QueueHeads == {a \in Waiting : \A b \in Waiting : enqueuedAt[a] <= enqueuedAt[b]}

Startable(a) == status[a] \in {"ready", "running"}

(* The row the waiting room and the IDE gateway ask for.                   *)
Seated(a) == \E s \in Slots : slotAttempt[s] = a /\ slotState[s] = "assigned"

(* Mutant: the collection trusts the list it was given.                    *)
OverdueAsListed(a) == status[a] = "running"

(* autoCollectAttempt re-judges both under the row lock.                   *)
Overdue(a) == status[a] = "running" /\ deadline[a] # Null /\ deadline[a] <= now

(* listExpiredRunning compares with <, autoCollectAttempt with <=.         *)
ExpiredRunning ==
  {a \in Attempts : status[a] = "running" /\ deadline[a] # Null /\ deadline[a] < now}

-------------------------------------------------------------------------------
(* startExam: a check outside any transaction, BEGIN (whose timestamp is   *)
(* the NOW() of enqueued_at), then the transaction proper.                 *)

StartCheck(r, a) ==
  /\ req[r].pc = "idle"
  /\ Startable(a)
  /\ batch = "open"
  /\ req' = [req EXCEPT ![r] =
               [pc |-> "checked", attempt |-> a, began |-> Null,
                deadline |-> IF deadline[a] # Null THEN deadline[a] ELSE now + Duration]]
  /\ UNCHANGED <<now, batch, attemptVars, slotVars, enqueuedAt, rec, sweep,
                 closing, pkg, podVars, extensions>>

StartBegin(r) ==
  /\ req[r].pc = "checked"
  /\ req' = [req EXCEPT ![r] = [pc |-> "begun", attempt |-> @.attempt,
                                deadline |-> @.deadline, began |-> now]]
  /\ UNCHANGED <<now, batch, attemptVars, slotVars, enqueuedAt, rec, sweep,
                 closing, pkg, podVars, extensions>>

(* assignReadySlotTx *)
Assign(a) ==
  \E s \in NextReady(slotState) :
    /\ slotState' = [slotState EXCEPT ![s] = "assigned"]
    /\ slotAttempt' = [slotAttempt EXCEPT ![s] = a]

(* Mutant: the insert into the entry queue is lost.                        *)
EnqueueLost(a, began) == enqueuedAt

EnqueuePos(a, began) ==
  IF enqueuedAt[a] = Null THEN [enqueuedAt EXCEPT ![a] = began] ELSE enqueuedAt

(* Mutant: a restart takes another slot.                                   *)
PlaceAgain(a, began) ==
  \/ /\ Waiting = {}
     /\ Assign(a)
     /\ UNCHANGED enqueuedAt
  \/ /\ Waiting # {} \/ NextReady(slotState) = {}
     /\ enqueuedAt' = EnqueuePos(a, began)
     /\ UNCHANGED slotVars

(* Mutant: a ready slot is taken past the students who wait.               *)
PlaceAtOnce(a, began) ==
  \/ /\ RowsOf(slotAttempt, a) # {}
     /\ UNCHANGED <<slotVars, enqueuedAt>>
  \/ /\ RowsOf(slotAttempt, a) = {}
     /\ Assign(a)
     /\ UNCHANGED enqueuedAt
  \/ /\ RowsOf(slotAttempt, a) = {}
     /\ NextReady(slotState) = {}
     /\ enqueuedAt' = EnqueuePos(a, began)
     /\ UNCHANGED slotVars

(* The slot of the attempt is kept in whatever state it is; without one,   *)
(* a ready slot is taken only if nobody waits.                             *)
PlaceStudent(a, began) ==
  \/ /\ RowsOf(slotAttempt, a) # {}
     /\ UNCHANGED <<slotVars, enqueuedAt>>
  \/ /\ RowsOf(slotAttempt, a) = {}
     /\ Waiting = {}
     /\ Assign(a)
     /\ UNCHANGED enqueuedAt
  \/ /\ RowsOf(slotAttempt, a) = {}
     /\ Waiting # {} \/ NextReady(slotState) = {}
     /\ enqueuedAt' = EnqueuePos(a, began)
     /\ UNCHANGED slotVars

(* Mutant: the batch is not looked at again inside the transaction.        *)
StartAdmitsAny(a) == Startable(a)

(* lockStatusTx and the status filter of startRunningTx.                   *)
StartAdmits(a) == batch = "open" /\ Startable(a)

StartTx(r) ==
  LET a == req[r].attempt IN
  /\ req[r].pc = "begun"
  /\ req' = [req EXCEPT ![r] = NoRequest]
  /\ \/ /\ StartAdmits(a)
        /\ status' = [status EXCEPT ![a] = "running"]
        /\ deadline' = [deadline EXCEPT ![a] = req[r].deadline]
        /\ PlaceStudent(a, req[r].began)
     \/ /\ ~StartAdmits(a)
        /\ UNCHANGED <<status, deadline, slotVars, enqueuedAt>>
  /\ UNCHANGED <<now, batch, submittedAt, closedBy, rec, sweep, closing, pkg,
                 podVars, extensions>>

-------------------------------------------------------------------------------
(* The four ways an attempt is closed, and the two operator actions on a   *)
(* live one.  Each is one transaction on the locked attempt row.           *)

(* markSubmittedTx or forceSubmitTx, markSubmittingTx and the audit event. *)
CloseAttempt(a, how) ==
  /\ status' = [status EXCEPT ![a] = "submitted"]
  /\ submittedAt' = [submittedAt EXCEPT ![a] = now]
  /\ closedBy' = [closedBy EXCEPT ![a] = how]
  /\ slotState' = MarkSubmitting(slotState, slotAttempt, a)
  /\ pkg' = [pkg EXCEPT ![a] = "due"]
  /\ UNCHANGED <<deadline, slotAttempt, enqueuedAt, batch, now, req, rec,
                 closing, podVars, extensions>>

Submit(a) ==
  /\ "submit" \in Events
  /\ status[a] = "running"
  /\ CloseAttempt(a, "examinee")
  /\ UNCHANGED sweep

(* The countdown of the student's own screen.                              *)
Expire(a) ==
  /\ "expire" \in Events
  /\ Overdue(a)
  /\ CloseAttempt(a, "auto")
  /\ UNCHANGED sweep

ForceSubmit(a) ==
  /\ "force" \in Events
  /\ Startable(a)
  /\ CloseAttempt(a, "ops")
  /\ UNCHANGED sweep

Voidable(a) == status[a] # "submitted"

VoidAttempt(a) ==
  /\ "void" \in Events
  /\ Voidable(a)
  /\ status' = [status EXCEPT ![a] = "void"]
  /\ UNCHANGED <<now, batch, deadline, submittedAt, closedBy, slotVars, enqueuedAt,
                 req, rec, sweep, closing, pkg, podVars, extensions>>

ExtendedDeadline(a, minutes) ==
  (IF deadline[a] # Null /\ deadline[a] > now THEN deadline[a] ELSE now) + minutes

(* Mutant: the WHERE clause has lost its status condition.                 *)
ExtendableAlways(a) == TRUE

(* extendDeadlineTx: the WHERE clause lets only live attempts move.        *)
Extendable(a) == Startable(a)

ExtendDeadline(a) ==
  /\ "extend" \in Events
  /\ extensions < MaxExtensions
  /\ Extendable(a)
  /\ deadline' = [deadline EXCEPT ![a] = ExtendedDeadline(a, 1)]
  /\ extensions' = extensions + 1
  /\ UNCHANGED <<now, batch, status, submittedAt, closedBy, slotVars, enqueuedAt,
                 req, rec, sweep, closing, pkg, podVars>>

-------------------------------------------------------------------------------
(* sweepDeadlines: a list read once, then one transaction per id.          *)

SweepList ==
  /\ "sweep" \in Events
  /\ sweep["ops"] = {}
  /\ ExpiredRunning # {}
  /\ sweep' = [sweep EXCEPT !["ops"] = ExpiredRunning]
  /\ UNCHANGED <<now, batch, attemptVars, slotVars, enqueuedAt, req, rec,
                 closing, pkg, podVars, extensions>>

(* The listed attempt may have changed since: Overdue is asked again.      *)
SweepOne(w, a) ==
  /\ a \in sweep[w]
  /\ sweep' = [sweep EXCEPT ![w] = @ \ {a}]
  /\ \/ /\ Overdue(a)
        /\ CloseAttempt(a, "auto")
     \/ /\ ~Overdue(a)
        /\ UNCHANGED <<now, batch, attemptVars, slotVars, enqueuedAt, req, rec,
                       closing, pkg, podVars, extensions>>

-------------------------------------------------------------------------------
(* triggerPackaging after the commit, the Job it creates, and the Job's    *)
(* callback.  The request that committed may die before it triggers.       *)

TriggerPackaging(a) ==
  /\ "package" \in Events
  /\ pkg[a] = "due"
  /\ \/ RowsOf(slotAttempt, a) # {} /\ pkg' = [pkg EXCEPT ![a] = "job"]
     \/ pkg' = [pkg EXCEPT ![a] = "skipped"]
  /\ UNCHANGED <<now, batch, attemptVars, slotVars, enqueuedAt, req, rec, sweep,
                 closing, podVars, extensions>>

(* A retried Job may call back more than once.                             *)
PackageCallback(a) ==
  /\ pkg[a] \in {"job", "packaged"}
  /\ status[a] = "submitted"
  /\ pkg' = [pkg EXCEPT ![a] = "packaged"]
  /\ slotState' = MarkRecycling(slotState, slotAttempt, a)
  /\ UNCHANGED <<now, batch, attemptVars, slotAttempt, enqueuedAt, req, rec,
                 sweep, closing, podVars, extensions>>

-------------------------------------------------------------------------------
(* reconcilePool.  A poll of the waiting room or a queued start takes the  *)
(* global advisory lock, sees an open batch, and works through its steps.  *)

ReconcileWanted ==
  \E a \in Attempts :
    enqueuedAt[a] # Null \/ (status[a] = "running" /\ ~Seated(a))

ReconcileLock ==
  /\ rec.pc = "idle"
  /\ ReconcileWanted
  /\ batch = "open"
  /\ rec' = [rec EXCEPT !.pc = "locked"]
  /\ UNCHANGED <<now, batch, attemptVars, slotVars, enqueuedAt, req, sweep,
                 closing, pkg, podVars, extensions>>

ListPods ==
  /\ rec.pc = "locked"
  /\ rec' = [rec EXCEPT !.pc = "listed", !.live = podReady]
  /\ UNCHANGED <<now, batch, attemptVars, slotVars, enqueuedAt, req, sweep,
                 closing, pkg, podVars, extensions>>

SyncSlotsUp ==
  /\ rec.pc = "listed"
  /\ rec' = [rec EXCEPT !.pc = "up"]
  /\ slotState' = SyncUp(slotState, rec.live)
  /\ UNCHANGED <<now, batch, attemptVars, slotAttempt, enqueuedAt, req, sweep,
                 closing, pkg, podVars, extensions>>

SyncSlotsDown ==
  /\ rec.pc = "up"
  /\ rec' = [rec EXCEPT !.pc = "down", !.live = {}]
  /\ slotState' = SyncDown(slotState, rec.live)
  /\ UNCHANGED <<now, batch, attemptVars, slotAttempt, enqueuedAt, req, sweep,
                 closing, pkg, podVars, extensions>>

(* Mutant: the time is added to the deadline of the start.                 *)
AddedTime(a) == deadline[a] + Duration

TimeFromSeat(a) == now + Duration

(* Step 2: one transaction per head, for as long as there is a ready slot. *)
(* The deadline of a live attempt restarts at the moment of the seat.      *)
AssignHead ==
  /\ rec.pc = "down"
  /\ \E a \in QueueHeads :
       /\ Assign(a)
       /\ enqueuedAt' = [enqueuedAt EXCEPT ![a] = Null]
       /\ deadline' = IF Startable(a) THEN [deadline EXCEPT ![a] = TimeFromSeat(a)]
                      ELSE deadline
  /\ UNCHANGED <<now, batch, status, submittedAt, closedBy, req, rec, sweep,
                 closing, pkg, podVars, extensions>>

(* Step 3: the larger of the warm line and the demand, within the pool.    *)
Used == Cardinality(RowsIn(slotState, UsedState))
Larger(m, n) == IF m > n THEN m ELSE n
Smaller(m, n) == IF m < n THEN m ELSE n

(* Mutants: no upper bound; the pods in use are not counted.               *)
DemandUncapped == Larger(WarmCount, Used + Cardinality(Waiting))
DemandWaitingOnly == Smaller(PoolSize, Larger(WarmCount, Cardinality(Waiting)))

DesiredReplicas == Smaller(PoolSize, Larger(WarmCount, Used + Cardinality(Waiting)))

(* The counts and the current replicas are read here, written in Scale.    *)
MeasurePool ==
  /\ rec.pc = "down"
  /\ Waiting = {} \/ NextReady(slotState) = {}
  /\ rec' = IF DesiredReplicas > replicas
            THEN [pc |-> "scale", live |-> {}, desired |-> DesiredReplicas]
            ELSE NoReconcile
  /\ UNCHANGED <<now, batch, attemptVars, slotVars, enqueuedAt, req, sweep,
                 closing, pkg, podVars, extensions>>

Scale ==
  /\ rec.pc = "scale"
  /\ replicas' = rec.desired
  /\ rec' = NoReconcile
  /\ UNCHANGED <<now, batch, attemptVars, slotVars, enqueuedAt, req, sweep,
                 closing, pkg, podReady, podLosses, extensions>>

(* A cluster call or a statement that throws is caught, a process that     *)
(* dies loses its session: either way the advisory lock is released.       *)
ReconcileFails ==
  /\ rec.pc # "idle"
  /\ rec' = NoReconcile
  /\ UNCHANGED <<now, batch, attemptVars, slotVars, enqueuedAt, req, sweep,
                 closing, pkg, podVars, extensions>>

-------------------------------------------------------------------------------
(* closeBatchEnvAction: the status first, then closeBatch step by step.    *)

CloseStatus ==
  /\ "close" \in Events
  /\ closing.pc = "no"
  /\ batch' = "closed"
  /\ closing' = [closing EXCEPT !.pc = "listing"]
  /\ UNCHANGED <<now, attemptVars, slotVars, enqueuedAt, req, rec, sweep, pkg,
                 podVars, extensions>>

CloseList ==
  /\ closing.pc = "listing"
  /\ sweep' = [sweep EXCEPT !["close"] = ExpiredRunning]
  /\ closing' = [pc |-> "sweeping", listedAt |-> now]
  /\ UNCHANGED <<now, batch, attemptVars, slotVars, enqueuedAt, req, rec, pkg,
                 podVars, extensions>>

CloseSwept ==
  /\ closing.pc = "sweeping"
  /\ sweep["close"] = {}
  /\ closing' = [closing EXCEPT !.pc = "scaling"]
  /\ UNCHANGED <<now, batch, attemptVars, slotVars, enqueuedAt, req, rec, sweep,
                 pkg, podVars, extensions>>

(* Best effort: a failing cluster call is reported and passed over.        *)
CloseScale ==
  /\ closing.pc = "scaling"
  /\ closing' = [closing EXCEPT !.pc = "marking"]
  /\ \/ replicas' = 0 /\ podReady' = {}
     \/ UNCHANGED <<replicas, podReady>>
  /\ UNCHANGED <<now, batch, attemptVars, slotVars, enqueuedAt, req, rec, sweep,
                 pkg, podLosses, extensions>>

CloseMarkDown ==
  /\ closing.pc = "marking"
  /\ closing' = [closing EXCEPT !.pc = "clearing"]
  /\ slotState' = MarkBatchDown(slotState)
  /\ UNCHANGED <<now, batch, attemptVars, slotAttempt, enqueuedAt, req, rec,
                 sweep, pkg, podVars, extensions>>

CloseClearQueue ==
  /\ closing.pc = "clearing"
  /\ closing' = [closing EXCEPT !.pc = "done"]
  /\ enqueuedAt' = [a \in Attempts |-> Null]
  /\ UNCHANGED <<now, batch, attemptVars, slotVars, req, rec, sweep, pkg,
                 podVars, extensions>>

-------------------------------------------------------------------------------
(* The environment: Kubernetes, pods that register themselves, the clock.  *)

PodReady(s) ==
  /\ s < replicas
  /\ s \notin podReady
  /\ podReady' = podReady \cup {s}
  /\ UNCHANGED <<now, batch, attemptVars, slotVars, enqueuedAt, req, rec, sweep,
                 closing, pkg, replicas, podLosses, extensions>>

PodLost(s) ==
  /\ podLosses < MaxPodLosses
  /\ s \in podReady
  /\ podReady' = podReady \ {s}
  /\ podLosses' = podLosses + 1
  /\ UNCHANGED <<now, batch, attemptVars, slotVars, enqueuedAt, req, rec, sweep,
                 closing, pkg, replicas, extensions>>

(* POST /api/internal/slots/register                                       *)
RegisterSlot(s) ==
  /\ "register" \in Events
  /\ s < replicas
  /\ slotState' = Register(slotState, s, "ready")
  /\ UNCHANGED <<now, batch, attemptVars, slotAttempt, enqueuedAt, req, rec,
                 sweep, closing, pkg, podVars, extensions>>

Tick ==
  /\ now < MaxTime
  /\ now' = now + 1
  /\ UNCHANGED <<batch, attemptVars, slotVars, enqueuedAt, req, rec, sweep,
                 closing, pkg, podVars, extensions>>

-------------------------------------------------------------------------------
Starting == \E r \in Requests :
  \/ \E a \in Attempts : StartCheck(r, a)
  \/ StartBegin(r)
  \/ StartTx(r)

Finishing == \E a \in Attempts :
  \/ Submit(a)
  \/ Expire(a)
  \/ ForceSubmit(a)
  \/ VoidAttempt(a)
  \/ ExtendDeadline(a)
  \/ TriggerPackaging(a)
  \/ PackageCallback(a)

Sweeping ==
  \/ SweepList
  \/ \E w \in Sweepers, a \in Attempts : SweepOne(w, a)

Reconciling ==
  \/ ReconcileLock
  \/ ListPods
  \/ SyncSlotsUp
  \/ SyncSlotsDown
  \/ AssignHead
  \/ MeasurePool
  \/ Scale
  \/ ReconcileFails

ClosingDown ==
  \/ CloseStatus
  \/ CloseList
  \/ CloseSwept
  \/ CloseScale
  \/ CloseMarkDown
  \/ CloseClearQueue

Environment ==
  \/ \E s \in Slots : PodReady(s) \/ PodLost(s) \/ RegisterSlot(s)
  \/ Tick

Next == Starting \/ Finishing \/ Sweeping \/ Reconciling \/ ClosingDown \/ Environment

Spec == Init /\ [][Next]_vars
-------------------------------------------------------------------------------
(* Safety.                                                                 *)

HasSlot(a) == RowsOf(slotAttempt, a) # {}

(* attempt_id is UNIQUE in hosted.slots, and a second row for an attempt   *)
(* makes the transaction fail (the 23505 of startExam's comment).  Neither *)
(* startExam nor reconcilePool ever tries: no attempt has two rows, none   *)
(* that waits in the queue has one, and a used row has its attempt.        *)
SeatInv ==
  /\ \A s, t \in Slots : slotAttempt[s] = slotAttempt[t] /\ slotAttempt[s] # Null => s = t
  /\ \A a \in Waiting : ~HasSlot(a)
  /\ \A s \in Slots : slotState[s] \in UsedState => slotAttempt[s] # Null

(* The seats as SeatAllocation sees them: assignReadySlotTx never takes a  *)
(* seat somebody uses, and only the teardown empties one.                  *)
Holder == [s \in Slots |-> IF slotState[s] \in UsedState THEN slotAttempt[s] ELSE Null]
Seats == INSTANCE SeatAllocation WITH
  Student <- Attempts, Seat <- Slots, Nobody <- Null, holder <- Holder
SeatsAreAllocated == Seats!Spec

(* The rows of exam.attempts as AttemptRecord promises them: starts that   *)
(* read the deadline before their transaction, the reconciler and the      *)
(* operators together never give anybody more than a whole exam and what   *)
(* was granted, and nothing moves an attempt that has ended.               *)
(* (startExam, reconcilePool, extendDeadlineTx)                            *)
Row == INSTANCE AttemptRecord WITH
  Attempt <- Attempts, Full <- Duration, None <- Null, granted <- extensions
RowsKeepTheirPromise == Row!Spec

(* No running student falls between the pool and the queue: while the      *)
(* batch is open startExam and reconcilePool leave each of them with an    *)
(* assigned slot or a place in the queue.                                  *)
RunningIsPlaced ==
  batch = "open" =>
    \A a \in Attempts : status[a] = "running" => Seated(a) \/ enqueuedAt[a] # Null

(* A slot is submitting or recycling only for an attempt that is closed:   *)
(* markSubmittingTx and markRecyclingTx never take the pod of a student    *)
(* who is still working.                                                   *)
ReleasedSlotsAreSubmitted ==
  \A s \in Slots : slotState[s] \in {"submitting", "recycling"} =>
    status[slotAttempt[s]] = "submitted"

(* An attempt collected by the deadline was overdue by the deadline it has *)
(* in the end: an extension granted between the sweep's list and its       *)
(* transaction is honoured, and none is granted afterwards.                *)
AutoCollectedWasOverdue ==
  \A a \in Attempts : closedBy[a] = "auto" =>
    deadline[a] # Null /\ deadline[a] <= submittedAt[a]

(* What closeBatch's sweep is for: once it has run, nobody whose deadline  *)
(* had passed when it listed the attempts is still running.  It needs      *)
(* startExam's second look at the batch and the sweep's own transaction.   *)
CloseLeavesNoOverdue ==
  closing.pc \in {"scaling", "marking", "clearing", "done"} =>
    \A a \in Attempts : status[a] = "running" =>
      deadline[a] # Null /\ deadline[a] >= closing.listedAt

(* startExam checks the batch, and a close may commit before its           *)
(* transaction: nobody becomes running in a batch that is not open.        *)
ClosedAdmitsNobody ==
  [][batch # "open" =>
       \A a \in Attempts : status'[a] = "running" => status[a] = "running"]_vars

(* submitted is terminal: no late sweep, extension, void or restart moves  *)
(* the attempt, its times or the record of who closed it.                  *)
SubmittedIsFinal ==
  [][\A a \in Attempts : status[a] = "submitted" =>
       /\ status'[a] = "submitted"
       /\ deadline'[a] = deadline[a]
       /\ submittedAt'[a] = submittedAt[a]
       /\ closedBy'[a] = closedBy[a]]_vars

(* No queue jumping: whoever gets a slot while somebody is waiting, and    *)
(* goes on waiting, was in the queue and not after that student.           *)
NoOvertaking ==
  [][\A a, b \in Attempts :
       enqueuedAt[a] # Null /\ enqueuedAt'[a] # Null /\ ~HasSlot(b) /\ HasSlot(b)' =>
         enqueuedAt[b] # Null /\ enqueuedAt[b] <= enqueuedAt[a]]_vars

-------------------------------------------------------------------------------
(* Liveness.  A student whose waiting room is open polls for ever and each *)
(* poll offers a reconcile; no step of it fails every time it is reached;  *)
(* a pod that is asked for becomes Ready.                                  *)

PolledReconcile ==
  /\ \E a \in Attempts : status[a] = "running" /\ ~Seated(a)
  /\ ReconcileLock

Fairness ==
  /\ WF_vars(PolledReconcile)
  /\ SF_vars(ListPods)
  /\ SF_vars(SyncSlotsUp)
  /\ SF_vars(SyncSlotsDown)
  /\ SF_vars(AssignHead)
  /\ SF_vars(MeasurePool)
  /\ SF_vars(Scale)
  /\ \A s \in Slots : WF_vars(PodReady(s))

FairSpec == Spec /\ Fairness

(* Nobody waits for ever: a running student in the queue gets a seat,      *)
(* unless the attempt ends or the batch closes.  The pool must have room   *)
(* for the roster, and MeasurePool must ask for enough pods.               *)
WaitersAreSeated ==
  \A a \in Attempts :
    (status[a] = "running" /\ enqueuedAt[a] # Null)
      ~> (Seated(a) \/ status[a] # "running" \/ batch # "open")

-------------------------------------------------------------------------------
(* What the repository says and the code does not do; the README quotes    *)
(* the text.                                                               *)

(* "No busy slot is left" once the close has run.                          *)
ClosedRoomIsEmpty ==
  closing.pc = "done" => RowsIn(slotState, BusyState) = {}
===============================================================================
