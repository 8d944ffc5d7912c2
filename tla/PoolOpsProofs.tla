---------------------------- MODULE PoolOpsProofs ----------------------------
(***************************************************************************)
(* What the operators' two rules are worth: while sessions come one at a   *)
(* time and an open batch is torn down only by the action that closes it,  *)
(* whatever fails in a provision or a close, a student of an open batch is *)
(* alone in a workspace of that batch and spends a key its close will      *)
(* find.                                                                   *)
(***************************************************************************)
EXTENDS PoolOps, FiniteSetTheorems, TLAPS

Disciplined == RuleNames \subseteq Rules

(* "alone" as an invariant: one operation, and not next to an open batch.  *)
OneOperation ==
  \A o \in Operators : op[o].pc # "idle" =>
    /\ \A p \in Operators \ {o} : op[p].pc = "idle"
    /\ \A b \in Batches : batch[b] # "open"

(* The ConfigMap names the batch that is open, that is being reconciled,   *)
(* that still has busy rows.                                               *)
ConfigMapIsCurrent ==
  /\ \A b \in Batches : batch[b] = "open" => configMap = b
  /\ rec.pc # "idle" => configMap = rec.batch
  /\ \A b \in Batches : RowsIn(slotState[b], BusyState) # {} => configMap = b

Provisions == {o \in Operators : op[o].pc \in ProvisionPc}

ProvisionsAreUndisturbed ==
  Provisions # {} => rec.pc = "idle" /\ ~HasBusySlots

(* A batch that was never open has left no trace.                          *)
ScheduledIsUntouched ==
  \A b \in Batches : batch[b] = "scheduled" =>
    /\ \A a \in Attempts : BatchOf[a] = b => attempt[a] = "ready" /\ a \notin waiting
    /\ \A s \in DOMAIN slotAttempt[b] : slotAttempt[b][s] = Null
    /\ configMap = b => \A s \in Slots : volume[s].work = {}

(* What a provision has achieved when it stands before step pc.            *)
Keyed == {"config", "secret", "warm", "reset", "queue", "register", "open"}
Mapped == Keyed \ {"config"}
Sealed == Mapped \ {"secret"}
Vacated == {"queue", "register", "open"}
Clean == {"key", "config", "secret", "warm"}
Empty == {"jobs", "volumes", "wiping"} \cup Clean

StageHolds(o) ==
  /\ op[o].pc \in {"draining"} \cup Empty => replicas = 0
  /\ op[o].pc \in Empty => pods = {}
  /\ op[o].pc \in Clean => Wiped
  /\ op[o].pc \in {"key"} \cup Keyed => \A s \in Slots : volume[s].work = {}
  /\ op[o].pc \in Keyed => \E k \in Keys : op[o].keys = {k}
  /\ op[o].pc \in Mapped => configMap = op[o].batch
  /\ op[o].pc \in Sealed => secret \in op[o].keys
  /\ op[o].pc \in Vacated =>
       \A s \in DOMAIN slotAttempt[op[o].batch] : slotAttempt[op[o].batch][s] = Null
  /\ op[o].pc = "open" =>
       /\ DOMAIN slotKey[op[o].batch] = Slots
       /\ \A s \in Slots : slotKey[op[o].batch][s] \in op[o].keys

StagesHold == \A o \in Operators : StageHolds(o)

(* Every volume, and there is one under every pod, has the scaffold of the *)
(* current batch.                                                          *)
VolumesAreCurrent ==
  /\ \A s \in Slots : volume[s] # NoVolume => volume[s].seed = configMap
  /\ \A s \in pods : volume[s] # NoVolume

(* In an open batch a volume has been worked on by the holder of its row   *)
(* only, and a row that may be assigned has none.                          *)
WorkIsTheHolders ==
  \A b \in Batches : batch[b] = "open" =>
    /\ DOMAIN slotState[b] = Slots
    /\ \A s \in Slots : /\ volume[s].work \subseteq {slotAttempt[b][s]}
                        /\ slotState[b][s] \in UnassignedState => slotAttempt[b][s] = Null

KeysAreRecorded ==
  /\ \A b \in Batches : batch[b] = "open" => Provisioned(b)
  /\ secret # Null => \A s \in pods : podKey[s] = secret

SessionInv ==
  /\ OneOperation /\ ConfigMapIsCurrent /\ ProvisionsAreUndisturbed
  /\ ScheduledIsUntouched /\ StagesHold
  /\ VolumesAreCurrent /\ WorkIsTheHolders /\ KeysAreRecorded
-------------------------------------------------------------------------------
(* Types. *)

(* The three columns of hosted.slots, which have the same rows.            *)
RowsTyped ==
  /\ slotState \in [Batches -> Columns(SlotState)]
  /\ slotAttempt \in [Batches -> Columns(Attempts \cup {Null})]
  /\ slotKey \in [Batches -> Columns(Keys \cup {Null})]
  /\ \A b \in Batches : /\ DOMAIN slotAttempt[b] = DOMAIN slotState[b]
                        /\ DOMAIN slotKey[b] = DOMAIN slotState[b]

(* What is under way is under way for a batch.                             *)
RequestsNameABatch ==
  /\ rec.pc # "idle" => rec.batch \in Batches
  /\ \A o \in Operators : op[o].pc # "idle" => op[o].batch \in Batches

(* What becomes of a volume.                                               *)
LEMMA VolumeRecords ==
  ASSUME NEW v \in Volume, NEW W \in SUBSET Attempts, NEW d \in BOOLEAN,
         NEW c \in Batches \cup {Null}
  PROVE  /\ [v EXCEPT !.work = W] \in Volume
         /\ [v EXCEPT !.doomed = d] \in Volume
         /\ [NoVolume EXCEPT !.seed = c] \in Volume
         /\ NoVolume \in Volume
BY DEF Volume, NoVolume

LEMMA DoomedVolume ==
  ASSUME NEW v \in Volume
  PROVE  LET w == [v EXCEPT !.doomed = v # NoVolume]
         IN  w.work = v.work /\ w.seed = v.seed /\ (v = NoVolume <=> w = NoVolume)
<1>1. CASE v = NoVolume
  <2>1. [v EXCEPT !.doomed = FALSE] = v
    BY <1>1 DEF Volume, NoVolume
  <2>2. (v # NoVolume) = FALSE
    BY <1>1
  <2> QED BY <1>1, <2>1, <2>2
<1>2. CASE v # NoVolume
  <2>1. [v EXCEPT !.doomed = TRUE] # NoVolume
    BY DEF Volume, NoVolume
  <2> QED BY <1>2, <2>1 DEF Volume
<1> QED BY <1>1, <1>2

(* A column is a function on some of the slot numbers.                     *)
LEMMA ColumnsAreFunctions ==
  ASSUME NEW S
  PROVE  /\ \A f \in Columns(S) : f \in [DOMAIN f -> S] /\ DOMAIN f \subseteq Slots
         /\ \A D \in SUBSET Slots : [D -> S] \subseteq Columns(S)
BY DEF Columns

(* The rows of one batch, one by one.                                      *)
LEMMA RowTypes ==
  ASSUME TypeOK, NEW b \in Batches
  PROVE  /\ DOMAIN slotState[b] \subseteq Slots
         /\ slotState[b] \in [DOMAIN slotState[b] -> SlotState]
         /\ slotAttempt[b] \in [DOMAIN slotState[b] -> Attempts \cup {Null}]
         /\ slotKey[b] \in [DOMAIN slotState[b] -> Keys \cup {Null}]
<1>1. /\ slotState[b] \in Columns(SlotState) /\ slotAttempt[b] \in Columns(Attempts \cup {Null})
      /\ slotKey[b] \in Columns(Keys \cup {Null})
      /\ DOMAIN slotAttempt[b] = DOMAIN slotState[b] /\ DOMAIN slotKey[b] = DOMAIN slotState[b]
  BY DEF TypeOK
<1> QED BY <1>1, ColumnsAreFunctions

(* A statement that rewrites the rows of one batch leaves typed rows, and  *)
(* those of the other batches alone.                                       *)
LEMMA RowsRewritten ==
  ASSUME TypeOK, NEW b \in Batches, NEW D \in SUBSET Slots,
         NEW f \in [D -> SlotState], NEW g \in [D -> Attempts \cup {Null}],
         NEW h \in [D -> Keys \cup {Null}],
         slotState' = [slotState EXCEPT ![b] = f],
         slotAttempt' = [slotAttempt EXCEPT ![b] = g],
         slotKey' = [slotKey EXCEPT ![b] = h]
  PROVE  RowsTyped'
<1>1. /\ f \in Columns(SlotState) /\ g \in Columns(Attempts \cup {Null})
      /\ h \in Columns(Keys \cup {Null})
  BY ColumnsAreFunctions
<1> QED BY <1>1 DEF TypeOK, RowsTyped

(* One that writes the state column only.                                  *)
LEMMA StatesRewritten ==
  ASSUME TypeOK, NEW b \in Batches, NEW f \in [DOMAIN slotState[b] -> SlotState],
         slotState' = [slotState EXCEPT ![b] = f], UNCHANGED <<slotAttempt, slotKey>>
  PROVE  RowsTyped'
<1>1. f \in Columns(SlotState)
  BY RowTypes, ColumnsAreFunctions
<1> QED BY <1>1 DEF TypeOK, RowsTyped

(* What the statements that set the state of rows return.                  *)
LEMMA MarksAreTyped ==
  ASSUME NEW D, NEW st \in [D -> SlotState], NEW ow, NEW a, NEW live
  PROVE  /\ MarkSubmitting(st, ow, a) \in [D -> SlotState]
         /\ MarkRecycling(st, ow, a) \in [D -> SlotState]
         /\ SyncDown(SyncUp(st, live), live) \in [D -> SlotState]
         /\ MarkBatchDown(st) \in [D -> SlotState]
BY DEF MarkSubmitting, MarkRecycling, SyncDown, SyncUp, MarkBatchDown, SlotState

(* assignReadySlotTx gives one ready row of b to a.                        *)
LEMMA AssignedRow ==
  ASSUME TypeOK, NEW b \in Batches, NEW a \in Attempts, AssignReady(b, a)
  PROVE  \E s \in DOMAIN slotState[b] :
           /\ slotState[b][s] = "ready"
           /\ slotState' = [slotState EXCEPT ![b] = [@ EXCEPT ![s] = "assigned"]]
           /\ slotAttempt' = [slotAttempt EXCEPT ![b] = [@ EXCEPT ![s] = a]]
BY DEF AssignReady, NextReady, RowsIn

LEMMA AssignTyped ==
  ASSUME TypeOK, NEW b \in Batches, NEW a \in Attempts, AssignReady(b, a), UNCHANGED slotKey
  PROVE  RowsTyped'
<1>1. PICK s \in DOMAIN slotState[b] :
        /\ slotState' = [slotState EXCEPT ![b] = [@ EXCEPT ![s] = "assigned"]]
        /\ slotAttempt' = [slotAttempt EXCEPT ![b] = [@ EXCEPT ![s] = a]]
  BY AssignedRow
<1> DEFINE f == [slotState[b] EXCEPT ![s] = "assigned"]
           g == [slotAttempt[b] EXCEPT ![s] = a]
<1>2. f \in [DOMAIN slotState[b] -> SlotState] /\ g \in [DOMAIN slotState[b] -> Attempts \cup {Null}]
  BY RowTypes DEF SlotState
<1>3. slotKey' = [slotKey EXCEPT ![b] = slotKey[b]]
  BY DEF TypeOK
<1>4. slotState' = [slotState EXCEPT ![b] = f] /\ slotAttempt' = [slotAttempt EXCEPT ![b] = g]
  BY <1>1
<1> HIDE DEF f, g
<1> QED BY <1>2, <1>3, <1>4, RowTypes, RowsRewritten

(* reconcilePool asks for at least nothing and at most the pool.           *)
LEMMA DesiredInPool ==
  ASSUME TypeOK, NEW b \in Batches
  PROVE  Desired(b) \in 0 .. PoolSize
<1>1. Cardinality(RowsIn(slotState[b], UsedState)) \in Nat
  <2>1. RowsIn(slotState[b], UsedState) \subseteq Slots
    BY RowTypes DEF RowsIn
  <2>2. IsFiniteSet(Slots)
    BY FS_Interval, SizeAssumption DEF Slots
  <2> QED BY <2>1, <2>2, FS_Subset, FS_CardinalityType
<1>2. Cardinality(WaitingFor(b)) \in Nat
  BY RosterAssumption, FS_Subset, FS_CardinalityType DEF WaitingFor, TypeOK
<1> QED BY <1>1, <1>2, SizeAssumption DEF Desired, Smaller, Larger

(* Studying and packaging keep the types.                                  *)
LEMMA HallTyped ==
  ASSUME TypeOK, Studying \/ Packaging
  PROVE  TypeOK'
<1> USE NullAssumption, RosterAssumption
<1>1. ASSUME NEW a \in Attempts, Start(a) PROVE TypeOK'
  <2>1. RowsTyped'
    <3>1. CASE AssignReady(BatchOf[a], a)
      BY <1>1, <3>1, AssignTyped DEF Start
    <3>2. CASE UNCHANGED <<slotState, slotAttempt>>
      BY <1>1, <3>2 DEF Start, TypeOK, RowsTyped
    <3> QED BY <1>1, <3>1, <3>2 DEF Start
  <2> QED BY <1>1, <2>1 DEF Start, TypeOK, RowsTyped, AttemptStatus, keyVars, podVars, clusterVars
<1>2. ASSUME NEW a \in Attempts, NEW s \in Slots, Work(a, s) PROVE TypeOK'
  <2>1. [volume[s] EXCEPT !.work = @ \cup {a}] \in Volume
    <3>1. volume[s] \in Volume /\ volume[s].work \cup {a} \in SUBSET Attempts
      BY DEF TypeOK, Volume
    <3> QED BY <3>1, VolumeRecords
  <2>2. volume' \in [Slots -> Volume]
    BY <1>2, <2>1 DEF Work, TypeOK
  <2> QED BY <1>2, <2>2 DEF Work, TypeOK, hallVars, rowVars, keyVars, podVars, clusterVars
<1>3. ASSUME NEW a \in Attempts, Submit(a) PROVE TypeOK'
  <2>1. RowsTyped'
    BY <1>3, RowTypes, MarksAreTyped, StatesRewritten DEF Submit, CloseAttempt
  <2> QED BY <1>3, <2>1 DEF Submit, CloseAttempt, TypeOK, RowsTyped, AttemptStatus, keyVars,
                            podVars, clusterVars
<1>4. ASSUME NEW a \in Attempts, TriggerPackaging(a) PROVE TypeOK'
  <2>1. JobsFor(a) \subseteq Job
    BY RowTypes DEF JobsFor, SlotsHeldBy, RowsOf, Job
  <2> QED BY <1>4, <2>1 DEF TriggerPackaging, TypeOK, rowVars, keyVars, podVars, clusterVars
<1>5. ASSUME NEW j \in jobs, JobDone(j) PROVE TypeOK'
  <2>1. j.attempt \in Attempts /\ j.slot \in Slots
    BY DEF TypeOK, Job
  <2>2. RowsTyped'
    BY <1>5, <2>1, RowTypes, MarksAreTyped, StatesRewritten DEF JobDone
  <2>3. captured' \in [Attempts -> {Null} \cup SUBSET Attempts]
    BY <1>5, <2>1 DEF JobDone, TypeOK, Volume
  <2> QED BY <1>5, <2>2, <2>3 DEF JobDone, TypeOK, RowsTyped, hallVars, keyVars, podVars, clusterVars
<1> QED BY <1>1, <1>2, <1>3, <1>4, <1>5 DEF Studying, Packaging

LEMMA ReconcilingTyped ==
  ASSUME TypeOK, RequestsNameABatch, Reconciling
  PROVE  TypeOK'
<1> USE NullAssumption
<1>1. ASSUME NEW b \in Batches, ReconcileLock(b) PROVE TypeOK'
  BY <1>1 DEF ReconcileLock, TypeOK, Reconcile, hallVars, rowVars, keyVars, podVars, clusterVars
<1>2. CASE ListPods
  BY <1>2 DEF ListPods, TypeOK, Reconcile, hallVars, rowVars, keyVars, podVars, clusterVars
<1>3. rec.pc # "idle" => rec.batch \in Batches
  BY DEF RequestsNameABatch
<1>4. CASE SyncSlots
  <2>1. rec' \in Reconcile
    BY <1>4 DEF SyncSlots, TypeOK, Reconcile
  <2>2. RowsTyped'
    BY <1>3, <1>4, RowTypes, MarksAreTyped, StatesRewritten DEF SyncSlots
  <2> QED BY <1>4, <2>1, <2>2 DEF SyncSlots, TypeOK, RowsTyped, hallVars, keyVars, podVars, clusterVars
<1>5. CASE AssignHead
  <2>1. PICK a \in WaitingFor(rec.batch) : AssignReady(rec.batch, a) /\ waiting' = waiting \ {a}
    BY <1>5 DEF AssignHead
  <2>2. a \in Attempts /\ rec.batch \in Batches
    BY <1>3, <1>5 DEF AssignHead, WaitingFor, TypeOK
  <2>3. RowsTyped'
    BY <1>5, <2>1, <2>2, AssignTyped DEF AssignHead
  <2> QED BY <1>5, <2>1, <2>3 DEF AssignHead, TypeOK, RowsTyped, keyVars, podVars, clusterVars
<1>6. CASE ScaleUp
  <2>1. replicas' \in 0 .. PoolSize
    BY <1>3, <1>6, SizeAssumption, DesiredInPool DEF ScaleUp, Larger, TypeOK
  <2> QED BY <1>6, <2>1 DEF ScaleUp, TypeOK, NoReconcile, Reconcile, hallVars, rowVars, keyVars, podVars
<1>7. CASE ReconcileFails
  BY <1>7 DEF ReconcileFails, TypeOK, NoReconcile, Reconcile, hallVars, rowVars, keyVars, podVars,
              clusterVars
<1> QED BY <1>1, <1>2, <1>4, <1>5, <1>6, <1>7 DEF Reconciling

(* What a request of an operator may become.                               *)
LEMMA OpTyped ==
  ASSUME TypeOK, NEW o \in Operators, NEW r \in Op, op' = [op EXCEPT ![o] = r]
  PROVE  op' \in [Operators -> Op]
BY DEF TypeOK

LEMMA OpRecords ==
  ASSUME NEW r \in Op, NEW to \in ProvisionPc \cup ClosePc, NEW K \in SUBSET Keys
  PROVE  /\ [r EXCEPT !.pc = to] \in Op
         /\ [r EXCEPT !.keys = K] \in Op
BY DEF Op

LEMMA KeysTyped ==
  ASSUME TypeOK, NEW o \in Operators, NEW to \in ProvisionPc \cup ClosePc,
         NEW K \in SUBSET Keys, op' = [op EXCEPT ![o].pc = to, ![o].keys = K]
  PROVE  /\ op' \in [Operators -> Op]
         /\ op'[o].pc = to /\ op'[o].keys = K /\ op'[o].batch = op[o].batch
         /\ \A p \in Operators \ {o} : op'[p] = op[p]
<1> DEFINE m == [op EXCEPT ![o].pc = to]
<1>1. m \in [Operators -> Op] /\ m[o] = [op[o] EXCEPT !.pc = to]
      /\ \A p \in Operators \ {o} : m[p] = op[p]
  <2>1. [op[o] EXCEPT !.pc = to] \in Op
    BY DEF TypeOK, Op
  <2> QED BY <2>1 DEF TypeOK
<1>2. op' = [m EXCEPT ![o].keys = K]
  OBVIOUS
<1> HIDE DEF m
<1>3. [m[o] EXCEPT !.keys = K] \in Op
  BY <1>1, OpRecords
<1>4. /\ op'[o].pc = m[o].pc /\ op'[o].keys = K /\ op'[o].batch = m[o].batch
      /\ \A p \in Operators \ {o} : op'[p] = m[p]
      /\ op' \in [Operators -> Op]
  BY <1>1, <1>2, <1>3 DEF Op
<1>5. m[o].pc = to /\ m[o].batch = op[o].batch
  BY <1>1 DEF TypeOK, Op
<1> QED BY <1>1, <1>4, <1>5

LEMMA StepTyped ==
  ASSUME TypeOK, NEW o \in Operators, NEW from, NEW to \in ProvisionPc \cup ClosePc,
         Advance(o, from, to)
  PROVE  op' \in [Operators -> Op]
<1>1. [op[o] EXCEPT !.pc = to] \in Op
  BY DEF TypeOK, Op
<1> QED BY <1>1, OpTyped DEF Advance, TypeOK

LEMMA ProvisioningTyped ==
  ASSUME TypeOK, RequestsNameABatch, NEW o \in Operators, Provisioning(o)
  PROVE  TypeOK'
<1> USE NullAssumption, SizeAssumption DEF hallVars, rowVars, keyVars, podVars, clusterVars
<1>1. ASSUME NEW b \in Batches, NEW via \in {"action", "route"}, ProvisionStart(o, b, via)
      PROVE  TypeOK'
  <2>1. [pc |-> "scale0", batch |-> b, via |-> via, keys |-> {}] \in Op
    BY DEF Op, ProvisionPc
  <2> QED BY <1>1, <2>1, OpTyped DEF ProvisionStart, TypeOK
<1>2. CASE ScaleToZero(o)
  <2>1. 0 \in 0 .. PoolSize
    OBVIOUS
  <2> QED BY <1>2, <2>1, StepTyped DEF ScaleToZero, ProvisionPc, TypeOK
<1>3. CASE Drained(o)
  BY <1>3, StepTyped DEF Drained, ProvisionPc, TypeOK
<1>4. CASE DeleteJobs(o)
  BY <1>4, StepTyped DEF DeleteJobs, ProvisionPc, TypeOK
<1>5. CASE DeleteVolumes(o)
  <2>1. \A s \in Slots : [volume[s] EXCEPT !.doomed = volume[s] # NoVolume] \in Volume
    BY VolumeRecords DEF TypeOK
  <2>2. volume' \in [Slots -> Volume]
    BY <1>5, <2>1 DEF DeleteVolumes
  <2> QED BY <1>5, <2>2, StepTyped DEF DeleteVolumes, ProvisionPc, TypeOK
<1>6. CASE WaitForWipe(o)
  BY <1>6, StepTyped DEF WaitForWipe, ProvisionPc, TypeOK
<1>7. CASE GenerateKey(o)
  <2>1. issued \in Nat /\ issued + 1 \in Keys /\ issued' \in 0 .. MaxKeys
    BY <1>7 DEF GenerateKey, TypeOK, Keys
  <2>2. {issued + 1} \in SUBSET Keys /\ "config" \in ProvisionPc
    BY <2>1 DEF ProvisionPc
  <2>3. op' \in [Operators -> Op]
    BY <1>7, <2>2, KeysTyped DEF GenerateKey
  <2> QED BY <1>7, <2>1, <2>3 DEF GenerateKey, TypeOK
<1>8. CASE ApplyConfigMap(o)
  <2>1. op[o].batch \in Batches \cup {Null}
    BY DEF TypeOK, Op
  <2> QED BY <1>8, <2>1, StepTyped DEF ApplyConfigMap, ProvisionPc, TypeOK
<1>9. CASE ApplySecret(o)
  <2>1. op[o].keys \subseteq Keys
    BY DEF TypeOK, Op
  <2> QED BY <1>9, <2>1, StepTyped DEF ApplySecret, ProvisionPc, TypeOK
<1>10. CASE ScaleToWarm(o)
  BY <1>10, StepTyped DEF ScaleToWarm, ProvisionPc, TypeOK
<1>11. CASE ResetBatchSlots(o)
  <2>1. op[o].batch \in Batches
    BY <1>11 DEF ResetBatchSlots, Advance, RequestsNameABatch
  <2> DEFINE b == op[o].batch
  <2>2. /\ Blank(b, "down") \in [DOMAIN slotState[b] -> SlotState]
        /\ \A S : Blank(b, Null) \in [DOMAIN slotState[b] -> S \cup {Null}]
    BY DEF Blank, SlotState
  <2>3. RowsTyped'
    BY <1>11, <2>1, <2>2, RowTypes, RowsRewritten DEF ResetBatchSlots
  <2> QED BY <1>11, <2>3, StepTyped DEF ResetBatchSlots, ProvisionPc, TypeOK, RowsTyped
<1>12. CASE ClearQueue(o, "queue", "register")
  BY <1>12, StepTyped DEF ClearQueue, ProvisionPc, TypeOK
<1>13. CASE RegisterSlots(o)
  <2>1. op[o].batch \in Batches /\ op[o].keys \subseteq Keys
    BY <1>13 DEF RegisterSlots, Advance, RequestsNameABatch, TypeOK, Op
  <2> DEFINE b == op[o].batch
             known == DOMAIN slotState[b]
             f == [s \in Slots |-> IF s \in known /\ slotState[b][s] \notin UnassignedState
                                   THEN slotState[b][s] ELSE "down"]
             g == [s \in Slots |-> IF s \in known THEN slotAttempt[b][s] ELSE Null]
  <2>2. f \in [Slots -> SlotState] /\ g \in [Slots -> Attempts \cup {Null}]
    BY <2>1, RowTypes DEF SlotState
  <2>3. PICK k \in op[o].keys : slotKey' = [slotKey EXCEPT ![b] = [s \in Slots |-> k]]
    BY <1>13 DEF RegisterSlots
  <2>4. [s \in Slots |-> k] \in [Slots -> Keys \cup {Null}]
    BY <2>1
  <2>5. slotState' = [slotState EXCEPT ![b] = f] /\ slotAttempt' = [slotAttempt EXCEPT ![b] = g]
    BY <1>13, <2>1 DEF RegisterSlots, TypeOK
  <2> HIDE DEF f, g
  <2>6. RowsTyped'
    BY <2>1, <2>2, <2>3, <2>4, <2>5, RowsRewritten
  <2> QED BY <1>13, <2>6, StepTyped DEF RegisterSlots, ProvisionPc, TypeOK, RowsTyped
<1>14. CASE OpenBatch(o)
  <2>1. NoOp \in Op
    BY DEF NoOp, Op
  <2>2. batch' \in [Batches -> BatchStatus]
    BY <1>14 DEF OpenBatch, TypeOK, BatchStatus
  <2> QED BY <1>14, <2>1, <2>2, OpTyped DEF OpenBatch, TypeOK
<1> QED BY <1>1, <1>2, <1>3, <1>4, <1>5, <1>6, <1>7, <1>8, <1>9, <1>10, <1>11, <1>12, <1>13, <1>14
        DEF Provisioning

LEMMA ClosingTyped ==
  ASSUME TypeOK, RequestsNameABatch, NEW o \in Operators, Closing(o)
  PROVE  TypeOK'
<1> USE NullAssumption, SizeAssumption DEF hallVars, rowVars, keyVars, podVars, clusterVars
<1>1. ASSUME NEW b \in Batches, NEW via \in {"action", "route", "cancel"}, CloseStart(o, b, via)
      PROVE  TypeOK'
  <2>1. [pc |-> "sweep", batch |-> b, via |-> via, keys |-> {}] \in Op
    BY DEF Op, ClosePc
  <2>2. op' \in [Operators -> Op]
    BY <1>1, <2>1, OpTyped DEF CloseStart
  <2>3. batch' \in [Batches -> BatchStatus]
    BY <1>1 DEF CloseStart, TypeOK, BatchStatus
  <2> QED BY <1>1, <2>2, <2>3 DEF CloseStart, TypeOK
<1>2. ASSUME NEW a \in Attempts, SweepOne(o, a) PROVE TypeOK'
  <2>1. RowsTyped'
    BY <1>2, RosterAssumption, RowTypes, MarksAreTyped, StatesRewritten DEF SweepOne, CloseAttempt
  <2> QED BY <1>2, <2>1 DEF SweepOne, CloseAttempt, TypeOK, RowsTyped, AttemptStatus
<1>3. CASE Swept(o)
  BY <1>3, StepTyped DEF Swept, ClosePc, TypeOK
<1>4. CASE ListKeys(o)
  <2>1. {slotKey[op[o].batch][s] : s \in DOMAIN slotKey[op[o].batch]} \ {Null} \in SUBSET Keys
    BY <1>4, RowTypes DEF ListKeys, RequestsNameABatch
  <2>2. op' \in [Operators -> Op]
    BY <1>4, <2>1, KeysTyped DEF ListKeys, ClosePc
  <2> QED BY <1>4, <2>2 DEF ListKeys, TypeOK
<1>5. CASE Teardown(o)
  <2>1. op' \in [Operators -> Op] /\ 0 \in 0 .. PoolSize
    BY <1>5, StepTyped DEF Teardown, ClosePc
  <2> QED BY <1>5, <2>1 DEF Teardown, TypeOK
<1>6. CASE BlockKeys(o)
  <2>1. op[o].keys \subseteq Keys
    BY DEF TypeOK, Op
  <2> QED BY <1>6, <2>1, StepTyped DEF BlockKeys, ClosePc, TypeOK
<1>7. CASE MarkDown(o)
  <2> DEFINE b == op[o].batch
  <2>1. b \in Batches
    BY <1>7 DEF MarkDown, Advance, RequestsNameABatch
  <2>2. /\ Blank(b, Null) \in [DOMAIN slotState[b] -> Keys \cup {Null}]
        /\ MarkBatchDown(slotState[b]) \in [DOMAIN slotState[b] -> SlotState]
    BY <2>1, RowTypes, MarksAreTyped DEF Blank
  <2>3. slotAttempt' = [slotAttempt EXCEPT ![b] = slotAttempt[b]]
    BY <1>7, <2>1 DEF MarkDown, TypeOK
  <2>4. RowsTyped'
    BY <1>7, <2>1, <2>2, <2>3, RowTypes, RowsRewritten DEF MarkDown
  <2> QED BY <1>7, <2>4, StepTyped DEF MarkDown, ClosePc, TypeOK, RowsTyped
<1>8. CASE ClearQueue(o, "clear", "cancel")
  BY <1>8, StepTyped DEF ClearQueue, ClosePc, TypeOK
<1>9. CASE CloseDone(o)
  <2>1. NoOp \in Op
    BY DEF NoOp, Op
  <2>2. batch' \in [Batches -> BatchStatus]
    BY <1>9 DEF CloseDone, TypeOK, BatchStatus
  <2> QED BY <1>9, <2>1, <2>2, OpTyped DEF CloseDone, TypeOK
<1> QED BY <1>1, <1>2, <1>3, <1>4, <1>5, <1>6, <1>7, <1>8, <1>9 DEF Closing

LEMMA OtherTyped ==
  ASSUME TypeOK,
         \/ \E o \in Operators : OpFails(o)
         \/ \E b \in Batches : SetStatus(b) \/ CancelIdle(b)
         \/ Kubernetes
         \/ UNCHANGED vars
  PROVE  TypeOK'
<1> USE NullAssumption DEF hallVars, rowVars, keyVars, podVars, clusterVars
<1>1. ASSUME NEW o \in Operators, OpFails(o) PROVE TypeOK'
  <2>1. NoOp \in Op /\ "cancel" \in ProvisionPc \cup ClosePc /\ op[o] \in Op
    BY DEF NoOp, Op, ClosePc, TypeOK
  <2>2. op' \in [Operators -> Op]
    <3>1. CASE op' = [op EXCEPT ![o] = NoOp]
      BY <2>1, <3>1, OpTyped
    <3>2. CASE op' = [op EXCEPT ![o].pc = "cancel"]
      <4>1. [op[o] EXCEPT !.pc = "cancel"] \in Op
        BY <2>1 DEF Op
      <4>2. op' = [op EXCEPT ![o] = [op[o] EXCEPT !.pc = "cancel"]]
        BY <3>2
      <4> QED BY <4>1, <4>2, OpTyped
    <3> QED BY <1>1, <3>1, <3>2 DEF OpFails
  <2> QED BY <1>1, <2>2 DEF OpFails, TypeOK
<1>2. ASSUME NEW b \in Batches, SetStatus(b) \/ CancelIdle(b) PROVE TypeOK'
  <2>1. batch' \in [Batches -> BatchStatus]
    BY <1>2 DEF SetStatus, CancelIdle, TypeOK, BatchStatus
  <2> QED BY <1>2, <2>1 DEF SetStatus, CancelIdle, TypeOK
<1>3. ASSUME NEW s \in Slots, PodStart(s) PROVE TypeOK'
  <2>1. Seeded(s) \in Volume
    BY VolumeRecords DEF Seeded, TypeOK
  <2>2. volume' \in [Slots -> Volume] /\ podKey' \in [Slots -> Keys \cup {Null}]
    BY <1>3, <2>1 DEF PodStart, TypeOK
  <2> QED BY <1>3, <2>2 DEF PodStart, TypeOK
<1>4. ASSUME NEW s \in Slots, PodStop(s) PROVE TypeOK'
  BY <1>4 DEF PodStop, TypeOK
<1>5. ASSUME NEW s \in Slots, VolumeGone(s) PROVE TypeOK'
  <2>1. NoVolume \in Volume
    BY DEF NoVolume, Volume
  <2>2. volume' \in [Slots -> Volume]
    BY <1>5, <2>1 DEF VolumeGone, TypeOK
  <2> QED BY <1>5, <2>2 DEF VolumeGone, TypeOK
<1>6. CASE UNCHANGED vars
  BY <1>6 DEF vars, TypeOK
<1> QED BY <1>1, <1>2, <1>3, <1>4, <1>5, <1>6 DEF Kubernetes

(* What a step of an operation does to the requests of the operators.      *)
LEMMA AdvanceEffect ==
  ASSUME TypeOK, NEW o \in Operators, NEW from, NEW to, Advance(o, from, to)
  PROVE  /\ op'[o].pc = to /\ op'[o].batch = op[o].batch /\ op'[o].keys = op[o].keys
         /\ \A p \in Operators \ {o} : op'[p] = op[p]
BY DEF Advance, TypeOK, Op

LEMMA EndEffect ==
  ASSUME TypeOK, NEW o \in Operators, op' = [op EXCEPT ![o] = NoOp]
  PROVE  op'[o].pc = "idle" /\ \A p \in Operators \ {o} : op'[p] = op[p]
BY DEF TypeOK, NoOp

LEMMA OperationEffect ==
  ASSUME TypeOK, RequestsNameABatch, NEW o \in Operators,
         Provisioning(o) \/ Closing(o) \/ OpFails(o)
  PROVE  /\ rec' = rec
         /\ \A p \in Operators \ {o} : op'[p] = op[p]
         /\ op'[o].pc # "idle" => op'[o].batch \in Batches
<1>r. rec' = rec
  BY DEF Provisioning, Closing, OpFails, ProvisionStart, ScaleToZero, Drained, DeleteJobs,
         DeleteVolumes, WaitForWipe, GenerateKey, ApplyConfigMap, ApplySecret, ScaleToWarm,
         ResetBatchSlots, ClearQueue, RegisterSlots, OpenBatch, CloseStart, SweepOne, CloseAttempt,
         Swept, ListKeys, Teardown, BlockKeys, MarkDown, CloseDone
<1>1. ASSUME NEW from, NEW to, Advance(o, from, to), from # "idle"
      PROVE  /\ \A p \in Operators \ {o} : op'[p] = op[p]
             /\ op'[o].batch \in Batches
  BY <1>1, AdvanceEffect DEF Advance, RequestsNameABatch
<1>2. CASE op' = [op EXCEPT ![o] = NoOp]
  BY <1>r, <1>2, EndEffect
<1>3. ASSUME NEW b \in Batches, NEW pc, NEW via,
             op' = [op EXCEPT ![o] = [pc |-> pc, batch |-> b, via |-> via, keys |-> {}]]
      PROVE  /\ \A p \in Operators \ {o} : op'[p] = op[p]
             /\ op'[o].batch \in Batches
  BY <1>3 DEF TypeOK
<1>4. ASSUME NEW to \in ProvisionPc \cup ClosePc, NEW K \in SUBSET Keys, op[o].pc # "idle",
             op' = [op EXCEPT ![o].pc = to, ![o].keys = K]
      PROVE  /\ \A p \in Operators \ {o} : op'[p] = op[p]
             /\ op'[o].batch \in Batches
  BY <1>4, KeysTyped DEF RequestsNameABatch
<1>5. CASE \E b \in Batches, via \in {"action", "route"} : ProvisionStart(o, b, via)
  BY <1>r, <1>3, <1>5 DEF ProvisionStart
<1>6. CASE GenerateKey(o)
  <2>1. {issued + 1} \in SUBSET Keys
    BY <1>6, SizeAssumption DEF GenerateKey, TypeOK, Keys
  <2> QED BY <1>r, <1>4, <1>6, <2>1 DEF GenerateKey, ProvisionPc
<1>7. CASE OpenBatch(o) \/ CloseDone(o)
  BY <1>2, <1>7 DEF OpenBatch, CloseDone
<1>8. CASE \E b \in Batches, via \in {"action", "route", "cancel"} : CloseStart(o, b, via)
  BY <1>r, <1>3, <1>8 DEF CloseStart
<1>9. CASE \E a \in Attempts : SweepOne(o, a)
  BY <1>r, <1>9 DEF SweepOne, RequestsNameABatch
<1>10. CASE ListKeys(o)
  <2>1. {slotKey[op[o].batch][s] : s \in DOMAIN slotKey[op[o].batch]} \ {Null} \in SUBSET Keys
    BY <1>10, RowTypes DEF ListKeys, RequestsNameABatch
  <2> QED BY <1>r, <1>4, <1>10, <2>1 DEF ListKeys, ClosePc
<1>11. CASE OpFails(o)
  <2>1. CASE op' = [op EXCEPT ![o].pc = "cancel"]
    BY <1>r, <1>1, <1>11, <2>1 DEF OpFails, Advance
  <2> QED BY <1>2, <1>11, <2>1 DEF OpFails
<1>12. CASE \/ ScaleToZero(o) \/ Drained(o) \/ DeleteJobs(o) \/ DeleteVolumes(o) \/ WaitForWipe(o)
            \/ ApplyConfigMap(o) \/ ApplySecret(o) \/ ScaleToWarm(o) \/ ResetBatchSlots(o)
            \/ ClearQueue(o, "queue", "register") \/ RegisterSlots(o)
  BY <1>r, <1>1, <1>12
     DEF ScaleToZero, Drained, DeleteJobs, DeleteVolumes, WaitForWipe, ApplyConfigMap, ApplySecret,
         ScaleToWarm, ResetBatchSlots, ClearQueue, RegisterSlots
<1>13. CASE Swept(o) \/ Teardown(o) \/ BlockKeys(o) \/ MarkDown(o) \/ ClearQueue(o, "clear", "cancel")
  BY <1>r, <1>1, <1>13 DEF Swept, Teardown, BlockKeys, MarkDown, ClearQueue
<1> QED BY <1>5, <1>6, <1>7, <1>8, <1>9, <1>10, <1>11, <1>12, <1>13 DEF Provisioning, Closing

LEMMA NamesInductive ==
  ASSUME TypeOK, RequestsNameABatch, [Next]_vars
  PROVE  RequestsNameABatch'
<1>1. CASE \E o \in Operators : Provisioning(o) \/ Closing(o) \/ OpFails(o)
  BY <1>1, OperationEffect DEF RequestsNameABatch
<1>2. CASE Reconciling
  <2>1. op' = op
    BY <1>2 DEF Reconciling, ReconcileLock, ListPods, SyncSlots, AssignHead, ScaleUp, ReconcileFails
  <2>2. rec'.pc # "idle" => rec'.batch \in Batches
    <3>1. CASE \E b \in Batches : ReconcileLock(b)
      BY <3>1 DEF ReconcileLock
    <3>2. CASE ListPods \/ SyncSlots
      BY <3>2 DEF ListPods, SyncSlots, RequestsNameABatch, TypeOK, Reconcile
    <3>3. CASE AssignHead
      BY <3>3 DEF AssignHead, RequestsNameABatch
    <3>4. CASE ScaleUp \/ ReconcileFails
      BY <3>4 DEF ScaleUp, ReconcileFails, NoReconcile
    <3> QED BY <1>2, <3>1, <3>2, <3>3, <3>4 DEF Reconciling
  <2> QED BY <2>1, <2>2 DEF RequestsNameABatch
<1>3. CASE \/ Studying \/ Packaging \/ Kubernetes
           \/ \E b \in Batches : SetStatus(b) \/ CancelIdle(b)
           \/ UNCHANGED vars
  <2>1. rec' = rec /\ op' = op
    BY <1>3 DEF Studying, Start, Work, Submit, CloseAttempt, Packaging, TriggerPackaging, JobDone,
                Kubernetes, PodStart, PodStop, VolumeGone, SetStatus, CancelIdle, vars
  <2> QED BY <2>1 DEF RequestsNameABatch
<1> QED BY <1>1, <1>2, <1>3 DEF Next, Operating

(* Columns, requests and cluster objects keep their types, whatever the    *)
(* operators keep to: the statements that register, reset, assign and mark *)
(* slots leave every row inside the pool, and a call under way belongs to  *)
(* a batch.                                                                *)
THEOREM TypeSafety == Spec => [](TypeOK /\ RequestsNameABatch)
<1>1. Init => TypeOK /\ RequestsNameABatch
  <2>1. [s \in {} |-> Null] \in [{} -> {Null}] /\ [s \in {} |-> "down"] \in [{} -> SlotState]
    BY DEF SlotState
  <2>2. \A S : [{} -> S] \subseteq Columns(S)
    BY ColumnsAreFunctions
  <2>3. /\ [s \in {} |-> "down"] \in Columns(SlotState)
        /\ [s \in {} |-> Null] \in Columns(Attempts \cup {Null})
        /\ [s \in {} |-> Null] \in Columns(Keys \cup {Null})
    <3>1. [s \in {} |-> Null] \in [{} -> Attempts \cup {Null}] /\ [s \in {} |-> Null] \in [{} -> Keys \cup {Null}]
      OBVIOUS
    <3> QED BY <2>1, <2>2, <3>1
  <2>4. NoReconcile \in Reconcile /\ NoOp \in Op /\ NoVolume \in Volume
    BY DEF NoReconcile, Reconcile, NoOp, Op, NoVolume, Volume
  <2> SUFFICES ASSUME Init PROVE TypeOK /\ RequestsNameABatch
    OBVIOUS
  <2>5. RowsTyped
    BY <2>3 DEF Init, RowsTyped
  <2>6. /\ batch \in [Batches -> BatchStatus] /\ attempt \in [Attempts -> AttemptStatus]
        /\ captured \in [Attempts -> {Null} \cup SUBSET Attempts]
        /\ issued \in 0 .. MaxKeys /\ replicas \in 0 .. PoolSize
    BY SizeAssumption DEF Init, BatchStatus, AttemptStatus
  <2>7. /\ op \in [Operators -> Op] /\ rec \in Reconcile /\ volume \in [Slots -> Volume]
        /\ podKey \in [Slots -> Keys \cup {Null}]
    BY <2>4 DEF Init
  <2>8. TypeOK
    BY <2>5, <2>6, <2>7 DEF Init, TypeOK, RowsTyped
  <2> QED BY <2>8 DEF Init, RequestsNameABatch, NoReconcile, NoOp
<1>2. TypeOK /\ RequestsNameABatch /\ [Next]_vars => (TypeOK /\ RequestsNameABatch)'
  BY NamesInductive, HallTyped, ReconcilingTyped, ProvisioningTyped, ClosingTyped, OtherTyped
     DEF Next, Operating
<1> QED BY <1>1, <1>2, PTL DEF Spec

-------------------------------------------------------------------------------
(* One session at a time. *)

LEMMA InitSession == Init => SessionInv
BY DEF Init, SessionInv, OneOperation, ConfigMapIsCurrent, ProvisionsAreUndisturbed, Provisions,
       ScheduledIsUntouched, StagesHold, StageHolds, VolumesAreCurrent, WorkIsTheHolders,
       KeysAreRecorded, NoOp, NoReconcile, NoVolume, HasBusySlots, RowsIn, ProvisionPc, Keyed,
       Mapped, Sealed, Vacated, Clean, Empty

(* Rows that lie down or move on: none becomes busy, none becomes free.    *)
RowsSettle ==
  \A b \in Batches :
    /\ DOMAIN slotState'[b] = DOMAIN slotState[b]
    /\ \A s \in DOMAIN slotState[b] :
         /\ slotState'[b][s] \in BusyState => slotState[b][s] \in BusyState
         /\ slotState'[b][s] \in UnassignedState => slotState[b][s] \in UnassignedState

(* What students and their submissions do happens in batches that are, or  *)
(* have been, open.                                                        *)
AttemptsMove ==
  \A a \in Attempts : batch[BatchOf[a]] = "scheduled" =>
    /\ attempt'[a] = attempt[a]
    /\ a \in waiting' => a \in waiting

LEMMA MarksSettle ==
  ASSUME TypeOK, NEW b \in Batches, NEW f, slotState' = [slotState EXCEPT ![b] = f],
         \/ \E ow, a : f \in {MarkSubmitting(slotState[b], ow, a), MarkRecycling(slotState[b], ow, a)}
         \/ \E live : f = SyncDown(SyncUp(slotState[b], live), live)
  PROVE  RowsSettle
<1>1. /\ DOMAIN f = DOMAIN slotState[b]
      /\ \A s \in DOMAIN slotState[b] :
           /\ f[s] \in BusyState => slotState[b][s] \in BusyState
           /\ f[s] \in UnassignedState => slotState[b][s] \in UnassignedState
  BY DEF MarkSubmitting, MarkRecycling, SyncDown, SyncUp, BusyState, UnassignedState
<1> QED BY <1>1 DEF RowsSettle, TypeOK

(* While rows settle and nobody touches the batches, the requests or the   *)
(* cluster, nothing comes apart.                                           *)
LEMMA SettlingKeepsSession ==
  ASSUME TypeOK, SessionInv, RowsSettle,
         UNCHANGED <<batch, slotAttempt, slotKey, op, pods, podKey, volume, configMap, secret>>,
         \/ rec'.pc = "idle"
         \/ rec'.pc # "idle" /\ rec.pc # "idle" /\ rec'.batch = rec.batch,
         replicas' = replicas \/ rec.pc # "idle",
         AttemptsMove
  PROVE  SessionInv'
<1> USE DEF SessionInv
<1>1. OneOperation'
  BY DEF OneOperation
<1>b. \A b \in Batches : RowsIn(slotState'[b], BusyState) \subseteq RowsIn(slotState[b], BusyState)
  BY DEF RowsSettle, RowsIn
<1>2. ConfigMapIsCurrent'
  BY <1>b DEF ConfigMapIsCurrent
<1>3. ProvisionsAreUndisturbed'
  BY <1>b DEF ProvisionsAreUndisturbed, Provisions, HasBusySlots
<1>4. ScheduledIsUntouched'
  BY DEF ScheduledIsUntouched, AttemptsMove
<1>5. StagesHold'
  <2> SUFFICES ASSUME NEW o \in Operators PROVE StageHolds(o)'
    BY DEF StagesHold
  <2>1. StageHolds(o)
    BY DEF StagesHold
  <2>2. op[o].pc \in {"draining"} \cup Empty => replicas' = replicas
    BY DEF ProvisionsAreUndisturbed, Provisions, ProvisionPc, Empty, Clean
  <2> QED BY <2>1, <2>2 DEF StageHolds, Wiped
<1>6. VolumesAreCurrent'
  BY DEF VolumesAreCurrent
<1>7. WorkIsTheHolders'
  BY DEF WorkIsTheHolders, RowsSettle
<1>8. KeysAreRecorded'
  BY DEF KeysAreRecorded, Provisioned
<1> QED BY <1>1, <1>2, <1>3, <1>4, <1>5, <1>6, <1>7, <1>8

(* A ready row of the current batch is given to an attempt.                *)
LEMMA AssigningKeepsSession ==
  ASSUME TypeOK, SessionInv, NEW b \in Batches, NEW a \in Attempts, AssignReady(b, a),
         configMap = b, batch[b] # "scheduled", Provisions = {}, AttemptsMove,
         UNCHANGED <<batch, slotKey, op, rec, replicas, pods, podKey, volume, configMap, secret>>
  PROVE  SessionInv'
<1> USE DEF SessionInv
<1>s. PICK s \in DOMAIN slotState[b] :
        /\ slotState[b][s] = "ready"
        /\ slotState' = [slotState EXCEPT ![b] = [@ EXCEPT ![s] = "assigned"]]
        /\ slotAttempt' = [slotAttempt EXCEPT ![b] = [@ EXCEPT ![s] = a]]
  BY AssignedRow
<1>r. /\ \A c \in Batches \ {b} : slotState'[c] = slotState[c] /\ slotAttempt'[c] = slotAttempt[c]
      /\ DOMAIN slotState'[b] = DOMAIN slotState[b]
      /\ DOMAIN slotAttempt[b] = DOMAIN slotState[b]
      /\ slotState'[b][s] = "assigned" /\ slotAttempt'[b][s] = a
      /\ \A t \in DOMAIN slotState[b] \ {s} : /\ slotState'[b][t] = slotState[b][t]
                                              /\ slotAttempt'[b][t] = slotAttempt[b][t]
  BY <1>s DEF TypeOK
<1>1. OneOperation'
  BY DEF OneOperation
<1>2. ConfigMapIsCurrent'
  BY <1>r DEF ConfigMapIsCurrent
<1>3. ProvisionsAreUndisturbed'
  BY DEF ProvisionsAreUndisturbed, Provisions
<1>4. ScheduledIsUntouched'
  BY <1>r DEF ScheduledIsUntouched, AttemptsMove
<1>5. StagesHold'
  BY DEF StagesHold, StageHolds, Provisions, ProvisionPc, Keyed, Mapped, Sealed, Vacated, Clean, Empty
<1>6. VolumesAreCurrent'
  BY DEF VolumesAreCurrent
<1>7. WorkIsTheHolders'
  <2>1. batch[b] = "open" => volume[s].work = {}
    <3>1. \A t \in Slots : volume[t].work \subseteq Attempts
      BY DEF TypeOK, Volume
    <3> QED BY <1>s, <3>1, NullAssumption DEF WorkIsTheHolders, UnassignedState
  <2> QED BY <1>r, <2>1 DEF WorkIsTheHolders, UnassignedState
<1>8. KeysAreRecorded'
  BY DEF KeysAreRecorded, Provisioned
<1> QED BY <1>1, <1>2, <1>3, <1>4, <1>5, <1>6, <1>7, <1>8

(* A session in progress leaves no provision under way.                    *)
LEMMA OpenIsUndisturbed ==
  ASSUME TypeOK, SessionInv, NEW b \in Batches, batch[b] = "open"
  PROVE  configMap = b /\ Provisions = {} /\ \A o \in Operators : op[o].pc = "idle"
BY DEF SessionInv, OneOperation, ConfigMapIsCurrent, Provisions, ProvisionPc

LEMMA StudyingKeepsSession ==
  ASSUME TypeOK, SessionInv, Studying
  PROVE  SessionInv'
<1> USE RosterAssumption DEF rowVars, hallVars, keyVars, podVars, clusterVars
<1>1. ASSUME NEW a \in Attempts, Start(a) PROVE SessionInv'
  <2> DEFINE b == BatchOf[a]
  <2>1. b \in Batches /\ configMap = b /\ Provisions = {} /\ batch[b] = "open"
    BY <1>1, OpenIsUndisturbed DEF Start
  <2>2. AttemptsMove
    BY <1>1, <2>1 DEF Start, AttemptsMove, TypeOK
  <2>3. CASE AssignReady(b, a)
    BY <1>1, <2>1, <2>2, <2>3, AssigningKeepsSession DEF Start
  <2>4. CASE UNCHANGED <<slotState, slotAttempt>>
    BY <1>1, <2>2, <2>4, SettlingKeepsSession DEF Start, RowsSettle
  <2> QED BY <1>1, <2>3, <2>4 DEF Start
<1>2. ASSUME NEW a \in Attempts, NEW s \in Slots, Work(a, s) PROVE SessionInv'
  <2> DEFINE b == BatchOf[a]
  <2> USE DEF SessionInv
  <2>1. /\ attempt[a] = "running" /\ b \in Batches /\ s \in DOMAIN slotState[b]
        /\ slotAttempt[b][s] = a /\ slotState[b][s] = "assigned"
    BY <1>2 DEF Work, Seated, SlotsHeldBy, RowsOf, TypeOK
  <2>2. configMap = b /\ Provisions = {} /\ batch[b] # "scheduled"
    <3>1. RowsIn(slotState[b], BusyState) # {}
      BY <2>1 DEF RowsIn, BusyState
    <3> QED BY <2>1, <3>1 DEF ConfigMapIsCurrent, ProvisionsAreUndisturbed, HasBusySlots,
                             ScheduledIsUntouched
  <2>3. /\ volume[s] # NoVolume /\ volume'[s].seed = volume[s].seed
        /\ volume'[s].work = volume[s].work \cup {a} /\ volume'[s] # NoVolume
        /\ \A t \in Slots \ {s} : volume'[t] = volume[t]
    <3>1. volume[s] \in Volume /\ volume'[s] = [volume[s] EXCEPT !.work = @ \cup {a}]
      BY <1>2 DEF Work, TypeOK
    <3>2. \A t \in Slots \ {s} : volume'[t] = volume[t]
      BY <1>2 DEF Work, TypeOK
    <3>3. volume'[s].work = volume[s].work \cup {a} /\ volume'[s].seed = volume[s].seed
      BY <3>1 DEF Volume
    <3>4. volume[s] # NoVolume
      BY <1>2 DEF Work, VolumesAreCurrent
    <3> QED BY <3>2, <3>3, <3>4 DEF NoVolume
  <2>4. OneOperation' /\ ConfigMapIsCurrent' /\ ProvisionsAreUndisturbed' /\ KeysAreRecorded'
    BY <1>2 DEF Work, OneOperation, ConfigMapIsCurrent, ProvisionsAreUndisturbed, Provisions,
                HasBusySlots, KeysAreRecorded, Provisioned
  <2>5. ScheduledIsUntouched'
    BY <1>2, <2>2 DEF Work, ScheduledIsUntouched
  <2>6. StagesHold'
    BY <1>2, <2>2 DEF Work, StagesHold, StageHolds, Provisions, ProvisionPc, Keyed, Mapped, Sealed,
                      Vacated, Clean, Empty
  <2>7. VolumesAreCurrent'
    BY <1>2, <2>3 DEF Work, VolumesAreCurrent
  <2>8. WorkIsTheHolders'
    BY <1>2, <2>1, <2>2, <2>3 DEF Work, WorkIsTheHolders, ConfigMapIsCurrent
  <2> QED BY <2>4, <2>5, <2>6, <2>7, <2>8
<1>3. ASSUME NEW a \in Attempts, Submit(a) PROVE SessionInv'
  <2>1. AttemptsMove
    BY <1>3 DEF Submit, CloseAttempt, AttemptsMove, SessionInv, ScheduledIsUntouched, TypeOK
  <2>2. RowsSettle
    BY <1>3, MarksSettle DEF Submit, CloseAttempt
  <2> QED BY <1>3, <2>1, <2>2, SettlingKeepsSession DEF Submit, CloseAttempt
<1> QED BY <1>1, <1>2, <1>3 DEF Studying

LEMMA PackagingKeepsSession ==
  ASSUME TypeOK, SessionInv, Packaging
  PROVE  SessionInv'
<1> USE RosterAssumption DEF rowVars, hallVars, keyVars, podVars, clusterVars
<1>1. ASSUME NEW a \in Attempts, TriggerPackaging(a) PROVE SessionInv'
  BY <1>1, SettlingKeepsSession DEF TriggerPackaging, RowsSettle, AttemptsMove
<1>2. ASSUME NEW j \in jobs, JobDone(j) PROVE SessionInv'
  <2>1. j.attempt \in Attempts
    BY DEF TypeOK, Job
  <2>2. RowsSettle
    BY <1>2, <2>1, MarksSettle DEF JobDone
  <2> QED BY <1>2, <2>2, SettlingKeepsSession DEF JobDone, AttemptsMove
<1> QED BY <1>1, <1>2 DEF Packaging

LEMMA ReconcilingKeepsSession ==
  ASSUME TypeOK, RequestsNameABatch, SessionInv, Reconciling
  PROVE  SessionInv'
<1> USE DEF rowVars, hallVars, keyVars, podVars, clusterVars, AttemptsMove
<1>1. ASSUME NEW b \in Batches, ReconcileLock(b) PROVE SessionInv'
  <2> USE <1>1 DEF ReconcileLock, SessionInv
  <2>1. configMap = b /\ Provisions = {}
    BY OpenIsUndisturbed
  <2>2. ConfigMapIsCurrent'
    BY <2>1 DEF ConfigMapIsCurrent
  <2>3. ProvisionsAreUndisturbed'
    BY <2>1 DEF ProvisionsAreUndisturbed, Provisions
  <2>4. OneOperation' /\ ScheduledIsUntouched' /\ VolumesAreCurrent'
    BY DEF OneOperation, ScheduledIsUntouched, VolumesAreCurrent
  <2>5. WorkIsTheHolders' /\ KeysAreRecorded' /\ StagesHold'
    BY DEF WorkIsTheHolders, KeysAreRecorded, Provisioned, StagesHold, StageHolds, Wiped
  <2> QED BY <2>2, <2>3, <2>4, <2>5
<1>2. CASE ListPods
  <2>1. rec'.pc # "idle" /\ rec'.batch = rec.batch
    BY <1>2 DEF ListPods, TypeOK, Reconcile
  <2> QED BY <1>2, <2>1, SettlingKeepsSession DEF ListPods, RowsSettle
<1>3. CASE SyncSlots
  <2>1. rec'.pc # "idle" /\ rec'.batch = rec.batch /\ rec.batch \in Batches
    BY <1>3 DEF SyncSlots, TypeOK, Reconcile, RequestsNameABatch
  <2>2. RowsSettle
    BY <1>3, <2>1, MarksSettle DEF SyncSlots
  <2> QED BY <1>3, <2>1, <2>2, SettlingKeepsSession DEF SyncSlots
<1>4. CASE AssignHead
  <2>1. PICK a \in WaitingFor(rec.batch) : AssignReady(rec.batch, a) /\ waiting' = waiting \ {a}
    BY <1>4 DEF AssignHead
  <2>2. /\ a \in Attempts /\ BatchOf[a] = rec.batch /\ a \in waiting
        /\ rec.batch \in Batches /\ configMap = rec.batch /\ Provisions = {}
    BY <1>4 DEF AssignHead, WaitingFor, RequestsNameABatch, SessionInv, ConfigMapIsCurrent,
                ProvisionsAreUndisturbed, TypeOK
  <2>3. batch[rec.batch] # "scheduled"
    BY <2>2 DEF SessionInv, ScheduledIsUntouched
  <2> QED BY <1>4, <2>1, <2>2, <2>3, AssigningKeepsSession DEF AssignHead
<1>5. CASE ScaleUp \/ ReconcileFails
  <2>1. rec'.pc = "idle" /\ rec.pc # "idle"
    BY <1>5 DEF ScaleUp, ReconcileFails, NoReconcile
  <2> QED BY <1>5, <2>1, SettlingKeepsSession DEF ScaleUp, ReconcileFails, RowsSettle
<1> QED BY <1>1, <1>2, <1>3, <1>4, <1>5 DEF Reconciling

(* An operation under way has the system to itself.                        *)
LEMMA OperationIsAlone ==
  ASSUME SessionInv, NEW o \in Operators, op[o].pc # "idle"
  PROVE  /\ \A p \in Operators \ {o} : op[p].pc = "idle"
         /\ \A b \in Batches : batch[b] # "open"
         /\ op[o].pc \in ProvisionPc => /\ rec.pc = "idle" /\ StageHolds(o)
                                        /\ \A b \in Batches : RowsIn(slotState[b], BusyState) = {}
BY DEF SessionInv, OneOperation, ProvisionsAreUndisturbed, Provisions, StagesHold, HasBusySlots

LEMMA IdleHolds ==
  ASSUME NEW o \in Operators, op'[o].pc \notin ProvisionPc
  PROVE  StageHolds(o)'
BY DEF StageHolds, ProvisionPc, Keyed, Mapped, Sealed, Vacated, Clean, Empty

(* A step of a provision keeps the session if it reaches its stage.        *)
LEMMA ProvisionKeepsSession ==
  ASSUME TypeOK, SessionInv, NEW o \in Operators, op[o].pc \in ProvisionPc,
         \A p \in Operators \ {o} : op'[p] = op[p],
         UNCHANGED <<batch, attempt, rec>>,
         waiting' \subseteq waiting,
         \A b \in Batches : RowsIn(slotState'[b], BusyState) = {},
         \A b \in Batches : \A s \in DOMAIN slotAttempt'[b] :
           \/ slotAttempt'[b][s] = Null
           \/ s \in DOMAIN slotAttempt[b] /\ slotAttempt'[b][s] = slotAttempt[b][s],
         \/ configMap' = configMap /\ \A s \in Slots : volume'[s].work = volume[s].work
         \/ \A s \in Slots : volume'[s].work = {},
         StageHolds(o)', VolumesAreCurrent',
         secret' # Null => \A s \in pods' : podKey'[s] = secret'
  PROVE  SessionInv'
<1>1. /\ op[o].pc # "idle" /\ rec.pc = "idle"
      /\ \A p \in Operators \ {o} : op[p].pc = "idle"
      /\ \A b \in Batches : batch[b] # "open"
  BY OperationIsAlone DEF ProvisionPc
<1>2. OneOperation'
  BY <1>1 DEF OneOperation
<1>3. ConfigMapIsCurrent' /\ ProvisionsAreUndisturbed'
  BY <1>1 DEF ConfigMapIsCurrent, ProvisionsAreUndisturbed, HasBusySlots
<1>4. ScheduledIsUntouched'
  BY DEF SessionInv, ScheduledIsUntouched
<1>5. StagesHold'
  <2>1. \A p \in Operators \ {o} : op'[p].pc \notin ProvisionPc
    BY <1>1 DEF ProvisionPc
  <2> QED BY <2>1, IdleHolds DEF StagesHold
<1>6. WorkIsTheHolders' /\ KeysAreRecorded'
  BY <1>1 DEF WorkIsTheHolders, KeysAreRecorded
<1> QED BY <1>2, <1>3, <1>4, <1>5, <1>6 DEF SessionInv

(* So does whatever an operation alone does after it, or instead of it:    *)
(* closing, or giving up.                                                  *)
LEMMA EndingKeepsSession ==
  ASSUME TypeOK, SessionInv, NEW o \in Operators, op'[o].pc \notin ProvisionPc,
         \A p \in Operators \ {o} : op[p].pc = "idle" /\ op'[p] = op[p],
         \A b \in Batches : /\ batch'[b] # "open"
                            /\ batch'[b] = "scheduled" => batch[b] = "scheduled",
         \A b \in Batches : RowsIn(slotState'[b], BusyState) \subseteq RowsIn(slotState[b], BusyState),
         UNCHANGED <<attempt, slotAttempt, rec, pods, podKey, volume, configMap>>,
         secret' \in {secret, Null},
         waiting' \subseteq waiting
  PROVE  SessionInv'
<1> USE DEF SessionInv
<1>p. \A p \in Operators : op'[p].pc \notin ProvisionPc
  BY DEF ProvisionPc
<1>1. OneOperation'
  BY DEF OneOperation
<1>2. ConfigMapIsCurrent'
  BY DEF ConfigMapIsCurrent
<1>3. ProvisionsAreUndisturbed'
  BY <1>p DEF ProvisionsAreUndisturbed, Provisions
<1>4. ScheduledIsUntouched'
  BY DEF ScheduledIsUntouched
<1>5. StagesHold'
  BY <1>p, IdleHolds DEF StagesHold
<1>6. VolumesAreCurrent'
  BY DEF VolumesAreCurrent
<1>7. WorkIsTheHolders' /\ KeysAreRecorded'
  BY DEF WorkIsTheHolders, KeysAreRecorded
<1> QED BY <1>1, <1>2, <1>3, <1>4, <1>5, <1>6, <1>7

(* What every step of provisionBatch after the first finds.                *)
LEMMA ProvisionStepKeepsSession ==
  ASSUME TypeOK, RequestsNameABatch, SessionInv, NEW o \in Operators,
         \/ ScaleToZero(o) \/ Drained(o) \/ DeleteJobs(o) \/ DeleteVolumes(o) \/ WaitForWipe(o)
         \/ GenerateKey(o) \/ ApplyConfigMap(o) \/ ApplySecret(o) \/ ScaleToWarm(o)
         \/ ResetBatchSlots(o) \/ ClearQueue(o, "queue", "register") \/ RegisterSlots(o)
  PROVE  SessionInv'
<1> USE DEF hallVars, rowVars, keyVars, podVars, clusterVars
<1>pc. op[o].pc \in ProvisionPc /\ op[o].pc # "idle"
  BY DEF ScaleToZero, Drained, DeleteJobs, DeleteVolumes, WaitForWipe, GenerateKey, ApplyConfigMap,
         ApplySecret, ScaleToWarm, ResetBatchSlots, ClearQueue, RegisterSlots, Advance, ProvisionPc
<1>h. /\ StageHolds(o) /\ op[o].batch \in Batches
      /\ \A b \in Batches : RowsIn(slotState[b], BusyState) = {}
      /\ VolumesAreCurrent /\ KeysAreRecorded
  BY <1>pc, OperationIsAlone DEF RequestsNameABatch, SessionInv
<1>o. \A p \in Operators \ {o} : op'[p] = op[p]
  BY OperationEffect DEF Provisioning
<1>k. GenerateKey(o) => /\ op'[o].pc = "config" /\ op'[o].keys = {issued + 1}
                        /\ op'[o].batch = op[o].batch
  <2> DEFINE K == {issued + 1}
  <2> SUFFICES ASSUME GenerateKey(o)
               PROVE  op'[o].pc = "config" /\ op'[o].keys = K /\ op'[o].batch = op[o].batch
    OBVIOUS
  <2>1. K \in SUBSET Keys
    BY SizeAssumption DEF GenerateKey, TypeOK, Keys
  <2>2. "config" \in ProvisionPc \cup ClosePc
    BY DEF ProvisionPc
  <2>3. op' = [op EXCEPT ![o].pc = "config", ![o].keys = K]
    BY DEF GenerateKey
  <2> HIDE DEF K
  <2>4. op'[o].pc = "config"
    BY ONLY TypeOK, <2>1, <2>2, <2>3, KeysTyped
  <2>5. op'[o].keys = K
    <3> DEFINE m == [op EXCEPT ![o].pc = "config"]
    <3>1. m \in [Operators -> Op]
      BY OpRecords, <2>2 DEF TypeOK
    <3>2. op' = [m EXCEPT ![o].keys = K]
      BY <2>3
    <3> HIDE DEF m
    <3> QED BY <3>1, <3>2 DEF Op
  <2>6. op'[o].batch = op[o].batch
    BY ONLY TypeOK, <2>1, <2>2, <2>3, KeysTyped
  <2> QED BY <2>4, <2>5, <2>6
<1> USE DEF StageHolds, Keyed, Mapped, Sealed, Vacated, Clean, Empty
<1>1. CASE ScaleToZero(o) \/ Drained(o) \/ DeleteJobs(o) \/ WaitForWipe(o)
  <2>1. StageHolds(o)'
    <3>1. CASE WaitForWipe(o)
      <4>1. \A s \in Slots : volume[s].work = {}
        BY <3>1 DEF WaitForWipe, Wiped, NoVolume
      <4> QED BY <3>1, <4>1, <1>h, AdvanceEffect DEF WaitForWipe, Wiped, Advance
    <3>2. CASE ScaleToZero(o) \/ Drained(o) \/ DeleteJobs(o)
      BY <3>2, <1>h, AdvanceEffect DEF ScaleToZero, Drained, DeleteJobs, Advance
    <3> QED BY <1>1, <3>1, <3>2
  <2>2. VolumesAreCurrent'
    BY <1>1, <1>h DEF ScaleToZero, Drained, DeleteJobs, WaitForWipe, VolumesAreCurrent
  <2> HIDE DEF StageHolds
  <2> QED BY <1>1, <1>pc, <1>h, <1>o, <2>1, <2>2, ProvisionKeepsSession
          DEF ScaleToZero, Drained, DeleteJobs, WaitForWipe, KeysAreRecorded
<1>2. CASE DeleteVolumes(o)
  <2>1. \A s \in Slots : /\ volume'[s].work = volume[s].work /\ volume'[s].seed = volume[s].seed
                         /\ volume[s] = NoVolume <=> volume'[s] = NoVolume
    BY <1>2, DoomedVolume DEF DeleteVolumes, TypeOK
  <2>2. StageHolds(o)'
    BY <1>2, <1>h, AdvanceEffect DEF DeleteVolumes, Advance
  <2>3. VolumesAreCurrent'
    BY <1>2, <1>h, <2>1 DEF DeleteVolumes, VolumesAreCurrent, TypeOK
  <2> HIDE DEF StageHolds
  <2> QED BY <1>2, <1>pc, <1>h, <1>o, <2>1, <2>2, <2>3, ProvisionKeepsSession
          DEF DeleteVolumes, KeysAreRecorded
<1>3. CASE GenerateKey(o)
  <2>1. {issued + 1} \in SUBSET Keys /\ issued + 1 \in Keys
    BY <1>3, SizeAssumption DEF GenerateKey, TypeOK, Keys
  <2>2. op'[o].pc = "config" /\ op'[o].keys = {issued + 1} /\ op'[o].batch = op[o].batch
    BY <1>3, <1>k
  <2>3. StageHolds(o)'
    BY <1>3, <1>h, <2>1, <2>2 DEF GenerateKey, Wiped
  <2>4. VolumesAreCurrent'
    BY <1>3, <1>h DEF GenerateKey, VolumesAreCurrent
  <2> HIDE DEF StageHolds
  <2> QED BY <1>3, <1>pc, <1>h, <1>o, <2>3, <2>4, ProvisionKeepsSession DEF GenerateKey, KeysAreRecorded
<1>4. CASE ApplyConfigMap(o)
  <2>1. op[o].pc = "config" /\ Wiped /\ pods = {} /\ (\A s \in Slots : volume[s].work = {})
    BY <1>4, <1>h DEF ApplyConfigMap, Advance
  <2>2. StageHolds(o)'
    BY <1>4, <1>h, AdvanceEffect DEF ApplyConfigMap, Advance, Wiped
  <2>3. VolumesAreCurrent'
    BY <1>4, <2>1 DEF ApplyConfigMap, VolumesAreCurrent, Wiped
  <2> HIDE DEF StageHolds
  <2> QED BY <1>4, <1>pc, <1>h, <1>o, <2>1, <2>2, <2>3, ProvisionKeepsSession DEF ApplyConfigMap
<1>5. CASE ApplySecret(o)
  <2>1. pods = {}
    BY <1>5, <1>h DEF ApplySecret, Advance
  <2>2. StageHolds(o)'
    BY <1>5, <1>h, AdvanceEffect DEF ApplySecret, Advance, Wiped
  <2>3. VolumesAreCurrent'
    BY <1>5, <1>h DEF ApplySecret, VolumesAreCurrent
  <2> HIDE DEF StageHolds
  <2> QED BY <1>5, <1>pc, <1>h, <1>o, <2>1, <2>2, <2>3, ProvisionKeepsSession DEF ApplySecret
<1>6. CASE ScaleToWarm(o) \/ ClearQueue(o, "queue", "register")
  <2>1. StageHolds(o)'
    BY <1>6, <1>h, AdvanceEffect DEF ScaleToWarm, ClearQueue, Advance
  <2>2. VolumesAreCurrent'
    BY <1>6, <1>h DEF ScaleToWarm, ClearQueue, VolumesAreCurrent
  <2>3. waiting' \subseteq waiting
    BY <1>6 DEF ScaleToWarm, ClearQueue
  <2> HIDE DEF StageHolds
  <2> QED BY <1>6, <1>pc, <1>h, <1>o, <2>1, <2>2, <2>3, ProvisionKeepsSession
          DEF ScaleToWarm, ClearQueue, KeysAreRecorded
<1>7. CASE ResetBatchSlots(o)
  <2> DEFINE b == op[o].batch
  <2>1. /\ slotState'[b] = Blank(b, "down") /\ slotAttempt'[b] = Blank(b, Null)
        /\ \A c \in Batches \ {b} : slotState'[c] = slotState[c] /\ slotAttempt'[c] = slotAttempt[c]
    BY <1>7, <1>h DEF ResetBatchSlots, TypeOK
  <2>2. StageHolds(o)'
    BY <1>7, <1>h, <2>1, AdvanceEffect DEF ResetBatchSlots, Advance, Blank
  <2>3. VolumesAreCurrent'
    BY <1>7, <1>h DEF ResetBatchSlots, VolumesAreCurrent
  <2>4. \A c \in Batches : RowsIn(slotState'[c], BusyState) = {}
    BY <1>h, <2>1 DEF RowsIn, Blank, BusyState
  <2>5. \A c \in Batches : \A s \in DOMAIN slotAttempt'[c] :
          \/ slotAttempt'[c][s] = Null
          \/ s \in DOMAIN slotAttempt[c] /\ slotAttempt'[c][s] = slotAttempt[c][s]
    BY <2>1 DEF Blank
  <2> HIDE DEF StageHolds
  <2> QED BY <1>7, <1>pc, <1>h, <1>o, <2>2, <2>3, <2>4, <2>5, ProvisionKeepsSession
          DEF ResetBatchSlots, KeysAreRecorded
<1>8. CASE RegisterSlots(o)
  <2> DEFINE b == op[o].batch
             known == DOMAIN slotState[b]
  <2>1. PICK k \in op[o].keys : slotKey' = [slotKey EXCEPT ![b] = [s \in Slots |-> k]]
    BY <1>8 DEF RegisterSlots
  <2>2. /\ slotState'[b] = [s \in Slots |-> IF s \in known /\ slotState[b][s] \notin UnassignedState
                                            THEN slotState[b][s] ELSE "down"]
        /\ slotAttempt'[b] = [s \in Slots |-> IF s \in known THEN slotAttempt[b][s] ELSE Null]
        /\ \A c \in Batches \ {b} : slotState'[c] = slotState[c] /\ slotAttempt'[c] = slotAttempt[c]
        /\ slotKey'[b] = [s \in Slots |-> k]
        /\ DOMAIN slotAttempt[b] = known
    BY <1>8, <1>h, <2>1 DEF RegisterSlots, TypeOK
  <2>3. StageHolds(o)'
    BY <1>8, <1>h, <2>2, AdvanceEffect DEF RegisterSlots, Advance
  <2>4. VolumesAreCurrent'
    BY <1>8, <1>h DEF RegisterSlots, VolumesAreCurrent
  <2>5. \A c \in Batches : RowsIn(slotState'[c], BusyState) = {}
    BY <1>h, <2>2 DEF RowsIn, BusyState
  <2>6. \A c \in Batches : \A s \in DOMAIN slotAttempt'[c] :
          \/ slotAttempt'[c][s] = Null
          \/ s \in DOMAIN slotAttempt[c] /\ slotAttempt'[c][s] = slotAttempt[c][s]
    BY <2>2
  <2> HIDE DEF StageHolds
  <2> QED BY <1>8, <1>pc, <1>h, <1>o, <2>3, <2>4, <2>5, <2>6, ProvisionKeepsSession
          DEF RegisterSlots, KeysAreRecorded
<1> QED BY <1>1, <1>2, <1>3, <1>4, <1>5, <1>6, <1>7, <1>8

LEMMA ProvisioningKeepsSession ==
  ASSUME Disciplined, TypeOK, RequestsNameABatch, SessionInv, NEW o \in Operators, Provisioning(o)
  PROVE  SessionInv'
<1> USE DEF hallVars, rowVars, keyVars, podVars, clusterVars
<1>o. \A p \in Operators \ {o} : op'[p] = op[p]
  BY OperationEffect
<1>1. ASSUME NEW b \in Batches, NEW via, ProvisionStart(o, b, via) PROVE SessionInv'
  <2> USE <1>1 DEF ProvisionStart, SessionInv
  <2>1. Quiet /\ rec.pc = "idle" /\ ~HasBusySlots /\ \A c \in Batches : batch[c] # "open"
    BY DEF Alone, Disciplined, RuleNames
  <2>2. op'[o].pc = "scale0"
    BY DEF TypeOK
  <2>3. OneOperation' /\ ConfigMapIsCurrent' /\ ProvisionsAreUndisturbed'
    BY <1>o, <2>1 DEF Quiet, OneOperation, ConfigMapIsCurrent, ProvisionsAreUndisturbed, HasBusySlots
  <2>4. ScheduledIsUntouched' /\ VolumesAreCurrent' /\ WorkIsTheHolders' /\ KeysAreRecorded'
    BY DEF ScheduledIsUntouched, VolumesAreCurrent, WorkIsTheHolders, KeysAreRecorded, Provisioned
  <2>5. StagesHold'
    BY <1>o, <2>1, <2>2 DEF Quiet, StagesHold, StageHolds, Keyed, Mapped, Sealed, Vacated, Clean, Empty
  <2> QED BY <2>3, <2>4, <2>5
<1>2. CASE OpenBatch(o)
  <2>1. /\ op[o].pc = "open" /\ op'[o].pc = "idle" /\ op[o].batch \in Batches
        /\ StageHolds(o) /\ (\A p \in Operators \ {o} : op[p].pc = "idle")
        /\ (\A b \in Batches : batch[b] # "open") /\ rec.pc = "idle"
    BY <1>2, OperationIsAlone, EndEffect DEF OpenBatch, ProvisionPc, RequestsNameABatch
  <2> DEFINE b == op[o].batch
  <2>2. CASE batch' = batch
    BY <1>2, <1>o, <2>1, <2>2, EndingKeepsSession DEF OpenBatch, ProvisionPc
  <2>3. CASE batch' = [batch EXCEPT ![b] = "open"]
    <3> USE <1>2 DEF OpenBatch, SessionInv
    <3>1. batch'[b] = "open" /\ \A c \in Batches \ {b} : batch'[c] = batch[c]
      BY <2>1, <2>3 DEF TypeOK
    <3>2. PICK k \in Keys : op[o].keys = {k}
      BY <2>1 DEF StageHolds, Keyed
    <3>3. /\ configMap = b /\ secret = k /\ (\A s \in Slots : volume[s].work = {})
          /\ DOMAIN slotKey[b] = Slots /\ (\A s \in Slots : slotKey[b][s] = k)
          /\ \A s \in DOMAIN slotAttempt[b] : slotAttempt[b][s] = Null
      BY <2>1, <3>2 DEF StageHolds, Keyed, Mapped, Sealed, Vacated
    <3>4. DOMAIN slotState[b] = Slots /\ DOMAIN slotAttempt[b] = Slots
      BY <2>1, <3>3 DEF TypeOK
    <3>5. \A p \in Operators : op'[p].pc = "idle"
      BY <1>o, <2>1
    <3>6. OneOperation' /\ ProvisionsAreUndisturbed' /\ StagesHold'
      BY <3>5, IdleHolds DEF OneOperation, ProvisionsAreUndisturbed, Provisions, StagesHold, ProvisionPc
    <3>7. ConfigMapIsCurrent'
      BY <2>1, <3>1, <3>3 DEF ConfigMapIsCurrent
    <3>8. ScheduledIsUntouched' /\ VolumesAreCurrent'
      BY <3>1 DEF ScheduledIsUntouched, VolumesAreCurrent
    <3>9. WorkIsTheHolders'
      BY <2>1, <3>1, <3>3, <3>4 DEF WorkIsTheHolders
    <3>10. KeysAreRecorded'
      BY <2>1, <3>1, <3>3, NullAssumption DEF KeysAreRecorded, Provisioned, Keys
    <3> QED BY <3>6, <3>7, <3>8, <3>9, <3>10
  <2> QED BY <1>2, <2>2, <2>3 DEF OpenBatch
<1> QED BY <1>1, <1>2, ProvisionStepKeepsSession DEF Provisioning

LEMMA ClosingKeepsSession ==
  ASSUME Disciplined, TypeOK, RequestsNameABatch, SessionInv, NEW o \in Operators, Closing(o)
  PROVE  SessionInv'
<1> USE DEF hallVars, rowVars, keyVars, podVars, clusterVars
<1>o. \A p \in Operators \ {o} : op'[p] = op[p]
  BY OperationEffect
<1>1. ASSUME NEW b \in Batches, NEW via, CloseStart(o, b, via) PROVE SessionInv'
  <2>1. Quiet /\ \A c \in Batches : batch'[c] # "open" /\ (batch'[c] = "scheduled" => batch[c] = "scheduled")
    BY <1>1 DEF CloseStart, Disciplined, RuleNames, TypeOK
  <2>2. op'[o].pc = "sweep"
    BY <1>1 DEF CloseStart, TypeOK
  <2> QED BY <1>1, <1>o, <2>1, <2>2, EndingKeepsSession DEF CloseStart, Quiet, ProvisionPc
<1>2. ASSUME NEW a \in Attempts, SweepOne(o, a) PROVE SessionInv'
  <2>1. AttemptsMove
    BY <1>2, RosterAssumption DEF SweepOne, CloseAttempt, AttemptsMove, SessionInv, ScheduledIsUntouched, TypeOK
  <2>2. RowsSettle
    BY <1>2, RosterAssumption, MarksSettle DEF SweepOne, CloseAttempt
  <2> QED BY <1>2, <2>1, <2>2, SettlingKeepsSession DEF SweepOne, CloseAttempt
<1>3. CASE \/ Swept(o) \/ ListKeys(o) \/ Teardown(o) \/ BlockKeys(o)
           \/ ClearQueue(o, "clear", "cancel") \/ CloseDone(o)
  <2>1. /\ \A p \in Operators \ {o} : op[p].pc = "idle"
        /\ \A b \in Batches : batch[b] # "open"
    BY <1>3, OperationIsAlone
       DEF Swept, ListKeys, Teardown, BlockKeys, ClearQueue, CloseDone, Advance
  <2>2. op'[o].pc \notin ProvisionPc
    <3>1. CASE ListKeys(o)
      <4> DEFINE K == {slotKey[op[o].batch][s] : s \in DOMAIN slotKey[op[o].batch]} \ {Null}
      <4>1. K \in SUBSET Keys
        BY <3>1, RowTypes DEF ListKeys, RequestsNameABatch
      <4>2. op' = [op EXCEPT ![o].pc = "teardown", ![o].keys = K]
        BY <3>1 DEF ListKeys
      <4>3. "teardown" \in ProvisionPc \cup ClosePc
        BY DEF ClosePc
      <4> HIDE DEF K
      <4>4. op'[o].pc = "teardown"
        BY ONLY TypeOK, <4>1, <4>2, <4>3, KeysTyped
      <4> QED BY <4>4 DEF ProvisionPc
    <3>2. CASE Swept(o) \/ Teardown(o) \/ BlockKeys(o) \/ ClearQueue(o, "clear", "cancel")
      BY <3>2, AdvanceEffect DEF Swept, Teardown, BlockKeys, ClearQueue, ProvisionPc
    <3>3. CASE CloseDone(o)
      BY <3>3, EndEffect DEF CloseDone, ProvisionPc
    <3> QED BY <1>3, <3>1, <3>2, <3>3
  <2>3. \A b \in Batches : /\ batch'[b] # "open"
                           /\ batch'[b] = "scheduled" => batch[b] = "scheduled"
    BY <1>3, <2>1 DEF Swept, ListKeys, Teardown, BlockKeys, ClearQueue, CloseDone, TypeOK
  <2> QED BY <1>3, <1>o, <2>1, <2>2, <2>3, EndingKeepsSession
          DEF Swept, ListKeys, Teardown, BlockKeys, ClearQueue, CloseDone
<1>4. CASE MarkDown(o)
  <2>1. /\ \A p \in Operators \ {o} : op[p].pc = "idle"
        /\ \A b \in Batches : batch[b] # "open"
    BY <1>4, OperationIsAlone DEF MarkDown, Advance
  <2>2. op'[o].pc \notin ProvisionPc
    BY <1>4, AdvanceEffect DEF MarkDown, ProvisionPc
  <2>3. \A b \in Batches : RowsIn(slotState'[b], BusyState) \subseteq RowsIn(slotState[b], BusyState)
    BY <1>4 DEF MarkDown, MarkBatchDown, RowsIn, BusyState, TypeOK
  <2> QED BY <1>4, <1>o, <2>1, <2>2, <2>3, EndingKeepsSession DEF MarkDown
<1> QED BY <1>1, <1>2, <1>3, <1>4 DEF Closing

(* Buttons of the list page, calls that end early, and Kubernetes.         *)
LEMMA OthersKeepSession ==
  ASSUME Disciplined, TypeOK, RequestsNameABatch, SessionInv,
         \/ \E o \in Operators : OpFails(o)
         \/ \E b \in Batches : SetStatus(b) \/ CancelIdle(b)
         \/ Kubernetes
         \/ UNCHANGED vars
  PROVE  SessionInv'
<1> USE DEF hallVars, rowVars, keyVars, podVars, clusterVars
<1>1. ASSUME NEW o \in Operators, OpFails(o) PROVE SessionInv'
  <2>1. /\ \A p \in Operators \ {o} : op[p].pc = "idle" /\ op'[p] = op[p]
        /\ \A b \in Batches : batch[b] # "open"
    BY <1>1, OperationIsAlone, OperationEffect DEF OpFails
  <2>2. op'[o].pc \in {"idle", "cancel"}
    BY <1>1 DEF OpFails, NoOp, TypeOK, Op
  <2> QED BY <1>1, <2>1, <2>2, EndingKeepsSession DEF OpFails, ProvisionPc
<1>2. ASSUME NEW b \in Batches, batch' = [batch EXCEPT ![b] = "open"], SetStatus(b)
      PROVE  SessionInv'
  <2> USE <1>2 DEF SetStatus, SessionInv
  <2>1. /\ batch'[b] = "open" /\ \A c \in Batches \ {b} : batch'[c] = batch[c]
        /\ batch[b] = "scheduled"
    BY DEF TypeOK
  <2>2. /\ \A o \in Operators : op[o].pc = "idle"
        /\ rec.pc = "idle" /\ Provisioned(b) /\ \A c \in Batches : batch[c] # "open"
    BY <2>1 DEF Alone, Disciplined, RuleNames, Quiet
  <2>3. OneOperation' /\ ProvisionsAreUndisturbed' /\ StagesHold'
    BY <2>2, IdleHolds DEF OneOperation, ProvisionsAreUndisturbed, Provisions, StagesHold, ProvisionPc
  <2>4. ConfigMapIsCurrent'
    BY <2>1, <2>2 DEF ConfigMapIsCurrent, Provisioned
  <2>5. ScheduledIsUntouched' /\ VolumesAreCurrent'
    BY <2>1 DEF ScheduledIsUntouched, VolumesAreCurrent
  <2>6. WorkIsTheHolders'
    <3>1. DOMAIN slotState[b] = Slots /\ DOMAIN slotAttempt[b] = Slots
      BY <2>2 DEF Provisioned, TypeOK
    <3> QED BY <2>1, <2>2, <3>1 DEF WorkIsTheHolders, ScheduledIsUntouched, Provisioned
  <2>7. KeysAreRecorded'
    BY <2>1, <2>2 DEF KeysAreRecorded, Provisioned
  <2> QED BY <2>3, <2>4, <2>5, <2>6, <2>7
<1>3. ASSUME NEW b \in Batches, NEW st \in {"closed", "cancelled"}, batch' = [batch EXCEPT ![b] = st],
             SetStatus(b) \/ CancelIdle(b)
      PROVE  SessionInv'
  <2> USE <1>3 DEF SetStatus, CancelIdle, SessionInv
  <2>1. \A c \in Batches : batch'[c] = batch[c] \/ batch'[c] \in {"closed", "cancelled"}
    BY DEF TypeOK
  <2>2. OneOperation' /\ ConfigMapIsCurrent' /\ ProvisionsAreUndisturbed'
    BY <2>1 DEF OneOperation, ConfigMapIsCurrent, ProvisionsAreUndisturbed, Provisions, HasBusySlots
  <2>3. ScheduledIsUntouched' /\ VolumesAreCurrent'
    BY <2>1 DEF ScheduledIsUntouched, VolumesAreCurrent
  <2>4. StagesHold'
    BY DEF StagesHold, StageHolds, Wiped
  <2>5. WorkIsTheHolders' /\ KeysAreRecorded'
    BY <2>1 DEF WorkIsTheHolders, KeysAreRecorded, Provisioned
  <2> QED BY <2>2, <2>3, <2>4, <2>5
<1>4. CASE Kubernetes
  <2> USE DEF SessionInv
  <2> PICK s \in Slots : PodStart(s) \/ PodStop(s) \/ VolumeGone(s)
    BY <1>4 DEF Kubernetes
  <2>1. /\ UNCHANGED <<batch, hallVars, rowVars, captured, rec, op, replicas, configMap, secret>>
        /\ \A t \in Slots \ {s} : volume'[t] = volume[t]
        /\ pods' \subseteq pods \cup {s} /\ (s \in pods' => PodStart(s))
    BY DEF PodStart, PodStop, VolumeGone, TypeOK
  <2>2. /\ volume'[s] = volume[s] \/ volume[s] = NoVolume \/ volume'[s] = NoVolume
        /\ volume'[s].work \subseteq volume[s].work
        /\ volume'[s] # NoVolume => volume'[s].seed = configMap
        /\ s \in pods' => volume'[s] # NoVolume
    <3>1. CASE PodStart(s)
      <4>1. CASE volume[s] = NoVolume
        <5>1. volume'[s] = [NoVolume EXCEPT !.seed = configMap] /\ configMap # Null
          BY <3>1, <4>1 DEF PodStart, Seeded, TypeOK
        <5>2. volume'[s].seed = configMap /\ volume'[s].work = {} /\ NoVolume.seed = Null
          BY <5>1 DEF NoVolume
        <5> QED BY <4>1, <5>1, <5>2
      <4>2. CASE volume[s] # NoVolume
        BY <3>1, <4>2 DEF PodStart, Seeded, VolumesAreCurrent, TypeOK
      <4> QED BY <4>1, <4>2
    <3>2. CASE PodStop(s)
      BY <3>2 DEF PodStop, VolumesAreCurrent
    <3>3. CASE VolumeGone(s)
      <4>1. volume'[s] = NoVolume /\ s \notin pods'
        BY <3>3 DEF VolumeGone, TypeOK
      <4> QED BY <4>1 DEF NoVolume
    <3> QED BY <3>1, <3>2, <3>3
  <2>3. \A t \in Slots : volume'[t].work \subseteq volume[t].work
    BY <2>1, <2>2
  <2>4. OneOperation' /\ ConfigMapIsCurrent' /\ ProvisionsAreUndisturbed'
    BY <2>1 DEF OneOperation, ConfigMapIsCurrent, ProvisionsAreUndisturbed, Provisions, HasBusySlots
  <2>5. ScheduledIsUntouched'
    BY <2>1, <2>3 DEF ScheduledIsUntouched
  <2>6. StagesHold'
    <3> SUFFICES ASSUME NEW o \in Operators PROVE StageHolds(o)'
      BY DEF StagesHold
    <3>1. StageHolds(o)
      BY DEF StagesHold
    <3>2. op[o].pc \in {"draining"} \cup Empty => s \notin pods' /\ ~PodStart(s)
      BY <2>1, <3>1 DEF StageHolds, PodStart, Slots
    <3>3. op[o].pc \in Empty => pods' = {}
      BY <2>1, <3>1, <3>2 DEF StageHolds
    <3>4. op[o].pc \in Clean => Wiped'
      <4> SUFFICES ASSUME op[o].pc \in Clean PROVE Wiped'
        OBVIOUS
      <4>1. Wiped /\ ~PodStart(s)
        BY <3>1, <3>2 DEF StageHolds, Empty
      <4> QED BY <2>1, <4>1 DEF Wiped, PodStop, VolumeGone, TypeOK
    <3> QED BY <2>1, <2>3, <3>1, <3>3, <3>4 DEF StageHolds
  <2>7. VolumesAreCurrent'
    BY <2>1, <2>2 DEF VolumesAreCurrent, TypeOK
  <2>8. WorkIsTheHolders'
    BY <2>1, <2>3 DEF WorkIsTheHolders
  <2>9. KeysAreRecorded'
    <3>1. secret # Null => \A t \in pods' : podKey'[t] = secret
      BY <2>1 DEF KeysAreRecorded, PodStart, PodStop, VolumeGone, TypeOK
    <3> QED BY <2>1, <3>1 DEF KeysAreRecorded, Provisioned
  <2> QED BY <2>4, <2>5, <2>6, <2>7, <2>8, <2>9
<1>5. CASE UNCHANGED vars
  BY <1>5, SettlingKeepsSession DEF vars, RowsSettle, AttemptsMove
<1>6. ASSUME NEW b \in Batches, SetStatus(b) \/ CancelIdle(b)
      PROVE  \/ batch' = [batch EXCEPT ![b] = "open"] /\ SetStatus(b)
             \/ \E st \in {"closed", "cancelled"} : batch' = [batch EXCEPT ![b] = st]
  BY <1>6 DEF SetStatus, CancelIdle
<1> QED BY <1>1, <1>2, <1>3, <1>4, <1>5, <1>6

(* With both rules kept, requests, cluster and rows stay of one batch at a *)
(* time: the inductive invariant behind the two theorems below.            *)
THEOREM Sessions ==
  ASSUME Disciplined
  PROVE  Spec => []SessionInv
<1>1. TypeOK /\ RequestsNameABatch /\ SessionInv /\ [Next]_vars => SessionInv'
  BY StudyingKeepsSession, PackagingKeepsSession, ReconcilingKeepsSession, ProvisioningKeepsSession,
     ClosingKeepsSession, OthersKeepSession DEF Next, Operating
<1> QED BY <1>1, InitSession, TypeSafety, PTL DEF Spec

(* With both rules kept, whatever the pool's size, the roster and the      *)
(* number of operators: a student served in an open batch is alone in a    *)
(* workspace seeded with the problem of that batch, although provisions    *)
(* and closes may fail at any step and pods come and go.                   *)
THEOREM Workspace ==
  ASSUME Disciplined
  PROVE  Spec => []OwnWorkspace
<1>1. TypeOK /\ SessionInv => OwnWorkspace
  <2> SUFFICES ASSUME TypeOK, SessionInv, NEW a \in Attempts, NEW s \in Slots, Served(a, s)
               PROVE  volume[s].seed = BatchOf[a] /\ volume[s].work \subseteq {a}
    BY DEF OwnWorkspace
  <2>1. /\ BatchOf[a] \in Batches /\ batch[BatchOf[a]] = "open" /\ s \in pods
        /\ slotAttempt[BatchOf[a]][s] = a
    BY RosterAssumption DEF Served, Seated, SlotsHeldBy, RowsOf
  <2> QED BY <2>1 DEF SessionInv, ConfigMapIsCurrent, VolumesAreCurrent, WorkIsTheHolders
<1> QED BY <1>1, Sessions, TypeSafety, PTL

(* With both rules kept, the key a served student's pod exported is the    *)
(* one its row records, so closeBatch finds it to block.                   *)
THEOREM RecordedKeys ==
  ASSUME Disciplined
  PROVE  Spec => []RevocableKey
<1>1. TypeOK /\ SessionInv => RevocableKey
  <2> SUFFICES ASSUME TypeOK, SessionInv, NEW a \in Attempts, NEW s \in Slots, Served(a, s)
               PROVE  podKey[s] \in Keys /\ podKey[s] = slotKey[BatchOf[a]][s]
    BY DEF RevocableKey
  <2>1. BatchOf[a] \in Batches /\ batch[BatchOf[a]] = "open" /\ s \in pods
    BY RosterAssumption DEF Served
  <2> QED BY <2>1 DEF SessionInv, KeysAreRecorded, Provisioned, TypeOK
<1> QED BY <1>1, Sessions, TypeSafety, PTL
===============================================================================
