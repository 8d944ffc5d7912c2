------------------------------- MODULE PoolOps -------------------------------
(***************************************************************************)
(* The cold path: operators open, close and cancel batches, one after the  *)
(* other or too close together, on the single StatefulSet, ConfigMap and   *)
(* Secret that all batches share.  provisionBatch and closeBatch are taken *)
(* apart into their steps, each of which may fail or be the last one of a  *)
(* dying process; students, the reconciler, packaging Jobs and Kubernetes  *)
(* go on in between.                                                       *)
(*                                                                         *)
(* The hot path is ExamHall's subject and is kept coarse here: startExam   *)
(* is its transaction, the queue has no order, deadlines are left out and  *)
(* a sweep may find any running attempt overdue.                           *)
(***************************************************************************)
EXTENDS SlotsRepo

CONSTANTS
  Batches,        \* rows of exam.batches
  Attempts,       \* rows of exam.attempts
  BatchOf,        \* exam.attempts.batch_id
  Operators,      \* operator requests that may be in flight at once
  PoolSize,       \* min(batch.capacity, MAX_SLOTS), the same for every batch
  WarmCount,      \* batch.warm_count
  MaxKeys,        \* bound: virtual keys issued, hence provisions that get that far
  Rules,          \* what the operators keep to: see RuleNames
  Events,         \* bound: the requests and faults that occur at all
  Null

ASSUME RosterAssumption == IsFiniteSet(Attempts) /\ BatchOf \in [Attempts -> Batches]
ASSUME SizeAssumption ==
  /\ PoolSize \in Nat \ {0}
  /\ WarmCount \in 0 .. PoolSize
  /\ MaxKeys \in Nat

(* The code enforces neither rule.  "alone": one session at a time; nothing *)
(* is opened while a batch is open, an operation is under way or the last   *)
(* reconcile has not ended.  "close": an open batch is torn down only by    *)
(* closeBatchEnvAction, which closes it first.                              *)
RuleNames == {"alone", "close"}
ASSUME RulesAssumption == Rules \subseteq RuleNames

EventKinds == {"submit", "route", "list", "cancel", "fail", "lose"}
ASSUME EventsAssumption == Events \subseteq EventKinds
ASSUME NullAssumption == Null \notin Attempts \cup Batches \cup Nat

Slots == 0 .. PoolSize - 1
Keys == 1 .. MaxKeys

BatchStatus == {"scheduled", "open", "closed", "cancelled"}
AttemptStatus == {"ready", "running", "submitted"}

VARIABLES
  batch,         \* exam.batches.status
  attempt,       \* exam.attempts.status
  waiting,       \* attempts with a row in hosted.entry_queue
  slotState,     \* hosted.slots.state, per batch, over its registered rows
  slotAttempt,   \* hosted.slots.attempt_id
  slotKey,       \* hosted.slots.virtual_key
  untriggered,   \* submitted attempts whose triggerPackaging is still to come
  captured,      \* whose work the registered artifact of an attempt holds
  rec,           \* the reconcilePool call that has the advisory lock
  op,            \* the operator requests
  issued,        \* LiteLLM: keys generated so far
  blocked,       \* LiteLLM: keys blocked
  replicas,      \* StatefulSet spec.replicas
  pods,          \* ordinals of the pods that run
  podKey,        \* the key a pod exported when it started
  volume,        \* PersistentVolumeClaims: whose scaffold, whose work
  configMap,     \* the batch the exam-batch ConfigMap names
  secret,        \* the key in the exam-virtual-keys Secret
  jobs           \* packaging Jobs

rowVars == <<slotState, slotAttempt, slotKey>>
hallVars == <<attempt, waiting, untriggered>>
keyVars == <<issued, blocked>>
podVars == <<pods, podKey>>
clusterVars == <<replicas, configMap, secret>>
vars == <<batch, hallVars, rowVars, captured, rec, op, keyVars, podVars, volume,
          clusterVars, jobs>>

NoVolume == [seed |-> Null, work |-> {}, doomed |-> FALSE]
Volume == [seed : Batches \cup {Null}, work : SUBSET Attempts, doomed : BOOLEAN]

NoReconcile == [pc |-> "idle", batch |-> Null, live |-> {}]
Reconcile ==
  [pc : {"idle", "locked", "listed", "synced"}, batch : Batches \cup {Null},
   live : SUBSET Slots]

ProvisionPc ==
  {"scale0", "draining", "jobs", "volumes", "wiping", "key", "config", "secret",
   "warm", "reset", "queue", "register", "open"}
ClosePc == {"sweep", "list", "teardown", "block", "mark", "clear", "cancel"}

(* `via` is the caller: the admin's actions, or the internal routes of     *)
(* exam-ops.sh, which leave the status of the batch alone.                 *)
NoOp == [pc |-> "idle", batch |-> Null, via |-> "route", keys |-> {}]
Op ==
  [pc : {"idle"} \cup ProvisionPc \cup ClosePc, batch : Batches \cup {Null},
   via : {"action", "route", "cancel"}, keys : SUBSET Keys]

Job == [attempt : Attempts, slot : Slots]

Columns(S) == UNION {[D -> S] : D \in SUBSET Slots}

TypeOK ==
  /\ batch \in [Batches -> BatchStatus]
  /\ attempt \in [Attempts -> AttemptStatus]
  /\ waiting \in SUBSET Attempts
  /\ slotState \in [Batches -> Columns(SlotState)]
  /\ slotAttempt \in [Batches -> Columns(Attempts \cup {Null})]
  /\ slotKey \in [Batches -> Columns(Keys \cup {Null})]
  /\ \A b \in Batches : /\ DOMAIN slotAttempt[b] = DOMAIN slotState[b]
                        /\ DOMAIN slotKey[b] = DOMAIN slotState[b]
  /\ untriggered \in SUBSET Attempts
  /\ captured \in [Attempts -> {Null} \cup SUBSET Attempts]
  /\ rec \in Reconcile
  /\ op \in [Operators -> Op]
  /\ issued \in 0 .. MaxKeys
  /\ blocked \in SUBSET Keys
  /\ replicas \in 0 .. PoolSize
  /\ pods \in SUBSET Slots
  /\ podKey \in [Slots -> Keys \cup {Null}]
  /\ volume \in [Slots -> Volume]
  /\ configMap \in Batches \cup {Null}
  /\ secret \in Keys \cup {Null}
  /\ jobs \in SUBSET Job

(* Created batches with their rosters; the StatefulSet is at 0.            *)
Init ==
  /\ batch = [b \in Batches |-> "scheduled"]
  /\ attempt = [a \in Attempts |-> "ready"]
  /\ waiting = {}
  /\ slotState = [b \in Batches |-> [s \in {} |-> "down"]]
  /\ slotAttempt = [b \in Batches |-> [s \in {} |-> Null]]
  /\ slotKey = [b \in Batches |-> [s \in {} |-> Null]]
  /\ untriggered = {}
  /\ captured = [a \in Attempts |-> Null]
  /\ rec = NoReconcile
  /\ op = [o \in Operators |-> NoOp]
  /\ issued = 0
  /\ blocked = {}
  /\ replicas = 0
  /\ pods = {}
  /\ podKey = [s \in Slots |-> Null]
  /\ volume = [s \in Slots |-> NoVolume]
  /\ configMap = Null
  /\ secret = Null
  /\ jobs = {}

-------------------------------------------------------------------------------
(* The statements of hosted.slots on one batch, and who sits where.        *)

SlotsHeldBy(a) == RowsOf(slotAttempt[BatchOf[a]], a)

HasBusySlots == \E b \in Batches : RowsIn(slotState[b], BusyState) # {}

WaitingFor(b) == {a \in waiting : BatchOf[a] = b}

(* What exam-authz lets through: a running attempt to its assigned slot.   *)
Seated(a, s) ==
  /\ attempt[a] = "running"
  /\ s \in SlotsHeldBy(a)
  /\ slotState[BatchOf[a]][s] = "assigned"

AssignReady(b, a) ==
  \E s \in NextReady(slotState[b]) :
    /\ slotState' = [slotState EXCEPT ![b] = [@ EXCEPT ![s] = "assigned"]]
    /\ slotAttempt' = [slotAttempt EXCEPT ![b] = [@ EXCEPT ![s] = a]]

-------------------------------------------------------------------------------
(* Students.                                                               *)

(* startExam's transaction; a restart that finds its slot or its place in  *)
(* the queue changes nothing.                                              *)
Start(a) ==
  LET b == BatchOf[a] IN
  /\ batch[b] = "open"
  /\ attempt[a] \in {"ready", "running"}
  /\ SlotsHeldBy(a) = {} /\ a \notin waiting
  /\ attempt' = [attempt EXCEPT ![a] = "running"]
  /\ \/ /\ WaitingFor(b) = {}
        /\ AssignReady(b, a)
        /\ UNCHANGED waiting
     \/ /\ WaitingFor(b) # {} \/ NextReady(slotState[b]) = {}
        /\ waiting' = waiting \cup {a}
        /\ UNCHANGED <<slotState, slotAttempt>>
  /\ UNCHANGED <<batch, untriggered, slotKey, captured, rec, op, keyVars, podVars,
                 volume, clusterVars, jobs>>

(* The student types: the IDE writes to the volume of the pod it is in.    *)
Work(a, s) ==
  /\ Seated(a, s)
  /\ s \in pods
  /\ volume' = [volume EXCEPT ![s].work = @ \cup {a}]
  /\ UNCHANGED <<batch, hallVars, rowVars, captured, rec, op, keyVars, podVars,
                 clusterVars, jobs>>

(* The transaction of submitExam, forceSubmit or autoCollectAttempt.       *)
CloseAttempt(a) ==
  /\ attempt' = [attempt EXCEPT ![a] = "submitted"]
  /\ slotState' = [slotState EXCEPT ![BatchOf[a]] =
                     MarkSubmitting(@, slotAttempt[BatchOf[a]], a)]
  /\ untriggered' = untriggered \cup {a}
  /\ UNCHANGED <<batch, waiting, slotAttempt, slotKey, captured, rec, keyVars,
                 podVars, volume, clusterVars, jobs>>

(* None of these looks at the batch: a running attempt that a close left   *)
(* behind may be submitted or forced at any later time.                    *)
Submit(a) ==
  /\ "submit" \in Events
  /\ attempt[a] = "running"
  /\ CloseAttempt(a)
  /\ UNCHANGED op

-------------------------------------------------------------------------------
(* Packaging: triggerPackaging after the commit, and the Job, which finds  *)
(* the volume by its slot number.                                          *)

JobsFor(a) == [attempt : {a}, slot : SlotsHeldBy(a)]

TriggerPackaging(a) ==
  /\ a \in untriggered
  /\ untriggered' = untriggered \ {a}
  /\ jobs' \in {jobs, jobs \cup JobsFor(a)}
  /\ UNCHANGED <<batch, attempt, waiting, rowVars, captured, rec, op, keyVars,
                 podVars, volume, clusterVars>>

(* The Job reads whatever volume has that name, and its callback registers *)
(* the artifact as the attempt's accepted, verified submission.            *)
JobDone(j) ==
  LET b == BatchOf[j.attempt] IN
  /\ j \in jobs
  /\ volume[j.slot] # NoVolume
  /\ attempt[j.attempt] = "submitted"
  /\ jobs' = jobs \ {j}
  /\ captured' = [captured EXCEPT ![j.attempt] = volume[j.slot].work]
  /\ slotState' = [slotState EXCEPT ![b] = MarkRecycling(@, slotAttempt[b], j.attempt)]
  /\ UNCHANGED <<batch, hallVars, slotAttempt, slotKey, rec, op, keyVars, podVars,
                 volume, clusterVars>>

-------------------------------------------------------------------------------
(* reconcilePool: one at a time over all batches, on a status it read once *)
(* and a list of pods that says nothing of the batch they were seeded for. *)

ReconcileLock(b) ==
  /\ rec.pc = "idle"
  /\ batch[b] = "open"
  /\ WaitingFor(b) # {}
  /\ rec' = [pc |-> "locked", batch |-> b, live |-> {}]
  /\ UNCHANGED <<batch, hallVars, rowVars, captured, op, keyVars, podVars, volume,
                 clusterVars, jobs>>

ListPods ==
  /\ rec.pc = "locked"
  /\ rec' = [rec EXCEPT !.pc = "listed", !.live = pods]
  /\ UNCHANGED <<batch, hallVars, rowVars, captured, op, keyVars, podVars, volume,
                 clusterVars, jobs>>

(* The two statements of syncReadySlots write different rows.              *)
SyncSlots ==
  /\ rec.pc = "listed"
  /\ rec' = [rec EXCEPT !.pc = "synced", !.live = {}]
  /\ slotState' = [slotState EXCEPT ![rec.batch] = SyncDown(SyncUp(@, rec.live), rec.live)]
  /\ UNCHANGED <<batch, hallVars, slotAttempt, slotKey, captured, op, keyVars,
                 podVars, volume, clusterVars, jobs>>

AssignHead ==
  /\ rec.pc = "synced"
  /\ \E a \in WaitingFor(rec.batch) :
       /\ AssignReady(rec.batch, a)
       /\ waiting' = waiting \ {a}
  /\ UNCHANGED <<batch, attempt, untriggered, slotKey, captured, rec, op, keyVars,
                 podVars, volume, clusterVars, jobs>>

Larger(m, n) == IF m > n THEN m ELSE n
Smaller(m, n) == IF m < n THEN m ELSE n

Desired(b) ==
  Smaller(PoolSize,
    Larger(WarmCount, Cardinality(RowsIn(slotState[b], UsedState))
                        + Cardinality(WaitingFor(b))))

(* Never down: giving pods back is closeBatch's business.                  *)
ScaleUp ==
  /\ rec.pc = "synced"
  /\ WaitingFor(rec.batch) = {} \/ NextReady(slotState[rec.batch]) = {}
  /\ replicas' = Larger(replicas, Desired(rec.batch))
  /\ rec' = NoReconcile
  /\ UNCHANGED <<batch, hallVars, rowVars, captured, op, keyVars, podVars, volume,
                 configMap, secret, jobs>>

ReconcileFails ==
  /\ "fail" \in Events
  /\ rec.pc # "idle"
  /\ rec' = NoReconcile
  /\ UNCHANGED <<batch, hallVars, rowVars, captured, op, keyVars, podVars, volume,
                 clusterVars, jobs>>

-------------------------------------------------------------------------------
(* provisionBatch.                                                         *)

Advance(o, from, to) ==
  /\ op[o].pc = from
  /\ op' = [op EXCEPT ![o].pc = to]

Quiet == \A o \in Operators : op[o].pc = "idle"

Alone ==
  "alone" \in Rules => Quiet /\ rec.pc = "idle" /\ \A b \in Batches : batch[b] # "open"

ProvisionStart(o, b, via) ==
  /\ op[o].pc = "idle"
  /\ via = "action" => batch[b] = "scheduled"
  /\ via = "route" => "route" \in Events
  /\ issued < MaxKeys
  /\ Alone
  /\ ~HasBusySlots
  /\ op' = [op EXCEPT ![o] = [pc |-> "scale0", batch |-> b, via |-> via, keys |-> {}]]
  /\ UNCHANGED <<batch, hallVars, rowVars, captured, rec, keyVars, podVars, volume,
                 clusterVars, jobs>>

ScaleToZero(o) ==
  /\ Advance(o, "scale0", "draining")
  /\ replicas' = 0
  /\ UNCHANGED <<batch, hallVars, rowVars, captured, rec, keyVars, podVars, volume,
                 configMap, secret, jobs>>

Drained(o) ==
  /\ Advance(o, "draining", "jobs")
  /\ pods = {}
  /\ UNCHANGED <<batch, hallVars, rowVars, captured, rec, keyVars, podVars, volume,
                 clusterVars, jobs>>

DeleteJobs(o) ==
  /\ Advance(o, "jobs", "volumes")
  /\ jobs' = {}
  /\ UNCHANGED <<batch, hallVars, rowVars, captured, rec, keyVars, podVars, volume,
                 clusterVars>>

DeleteVolumes(o) ==
  /\ Advance(o, "volumes", "wiping")
  /\ volume' = [s \in Slots |-> [volume[s] EXCEPT !.doomed = volume[s] # NoVolume]]
  /\ UNCHANGED <<batch, hallVars, rowVars, captured, rec, keyVars, podVars,
                 clusterVars, jobs>>

(* The wait whose timeout is a hard failure.                               *)
Wiped == \A s \in Slots : volume[s] = NoVolume

WaitForWipe(o) ==
  /\ Advance(o, "wiping", "key")
  /\ Wiped
  /\ UNCHANGED <<batch, hallVars, rowVars, captured, rec, keyVars, podVars, volume,
                 clusterVars, jobs>>

GenerateKey(o) ==
  /\ op[o].pc = "key"
  /\ issued < MaxKeys
  /\ issued' = issued + 1
  /\ op' = [op EXCEPT ![o].pc = "config", ![o].keys = {issued + 1}]
  /\ UNCHANGED <<batch, hallVars, rowVars, captured, rec, blocked, podVars, volume,
                 clusterVars, jobs>>

(* Mutant: the ConfigMap is created, and left alone when it exists.        *)
CreateConfigMap(o) ==
  /\ Advance(o, "config", "secret")
  /\ configMap' = IF configMap = Null THEN op[o].batch ELSE configMap
  /\ UNCHANGED <<batch, hallVars, rowVars, captured, rec, keyVars, podVars, volume,
                 replicas, secret, jobs>>

(* applyObject is a server-side apply: what is there is overwritten.       *)
ApplyConfigMap(o) ==
  /\ Advance(o, "config", "secret")
  /\ configMap' = op[o].batch
  /\ UNCHANGED <<batch, hallVars, rowVars, captured, rec, keyVars, podVars, volume,
                 replicas, secret, jobs>>

(* Mutant: the Secret is created, and left alone when it exists.           *)
CreateSecret(o) ==
  /\ Advance(o, "secret", "warm")
  /\ IF secret = Null THEN secret' \in op[o].keys ELSE UNCHANGED secret
  /\ UNCHANGED <<batch, hallVars, rowVars, captured, rec, keyVars, podVars, volume,
                 replicas, configMap, jobs>>

ApplySecret(o) ==
  /\ Advance(o, "secret", "warm")
  /\ secret' \in op[o].keys
  /\ UNCHANGED <<batch, hallVars, rowVars, captured, rec, keyVars, podVars, volume,
                 replicas, configMap, jobs>>

ScaleToWarm(o) ==
  /\ Advance(o, "warm", "reset")
  /\ replicas' = WarmCount
  /\ UNCHANGED <<batch, hallVars, rowVars, captured, rec, keyVars, podVars, volume,
                 configMap, secret, jobs>>

Blank(b, v) == [s \in DOMAIN slotState[b] |-> v]

ResetBatchSlots(o) ==
  LET b == op[o].batch IN
  /\ Advance(o, "reset", "queue")
  /\ slotState' = [slotState EXCEPT ![b] = Blank(b, "down")]
  /\ slotAttempt' = [slotAttempt EXCEPT ![b] = Blank(b, Null)]
  /\ slotKey' = [slotKey EXCEPT ![b] = Blank(b, Null)]
  /\ UNCHANGED <<batch, hallVars, captured, rec, keyVars, podVars, volume,
                 clusterVars, jobs>>

ClearQueue(o, from, to) ==
  /\ Advance(o, from, to)
  /\ waiting' = waiting \ WaitingFor(op[o].batch)
  /\ UNCHANGED <<batch, attempt, untriggered, rowVars, captured, rec, keyVars,
                 podVars, volume, clusterVars, jobs>>

(* registerSlotTx for every slot number, in one transaction.               *)
RegisterSlots(o) ==
  LET b == op[o].batch
      known == DOMAIN slotState[b]
  IN
  /\ Advance(o, "register", "open")
  /\ slotState' = [slotState EXCEPT ![b] =
       [s \in Slots |-> IF s \in known /\ @[s] \notin UnassignedState THEN @[s] ELSE "down"]]
  /\ slotAttempt' = [slotAttempt EXCEPT ![b] =
       [s \in Slots |-> IF s \in known THEN @[s] ELSE Null]]
  /\ \E k \in op[o].keys : slotKey' = [slotKey EXCEPT ![b] = [s \in Slots |-> k]]
  /\ UNCHANGED <<batch, hallVars, captured, rec, keyVars, podVars, volume,
                 clusterVars, jobs>>

(* openBatchEnvAction sets the status only after all of it has succeeded.  *)
OpenBatch(o) ==
  /\ op[o].pc = "open"
  /\ batch' = IF op[o].via = "action" THEN [batch EXCEPT ![op[o].batch] = "open"] ELSE batch
  /\ op' = [op EXCEPT ![o] = NoOp]
  /\ UNCHANGED <<hallVars, rowVars, captured, rec, keyVars, podVars, volume,
                 clusterVars, jobs>>

-------------------------------------------------------------------------------
(* closeBatch, and its three callers.                                      *)

(* closeBatchEnvAction closes the batch first; the internal route does not *)
(* touch the status; cancelBatchAction tears down an open batch first.     *)
CloseStart(o, b, via) ==
  /\ op[o].pc = "idle"
  /\ via # "action" => via \in Events
  /\ "alone" \in Rules => Quiet /\ \A c \in Batches \ {b} : batch[c] # "open"
  /\ "close" \in Rules => via = "action" \/ batch[b] # "open"
  /\ \/ via = "action" /\ batch[b] = "open" /\ batch' = [batch EXCEPT ![b] = "closed"]
     \/ via = "cancel" /\ batch[b] = "open" /\ UNCHANGED batch
     \/ via = "route" /\ UNCHANGED batch
  /\ op' = [op EXCEPT ![o] = [pc |-> "sweep", batch |-> b, via |-> via, keys |-> {}]]
  /\ UNCHANGED <<hallVars, rowVars, captured, rec, keyVars, podVars, volume,
                 clusterVars, jobs>>

(* One autoCollectAttempt of the sweep.                                    *)
SweepOne(o, a) ==
  /\ op[o].pc = "sweep"
  /\ BatchOf[a] = op[o].batch
  /\ attempt[a] = "running"
  /\ CloseAttempt(a)
  /\ UNCHANGED op

(* The sweep awaits the packaging of what it collects.                     *)
Swept(o) ==
  /\ Advance(o, "sweep", "list")
  /\ \A a \in untriggered : BatchOf[a] # op[o].batch
  /\ UNCHANGED <<batch, hallVars, rowVars, captured, rec, keyVars, podVars, volume,
                 clusterVars, jobs>>

ListKeys(o) ==
  LET b == op[o].batch IN
  /\ op[o].pc = "list"
  /\ op' = [op EXCEPT ![o].pc = "teardown",
                      ![o].keys = {slotKey[b][s] : s \in DOMAIN slotKey[b]} \ {Null}]
  /\ UNCHANGED <<batch, hallVars, rowVars, captured, rec, keyVars, podVars, volume,
                 clusterVars, jobs>>

(* Best effort: whatever fails is a warning, and what follows it in the    *)
(* try block is skipped.                                                   *)
Teardown(o) ==
  /\ Advance(o, "teardown", "block")
  /\ \/ replicas' = 0 /\ secret' = Null
     \/ replicas' = 0 /\ UNCHANGED secret
     \/ UNCHANGED <<replicas, secret>>
  /\ UNCHANGED <<batch, hallVars, rowVars, captured, rec, keyVars, podVars, volume,
                 configMap, jobs>>

(* One call per key, each best effort.                                     *)
BlockKeys(o) ==
  /\ Advance(o, "block", "mark")
  /\ \E K \in SUBSET op[o].keys : blocked' = blocked \cup K
  /\ UNCHANGED <<batch, hallVars, rowVars, captured, rec, issued, podVars, volume,
                 clusterVars, jobs>>

MarkDown(o) ==
  LET b == op[o].batch IN
  /\ Advance(o, "mark", "clear")
  /\ slotState' = [slotState EXCEPT ![b] = MarkBatchDown(@)]
  /\ slotKey' = [slotKey EXCEPT ![b] = Blank(b, Null)]
  /\ UNCHANGED <<batch, hallVars, slotAttempt, captured, rec, keyVars, podVars,
                 volume, clusterVars, jobs>>

CloseDone(o) ==
  /\ op[o].pc = "cancel"
  /\ batch' = IF op[o].via = "cancel" THEN [batch EXCEPT ![op[o].batch] = "cancelled"]
              ELSE batch
  /\ op' = [op EXCEPT ![o] = NoOp]
  /\ UNCHANGED <<hallVars, rowVars, captured, rec, keyVars, podVars, volume,
                 clusterVars, jobs>>

(* The rows of b carry the key the pods are given.                         *)
Provisioned(b) ==
  /\ configMap = b /\ secret # Null
  /\ DOMAIN slotKey[b] = Slots /\ \A s \in Slots : slotKey[b][s] = secret

(* setBatchStatusAction, the list page's buttons: the status and nothing   *)
(* else.  Keeping to "alone" means to open only what the route has         *)
(* provisioned last.                                                       *)
SetStatus(b) ==
  /\ "list" \in Events
  /\ \/ /\ batch[b] = "scheduled"
        /\ Alone
        /\ "alone" \in Rules => Provisioned(b)
        /\ batch' = [batch EXCEPT ![b] = "open"]
     \/ /\ batch[b] = "open"
        /\ batch' = [batch EXCEPT ![b] = "closed"]
  /\ UNCHANGED <<hallVars, rowVars, captured, rec, op, keyVars, podVars, volume,
                 clusterVars, jobs>>

(* cancelBatchAction with nothing to tear down: the status alone.          *)
CancelIdle(b) ==
  /\ "cancel" \in Events
  /\ batch[b] \in {"scheduled", "closed"}
  /\ batch' = [batch EXCEPT ![b] = "cancelled"]
  /\ UNCHANGED <<hallVars, rowVars, captured, rec, op, keyVars, podVars, volume,
                 clusterVars, jobs>>

(* A step throws, a wait runs out or the process dies: the operation ends  *)
(* where it is, except that cancelBatchAction goes on to its status.       *)
OpFails(o) ==
  /\ "fail" \in Events
  /\ op[o].pc # "idle"
  /\ \/ op' = [op EXCEPT ![o] = NoOp]
     \/ op[o].via = "cancel" /\ op' = [op EXCEPT ![o].pc = "cancel"]
  /\ UNCHANGED <<batch, hallVars, rowVars, captured, rec, keyVars, podVars, volume,
                 clusterVars, jobs>>

-------------------------------------------------------------------------------
(* Kubernetes.                                                             *)

(* A pod of the StatefulSet starts on the volume of its ordinal.  The      *)
(* seeder fills it with the scaffold the ConfigMap names only if it is     *)
(* empty, and the start script exports the key of the Secret.              *)
Seeded(s) == IF volume[s] = NoVolume THEN [NoVolume EXCEPT !.seed = configMap] ELSE volume[s]

PodStart(s) ==
  /\ s < replicas
  /\ s \notin pods
  /\ configMap # Null
  /\ ~volume[s].doomed
  /\ pods' = pods \cup {s}
  /\ podKey' = [podKey EXCEPT ![s] = secret]
  /\ volume' = [volume EXCEPT ![s] = Seeded(s)]
  /\ UNCHANGED <<batch, hallVars, rowVars, captured, rec, op, keyVars, clusterVars, jobs>>

(* Scaled away, or lost with its node and to be started again.             *)
PodStop(s) ==
  /\ s \in pods
  /\ s < replicas => "lose" \in Events
  /\ pods' = pods \ {s}
  /\ podKey' = [podKey EXCEPT ![s] = Null]
  /\ UNCHANGED <<batch, hallVars, rowVars, captured, rec, op, keyVars, volume,
                 clusterVars, jobs>>

(* pvc-protection: a deleted volume goes when nothing uses it any more.    *)
VolumeGone(s) ==
  /\ volume[s].doomed
  /\ s \notin pods
  /\ \A j \in jobs : j.slot # s
  /\ volume' = [volume EXCEPT ![s] = NoVolume]
  /\ UNCHANGED <<batch, hallVars, rowVars, captured, rec, op, keyVars, podVars,
                 clusterVars, jobs>>

-------------------------------------------------------------------------------
Studying == \E a \in Attempts :
  \/ Start(a)
  \/ \E s \in Slots : Work(a, s)
  \/ Submit(a)

Packaging ==
  \/ \E a \in Attempts : TriggerPackaging(a)
  \/ \E j \in jobs : JobDone(j)

Reconciling ==
  \/ \E b \in Batches : ReconcileLock(b)
  \/ ListPods
  \/ SyncSlots
  \/ AssignHead
  \/ ScaleUp
  \/ ReconcileFails

Provisioning(o) ==
  \/ \E b \in Batches, via \in {"action", "route"} : ProvisionStart(o, b, via)
  \/ ScaleToZero(o)
  \/ Drained(o)
  \/ DeleteJobs(o)
  \/ DeleteVolumes(o)
  \/ WaitForWipe(o)
  \/ GenerateKey(o)
  \/ ApplyConfigMap(o)
  \/ ApplySecret(o)
  \/ ScaleToWarm(o)
  \/ ResetBatchSlots(o)
  \/ ClearQueue(o, "queue", "register")
  \/ RegisterSlots(o)
  \/ OpenBatch(o)

Closing(o) ==
  \/ \E b \in Batches, via \in {"action", "route", "cancel"} : CloseStart(o, b, via)
  \/ \E a \in Attempts : SweepOne(o, a)
  \/ Swept(o)
  \/ ListKeys(o)
  \/ Teardown(o)
  \/ BlockKeys(o)
  \/ MarkDown(o)
  \/ ClearQueue(o, "clear", "cancel")
  \/ CloseDone(o)

Operating ==
  \/ \E o \in Operators : Provisioning(o) \/ Closing(o) \/ OpFails(o)
  \/ \E b \in Batches : SetStatus(b) \/ CancelIdle(b)

Kubernetes == \E s \in Slots : PodStart(s) \/ PodStop(s) \/ VolumeGone(s)

Next == Studying \/ Packaging \/ Reconciling \/ Operating \/ Kubernetes

Spec == Init /\ [][Next]_vars
-------------------------------------------------------------------------------
(* Safety. *)

Served(a, s) == Seated(a, s) /\ s \in pods /\ batch[BatchOf[a]] = "open"

(* With both rules kept, a student at work in an open batch is alone in a  *)
(* workspace that was seeded with the problem of that batch, whatever      *)
(* failed or died in the provisions and closes before.                     *)
OwnWorkspace ==
  \A a \in Attempts, s \in Slots : Served(a, s) =>
    /\ volume[s].seed = BatchOf[a]
    /\ volume[s].work \subseteq {a}

(* ... and the key that pod spends is the one closeBatch will find in the  *)
(* rows and block.                                                         *)
RevocableKey ==
  \A a \in Attempts, s \in Slots : Served(a, s) =>
    podKey[s] \in Keys /\ podKey[s] = slotKey[BatchOf[a]][s]

(* Two students never type in the same pod.                                *)
OnePodOneStudent ==
  \A a, c \in Attempts, s \in Slots : Served(a, s) /\ Served(c, s) => a = c

(* A slot that changes hands has been wiped: nobody is served a workspace  *)
(* somebody else has worked in.                                            *)
NobodysLeftovers ==
  \A a \in Attempts, s \in Slots : Served(a, s) => volume[s].work \subseteq {a}

(* A verified artifact holds the work of its attempt and of nobody else.   *)
VerifiedIsOwnWork ==
  \A a \in Attempts : captured[a] # Null => captured[a] \subseteq {a}
===============================================================================
