----------------------------- MODULE ProblemStore -----------------------------
(***************************************************************************)
(* The versions of one problem: their rows in PostgreSQL, the scaffold     *)
(* archives in MinIO the rows point to, and the students' volumes that are *)
(* seeded from them.  Database and object store share no transaction, and  *)
(* the requests of several administrators run at the same time.            *)
(*                                                                         *)
(* A file an administrator sends is a number of its own; an archive, its   *)
(* sha256 and what a volume is seeded with are the file they come from.    *)
(***************************************************************************)
EXTENDS Naturals, FiniteSets

CONSTANTS
  Admins,     \* requests of administrators that can be under way at once
  Names,      \* file names of scaffolds, after normalisation
  Pods,       \* pods of the exam environment
  MaxFiles,   \* bound: files that are ever sent
  Rules       \* what the operators agree on: a subset of {"alone", "frozen"}

ASSUME BoundAssumption == MaxFiles \in Nat
ASSUME RulesAssumption == Rules \subseteq {"alone", "frozen"}

None == "none"

ASSUME AdminsAssumption == None \notin Admins

File == 1 .. MaxFiles
VersionNo == 1 .. MaxFiles

(* Object keys are <code>/v<version>/<name>; 0 stands for no file.         *)
Key == VersionNo \X Names
NoKey == <<0, 0>>

VARIABLES
  versions,   \* rows of exam.problem_versions, committed
  problem,    \* the row of exam.problems exists
  lock,       \* whose transaction holds the lock on the row of exam.problems
  store,      \* bucket exam-scaffold: what each key holds
  sent,       \* files sent so far; a row takes its id from the file it brings
  req,        \* the requests under way
  uses,       \* batches.problem_version_id of the batch, 0 before it is created
  prov,       \* the environment: down, provision has read the version, up
  config,     \* SCAFFOLD_REF: what provision read, and then the ConfigMap
  seeds       \* what the volume of each pod was seeded with

dbVars == <<versions, problem, lock>>
envVars == <<prov, config, seeds>>
vars == <<dbVars, store, sent, req, uses, envVars>>

(* A row: its ref is the key <<version, name>>, its sha256 a file.         *)
Row == [id : File, version : VersionNo, name : Names, sha : File]
Ref(v) == <<v.version, v.name>>

(* id, key and file a request works on, the ref an overwrite has read, the *)
(* rows a delete has locked, the keys a delete has listed.                 *)
Pc == {"idle", "uploadPut", "uploadInsert",
       "overPut", "overUpdate", "overRemove",
       "deleteRows", "deleteProblem", "sweepList", "sweepRemove"}
Req == [pc : Pc, id : File \cup {0}, key : Key \cup {NoKey}, file : File \cup {0},
        old : Key \cup {NoKey}, gone : SUBSET File, listed : SUBSET Key]
Idle == [pc |-> "idle", id |-> 0, key |-> NoKey, file |-> 0,
         old |-> NoKey, gone |-> {}, listed |-> {}]

Uploading == {"uploadPut", "uploadInsert"}

TypeOK ==
  /\ versions \subseteq Row
  /\ problem \in BOOLEAN
  /\ lock \in Admins \cup {None}
  /\ \A a \in Admins : req[a].pc \in Uploading <=> lock = a
  /\ store \in [Key -> File \cup {0}]
  /\ sent \in File \cup {0}
  /\ req \in [Admins -> Req]
  /\ uses \in File \cup {0}
  /\ prov \in {"down", "read", "up"}
  /\ config \in Key \cup {NoKey}
  /\ seeds \in [Pods -> File \cup {0}]

Init ==
  /\ versions = {}
  /\ problem = FALSE
  /\ lock = None
  /\ store = [k \in Key |-> 0]
  /\ sent = 0
  /\ req = [a \in Admins |-> Idle]
  /\ uses = 0
  /\ prov = "down"
  /\ config = NoKey
  /\ seeds = [p \in Pods |-> 0]

-------------------------------------------------------------------------------
(* The rules, which nothing in the code enforces.  "alone": an overwrite   *)
(* or a delete has the store to itself.  "frozen": the scaffold of a batch *)
(* is not overwritten while the environment is provisioned for it.         *)

AllIdle == \A a \in Admins : req[a].pc = "idle"
NoMaintenance == \A a \in Admins : req[a].pc \in Uploading \cup {"idle"}

MayUpload == "alone" \in Rules => NoMaintenance
MayMaintain == "alone" \in Rules => AllIdle
MayOverwrite(id) == "frozen" \in Rules => prov = "down" \/ uses # id

Goto(a, pc) == req' = [req EXCEPT ![a] = [@ EXCEPT !.pc = pc]]
Finish(a) == req' = [req EXCEPT ![a] = Idle]

(* The rows a delete that has not committed holds the locks of.            *)
Locked == UNION {req[a].gone : a \in Admins}

-------------------------------------------------------------------------------
(* uploadProblemVersion: one transaction from the upsert to the insert.    *)

(* Mutant: MAX(version) without the + 1.                                   *)
IsLastVersion(n) ==
  /\ \A v \in versions : v.version <= n
  /\ n = 1 \/ \E v \in versions : v.version = n

IsNextVersion(n) ==
  /\ \A v \in versions : v.version < n
  /\ n = 1 \/ \E v \in versions : v.version = n - 1

(* Mutant: ON CONFLICT DO NOTHING, which locks nothing when the row is     *)
(* there already.                                                          *)
UploadBeginUnlocked(a, name) ==
  /\ req[a].pc = "idle" /\ MayUpload
  /\ sent < MaxFiles
  /\ problem \/ lock = None
  /\ \E n \in VersionNo :
       /\ IsNextVersion(n)
       /\ req' = [req EXCEPT ![a] = [Idle EXCEPT
               !.pc = "uploadPut", !.key = <<n, name>>, !.file = sent + 1]]
  /\ lock' = IF problem THEN lock ELSE a
  /\ sent' = sent + 1
  /\ UNCHANGED <<versions, problem, store, uses, envVars>>

(* The upsert locks the row of the problem until the transaction ends.     *)
UploadBegin(a, name) ==
  /\ req[a].pc = "idle" /\ MayUpload
  /\ sent < MaxFiles
  /\ lock = None
  /\ \E n \in VersionNo :
       /\ IsNextVersion(n)
       /\ req' = [req EXCEPT ![a] = [Idle EXCEPT
               !.pc = "uploadPut", !.key = <<n, name>>, !.file = sent + 1]]
  /\ lock' = a
  /\ sent' = sent + 1
  /\ UNCHANGED <<versions, problem, store, uses, envVars>>

UploadPut(a) ==
  /\ req[a].pc = "uploadPut"
  /\ store' = [store EXCEPT ![req[a].key] = req[a].file]
  /\ Goto(a, "uploadInsert")
  /\ UNCHANGED <<dbVars, sent, uses, envVars>>

(* The insert would hit uq_problem_version and the transaction roll back.  *)
Collides(a) == \E v \in versions : v.version = req[a].key[1]

UploadInsert(a) ==
  /\ req[a].pc = "uploadInsert"
  /\ lock' = None
  /\ IF Collides(a)
     THEN UNCHANGED <<versions, problem>>
     ELSE /\ versions' = versions \cup
               {[id |-> req[a].file, version |-> req[a].key[1],
                 name |-> req[a].key[2], sha |-> req[a].file]}
          /\ problem' = TRUE
  /\ Finish(a)
  /\ UNCHANGED <<store, sent, uses, envVars>>

(* The put fails, or the process dies: the transaction is rolled back, the *)
(* object may have been stored all the same.                               *)
UploadFails(a) ==
  /\ req[a].pc \in Uploading
  /\ lock' = None
  /\ Finish(a)
  /\ UNCHANGED <<versions, problem, store, sent, uses, envVars>>

-------------------------------------------------------------------------------
(* overwriteScaffold: no transaction and no lock.                          *)

OverwriteRead(a, v, name) ==
  /\ req[a].pc = "idle" /\ MayMaintain /\ MayOverwrite(v.id)
  /\ sent < MaxFiles
  /\ req' = [req EXCEPT ![a] = [Idle EXCEPT !.pc = "overPut", !.id = v.id,
               !.key = <<v.version, name>>, !.file = sent + 1, !.old = Ref(v)]]
  /\ sent' = sent + 1
  /\ UNCHANGED <<dbVars, store, uses, envVars>>

(* Mutant: the old object is removed before the row points to the new one. *)
OverwritePutTidy(a) ==
  /\ req[a].pc = "overPut"
  /\ store' = [store EXCEPT ![req[a].old] = 0, ![req[a].key] = req[a].file]
  /\ Goto(a, "overUpdate")
  /\ UNCHANGED <<dbVars, sent, uses, envVars>>

OverwritePut(a) ==
  /\ req[a].pc = "overPut"
  /\ store' = [store EXCEPT ![req[a].key] = req[a].file]
  /\ Goto(a, "overUpdate")
  /\ UNCHANGED <<dbVars, sent, uses, envVars>>

(* updateVersionScaffold; a row that is gone is not noticed.               *)
Updated(a, v) ==
  IF v.id = req[a].id THEN [v EXCEPT !.name = req[a].key[2], !.sha = req[a].file]
                      ELSE v

OverwriteUpdate(a) ==
  /\ req[a].pc = "overUpdate"
  /\ req[a].id \notin Locked
  /\ versions' = {Updated(a, v) : v \in versions}
  /\ IF req[a].old = req[a].key THEN Finish(a) ELSE Goto(a, "overRemove")
  /\ UNCHANGED <<problem, lock, store, sent, uses, envVars>>

OverwriteRemove(a) ==
  /\ req[a].pc = "overRemove"
  /\ store' = [store EXCEPT ![req[a].old] = 0]
  /\ Finish(a)
  /\ UNCHANGED <<dbVars, sent, uses, envVars>>

-------------------------------------------------------------------------------
(* deleteProblem: a check, a transaction, and a sweep after its commit.    *)

DeleteCheck(a) ==
  /\ req[a].pc = "idle" /\ MayMaintain
  /\ problem
  /\ \A v \in versions : v.id # uses
  /\ Goto(a, "deleteRows")
  /\ UNCHANGED <<dbVars, store, sent, uses, envVars>>

(* Mutant: ON DELETE without RESTRICT; the check of deleteProblem alone.   *)
DeleteRowsUnchecked(a) ==
  /\ req[a].pc = "deleteRows"
  /\ \A v \in versions : v.id \notin Locked
  /\ req' = [req EXCEPT ![a] = [Idle EXCEPT
             !.pc = "deleteProblem", !.gone = {v.id : v \in versions}]]
  /\ UNCHANGED <<dbVars, store, sent, uses, envVars>>

(* DELETE FROM problem_versions; RESTRICT fails it for a version in use.   *)
DeleteRows(a) ==
  /\ req[a].pc = "deleteRows"
  /\ \A v \in versions : v.id \notin Locked
  /\ IF \E v \in versions : v.id = uses
     THEN Finish(a)
     ELSE req' = [req EXCEPT ![a] = [Idle EXCEPT
               !.pc = "deleteProblem", !.gone = {v.id : v \in versions}]]
  /\ UNCHANGED <<dbVars, store, sent, uses, envVars>>

(* DELETE FROM problems waits for the lock of an upload, and is refused    *)
(* when that upload has added a version.                                   *)
DeleteProblem(a) ==
  /\ req[a].pc = "deleteProblem"
  /\ lock = None
  /\ IF \E v \in versions : v.id \notin req[a].gone
     THEN Finish(a) /\ UNCHANGED <<versions, problem>>
     ELSE /\ versions' = {}
          /\ problem' = FALSE
          /\ req' = [req EXCEPT ![a] = [Idle EXCEPT !.pc = "sweepList"]]
  /\ UNCHANGED <<lock, store, sent, uses, envVars>>

SweepList(a) ==
  /\ req[a].pc = "sweepList"
  /\ req' = [req EXCEPT ![a] = [Idle EXCEPT
               !.pc = "sweepRemove", !.listed = {k \in Key : store[k] # 0}]]
  /\ UNCHANGED <<dbVars, store, sent, uses, envVars>>

SweepRemove(a) ==
  /\ req[a].pc = "sweepRemove"
  /\ store' = [k \in Key |-> IF k \in req[a].listed THEN 0 ELSE store[k]]
  /\ Finish(a)
  /\ UNCHANGED <<dbVars, sent, uses, envVars>>

(* An overwrite or a delete ends early; its transaction is rolled back.    *)
MaintenanceFails(a) ==
  /\ req[a].pc \notin Uploading \cup {"idle"}
  /\ Finish(a)
  /\ UNCHANGED <<dbVars, store, sent, uses, envVars>>

-------------------------------------------------------------------------------
(* The batch and its environment; PoolOps has the steps of a provision.    *)

(* The foreign key waits for a delete that has locked the version.         *)
CreateBatch(v) ==
  /\ uses = 0
  /\ v.id \notin Locked
  /\ uses' = v.id
  /\ UNCHANGED <<dbVars, store, sent, req, envVars>>

ProvisionRead(v) ==
  /\ prov # "read" /\ MayUpload
  /\ v.id = uses
  /\ prov' = "read"
  /\ config' = Ref(v)
  /\ UNCHANGED <<dbVars, store, sent, req, uses, seeds>>

(* Mutant: the volumes of the previous session are kept.                   *)
ProvisionKeepsVolumes ==
  /\ prov = "read"
  /\ prov' = "up"
  /\ UNCHANGED <<dbVars, store, sent, req, uses, config, seeds>>

ProvisionApply ==
  /\ prov = "read"
  /\ prov' = "up"
  /\ seeds' = [p \in Pods |-> 0]
  /\ UNCHANGED <<dbVars, store, sent, req, uses, config>>

ProvisionFails ==
  /\ prov = "read"
  /\ prov' = "down"
  /\ UNCHANGED <<dbVars, store, sent, req, uses, config, seeds>>

(* fetch-scaffold, then extract-scaffold.  Without the object the pod does *)
(* not start; a volume that is not empty is left as it is.                 *)
PodStart(p) ==
  /\ prov = "up"
  /\ store[config] # 0
  /\ seeds[p] = 0
  /\ seeds' = [seeds EXCEPT ![p] = store[config]]
  /\ UNCHANGED <<dbVars, store, sent, req, uses, prov, config>>

Close ==
  /\ prov = "up"
  /\ prov' = "down"
  /\ UNCHANGED <<dbVars, store, sent, req, uses, config, seeds>>

Next ==
  \/ \E a \in Admins :
       \/ \E name \in Names : UploadBegin(a, name)
       \/ UploadPut(a) \/ UploadInsert(a) \/ UploadFails(a)
       \/ \E v \in versions, name \in Names : OverwriteRead(a, v, name)
       \/ OverwritePut(a) \/ OverwriteUpdate(a) \/ OverwriteRemove(a)
       \/ DeleteCheck(a) \/ DeleteRows(a) \/ DeleteProblem(a)
       \/ SweepList(a) \/ SweepRemove(a)
       \/ MaintenanceFails(a)
  \/ \E v \in versions : CreateBatch(v) \/ ProvisionRead(v)
  \/ ProvisionApply \/ ProvisionFails \/ Close
  \/ \E p \in Pods : PodStart(p)

Spec == Init /\ [][Next]_vars

-------------------------------------------------------------------------------
(* Two uploads at once never take the same version number, so no upload    *)
(* runs into uq_problem_version after it has written its objects.          *)
UploadsNeverCollide == \A a \in Admins : req[a].pc \in Uploading => ~ Collides(a)

(* The problem of a batch is never deleted under it, although deleteProblem *)
(* looks for batches long before it deletes.                               *)
UsedVersionsExist == uses # 0 => \E v \in versions : v.id = uses

(* The ref of a version leads to an object, and so does the SCAFFOLD_REF   *)
(* from which the pods of a live environment start and restart.            *)
RefIsStored ==
  /\ \A v \in versions : store[Ref(v)] # 0
  /\ prov = "up" => store[config] # 0

(* Everybody in one session starts from the same files.                    *)
SessionSeedsAlike ==
  prov = "up" => \A p, q \in Pods : seeds[p] # 0 /\ seeds[q] # 0 => seeds[p] = seeds[q]

(* What the ref of a version holds changes only by an overwrite of that    *)
(* very version: not by an upload, and not by the sweep of a deletion.     *)
OnlyOverwriteChanges ==
  [][\A v \in versions :
       store'[Ref(v)] # store[Ref(v)] => \E a \in Admins : req[a].id = v.id]_vars
===============================================================================
