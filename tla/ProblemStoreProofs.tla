-------------------------- MODULE ProblemStoreProofs --------------------------
(***************************************************************************)
(* Theorems about ProblemStore for any number of administrators, names,    *)
(* pods and files, and whatever rules the operators keep or do not keep;   *)
(* and about Archive, which says what is in such a file.                   *)
(***************************************************************************)
EXTENDS ProblemStore, Archive, SequenceTheorems, TLAPS

Overwriting == {"overPut", "overUpdate", "overRemove"}

(* A request that writes has its key and its file; a delete has not locked *)
(* the version a batch uses.                                               *)
WritersHaveKeys ==
  \A a \in Admins : req[a].pc \in Uploading \cup Overwriting =>
    req[a].key \in Key /\ req[a].file \in File

UsedIsNotLocked == \A a \in Admins : uses \notin req[a].gone

ConfigIsKey == prov # "down" => config \in Key

StoreInv == /\ TypeOK
            /\ ConfigIsKey
            /\ WritersHaveKeys
            /\ UploadsNeverCollide
            /\ UsedVersionsExist
            /\ UsedIsNotLocked

LEMMA InitInv == Init => StoreInv
<1> SUFFICES ASSUME Init PROVE StoreInv
  OBVIOUS
<1> USE BoundAssumption, AdminsAssumption
<1>1. TypeOK
  BY DEF Init, TypeOK, Idle, Req, Pc, Key, Uploading, None
<1>2. WritersHaveKeys /\ UploadsNeverCollide
  BY DEF Init, Idle, WritersHaveKeys, UploadsNeverCollide, Uploading, Overwriting
<1>3. UsedVersionsExist /\ UsedIsNotLocked /\ ConfigIsKey
  BY DEF Init, Idle, UsedVersionsExist, UsedIsNotLocked, ConfigIsKey
<1> QED BY <1>1, <1>2, <1>3 DEF StoreInv

(* A step of one administrator leaves the requests of the others alone.    *)
LEMMA OneRequest ==
  ASSUME TypeOK, NEW a \in Admins, NEW r \in Req, req' = [req EXCEPT ![a] = r]
  PROVE  /\ req' \in [Admins -> Req]
         /\ req'[a] = r
         /\ \A b \in Admins \ {a} : req'[b] = req[b]
BY DEF TypeOK

(* What such a step has to keep: the lock goes with the upload, writers    *)
(* have keys, the upload under way is ahead of every row, and the version  *)
(* in use stays and is not locked.                                         *)
LEMMA AdminStep ==
  ASSUME StoreInv, NEW a \in Admins, NEW r \in Req, req' = [req EXCEPT ![a] = r],
         UNCHANGED <<uses, envVars>>,
         versions' \subseteq Row, problem' \in BOOLEAN,
         store' \in [Key -> File \cup {0}], sent' \in File \cup {0},
         \/ r.pc \in Uploading /\ lock' = a /\ lock \in {a, None}
         \/ r.pc \notin Uploading /\ lock = a /\ lock' = None
         \/ r.pc \notin Uploading /\ lock # a /\ lock' = lock,
         r.pc \in Uploading \cup Overwriting => r.key \in Key /\ r.file \in File,
         r.pc \in Uploading => \A v \in versions' : v.version # r.key[1],
         lock \notin {a, None} => \A w \in versions' : \E v \in versions : v.version = w.version,
         UsedVersionsExist', uses \notin r.gone
  PROVE  StoreInv'
<1> USE AdminsAssumption
<1>1. /\ req' \in [Admins -> Req]
      /\ req'[a] = r
      /\ \A b \in Admins \ {a} : req'[b] = req[b]
  BY OneRequest DEF StoreInv
<1>2. \A b \in Admins : req[b].pc \in Uploading <=> lock = b
  BY DEF StoreInv, TypeOK
<1>3. \A b \in Admins : req'[b].pc \in Uploading <=> lock' = b
  BY <1>1, <1>2
<1>4. TypeOK'
  <2>1. lock' \in Admins \cup {None}
    BY DEF StoreInv, TypeOK
  <2> QED BY <1>1, <1>3, <2>1 DEF StoreInv, TypeOK, envVars
<1>5. WritersHaveKeys'
  BY <1>1 DEF StoreInv, WritersHaveKeys
<1>6. UploadsNeverCollide'
  <2> SUFFICES ASSUME NEW b \in Admins, req'[b].pc \in Uploading
               PROVE  ~ Collides(b)'
    BY DEF UploadsNeverCollide
  <2>1. CASE b = a
    BY <2>1, <1>1 DEF Collides
  <2>2. CASE b # a
    <3>1. req'[b] = req[b] /\ lock = b
      BY <2>2, <1>1, <1>2
    <3>2. \A w \in versions' : \E v \in versions : v.version = w.version
      BY <3>1, <2>2
    <3> QED BY <3>1, <3>2 DEF StoreInv, UploadsNeverCollide, Collides
  <2> QED BY <2>1, <2>2
<1>7. UsedIsNotLocked'
  BY <1>1 DEF StoreInv, UsedIsNotLocked
<1>8. ConfigIsKey'
  BY DEF StoreInv, ConfigIsKey, envVars
<1> QED BY <1>4, <1>5, <1>6, <1>7, <1>8 DEF StoreInv

(* A request that ends, and one that goes to a step of its own operation.  *)
LEMMA IdleIsRequest == /\ Idle \in Req
                       /\ Idle.pc = "idle"
                       /\ Idle.gone = {}
BY BoundAssumption DEF Idle, Req, Pc

LEMMA GotoStep ==
  ASSUME StoreInv, NEW a \in Admins, NEW pc \in Pc
  PROVE  /\ req[a] \in Req
         /\ [req[a] EXCEPT !.pc = pc] \in Req
         /\ [req[a] EXCEPT !.pc = pc].pc = pc
         /\ [req[a] EXCEPT !.pc = pc].key = req[a].key
         /\ [req[a] EXCEPT !.pc = pc].file = req[a].file
         /\ [req[a] EXCEPT !.pc = pc].gone = req[a].gone
         /\ Goto(a, pc) => req' = [req EXCEPT ![a] = [req[a] EXCEPT !.pc = pc]]
<1>1. req[a] \in Req
  BY DEF StoreInv, TypeOK
<1>2. Goto(a, pc) => req' = [req EXCEPT ![a] = [req[a] EXCEPT !.pc = pc]]
  BY DEF Goto
<1> QED BY <1>1, <1>2 DEF Req

(* The four steps of an upload.                                            *)
LEMMA UploadSteps ==
  ASSUME StoreInv, NEW a \in Admins,
         \/ \E name \in Names : UploadBegin(a, name)
         \/ UploadPut(a) \/ UploadInsert(a) \/ UploadFails(a)
  PROVE  StoreInv'
<1> USE BoundAssumption, AdminsAssumption
<1>1. ASSUME NEW name \in Names, UploadBegin(a, name) PROVE StoreInv'
  <2>1. PICK n \in VersionNo :
          /\ IsNextVersion(n)
          /\ req' = [req EXCEPT ![a] = [Idle EXCEPT
               !.pc = "uploadPut", !.key = <<n, name>>, !.file = sent + 1]]
    BY <1>1 DEF UploadBegin
  <2> DEFINE r == [Idle EXCEPT !.pc = "uploadPut", !.key = <<n, name>>, !.file = sent + 1]
  <2>2. sent + 1 \in File
    <3>1. sent \in File \cup {0} /\ sent < MaxFiles
      BY <1>1 DEF UploadBegin, StoreInv, TypeOK
    <3> QED BY <3>1 DEF File
  <2>3. <<n, name>> \in Key
    BY DEF Key
  <2>4. r \in Req /\ r.pc = "uploadPut" /\ r.key = <<n, name>> /\ r.file = sent + 1 /\ r.gone = {}
    BY <2>2, <2>3 DEF Idle, Req, Pc
  <2>5. \A v \in versions : v.version # n
    BY <2>1 DEF IsNextVersion, StoreInv, TypeOK, Row, VersionNo
  <2>6. /\ versions' \subseteq Row /\ problem' \in BOOLEAN
        /\ store' \in [Key -> File \cup {0}] /\ sent' \in File \cup {0}
        /\ UNCHANGED <<versions, uses, envVars>>
        /\ lock = None /\ lock' = a
    BY <1>1, <2>2 DEF UploadBegin, StoreInv, TypeOK
  <2>7. UsedVersionsExist' /\ uses \notin r.gone
    BY <2>4, <2>6 DEF StoreInv, UsedVersionsExist
  <2>8. \A v \in versions' : v.version # r.key[1]
    BY <2>4, <2>5, <2>6
  <2>9. req' = [req EXCEPT ![a] = r]
    BY <2>1
  <2> HIDE DEF r
  <2> QED BY <2>2, <2>3, <2>4, <2>6, <2>7, <2>8, <2>9, AdminStep DEF Uploading
<1>2. CASE UploadPut(a)
  <2> DEFINE r == [req[a] EXCEPT !.pc = "uploadInsert"]
  <2>1. /\ r \in Req /\ r.pc = "uploadInsert" /\ r.key = req[a].key
        /\ r.file = req[a].file /\ r.gone = req[a].gone
        /\ req' = [req EXCEPT ![a] = r]
    BY <1>2, GotoStep DEF UploadPut, Pc
  <2>2. req[a].key \in Key /\ req[a].file \in File /\ lock = a
    BY <1>2 DEF UploadPut, StoreInv, WritersHaveKeys, TypeOK, Uploading
  <2>3. /\ versions' \subseteq Row /\ problem' \in BOOLEAN
        /\ store' \in [Key -> File \cup {0}] /\ sent' \in File \cup {0}
        /\ UNCHANGED <<versions, uses, envVars, lock>>
    BY <1>2, <2>2 DEF UploadPut, StoreInv, TypeOK, dbVars
  <2>4. /\ UsedVersionsExist' /\ uses \notin r.gone
        /\ \A v \in versions' : v.version # r.key[1]
    BY <1>2, <2>1, <2>3 DEF StoreInv, UsedVersionsExist, UsedIsNotLocked, UploadsNeverCollide,
                            Collides, UploadPut, Uploading
  <2> HIDE DEF r
  <2> QED BY <2>1, <2>2, <2>3, <2>4, AdminStep DEF Uploading
<1>3. CASE UploadInsert(a)
  <2> DEFINE row == [id |-> req[a].file, version |-> req[a].key[1],
                     name |-> req[a].key[2], sha |-> req[a].file]
  <2>1. /\ lock = a /\ lock' = None /\ ~ Collides(a)
        /\ req[a].key \in Key /\ req[a].file \in File
    BY <1>3 DEF UploadInsert, StoreInv, TypeOK, UploadsNeverCollide, WritersHaveKeys, Uploading
  <2>2. row \in Row
    BY <2>1 DEF Key, Row
  <2>3. /\ versions' = versions \cup {row} /\ problem' \in BOOLEAN
        /\ store' \in [Key -> File \cup {0}] /\ sent' \in File \cup {0}
        /\ UNCHANGED <<uses, envVars>>
        /\ req' = [req EXCEPT ![a] = Idle]
    BY <1>3, <2>1 DEF UploadInsert, Finish, StoreInv, TypeOK
  <2>4. UsedVersionsExist' /\ versions' \subseteq Row
    BY <2>2, <2>3 DEF StoreInv, TypeOK, UsedVersionsExist
  <2> HIDE DEF row
  <2> QED BY <2>1, <2>3, <2>4, IdleIsRequest, AdminStep DEF Uploading, Overwriting
<1>4. CASE UploadFails(a)
  <2>1. /\ lock = a /\ lock' = None
        /\ versions' \subseteq Row /\ problem' \in BOOLEAN
        /\ store' \in [Key -> File \cup {0}] /\ sent' \in File \cup {0}
        /\ UNCHANGED <<versions, uses, envVars>>
        /\ req' = [req EXCEPT ![a] = Idle]
    BY <1>4 DEF UploadFails, Finish, StoreInv, TypeOK
  <2>2. UsedVersionsExist'
    BY <2>1 DEF StoreInv, UsedVersionsExist
  <2> QED BY <2>1, <2>2, IdleIsRequest, AdminStep DEF Uploading, Overwriting
<1> QED BY <1>1, <1>2, <1>3, <1>4

(* The steps of an overwrite and of a delete.  None of them touches the    *)
(* lock, and the versions that remain are versions there were.             *)
LEMMA MaintenanceSteps ==
  ASSUME StoreInv, NEW a \in Admins,
         \/ \E v \in versions, name \in Names : OverwriteRead(a, v, name)
         \/ OverwritePut(a) \/ OverwriteUpdate(a) \/ OverwriteRemove(a)
         \/ DeleteCheck(a) \/ DeleteRows(a) \/ DeleteProblem(a)
         \/ SweepList(a) \/ SweepRemove(a) \/ MaintenanceFails(a)
  PROVE  StoreInv'
<1> USE BoundAssumption, AdminsAssumption
<1>a. req[a].pc \notin Uploading => lock # a
  BY DEF StoreInv, TypeOK
<1>t. /\ versions \subseteq Row /\ problem \in BOOLEAN
      /\ store \in [Key -> File \cup {0}] /\ sent \in File \cup {0}
      /\ req[a] \in Req
      /\ UsedVersionsExist /\ uses \notin req[a].gone
  BY DEF StoreInv, TypeOK, UsedIsNotLocked
<1>1. ASSUME NEW v \in versions, NEW name \in Names, OverwriteRead(a, v, name)
      PROVE  StoreInv'
  <2> DEFINE r == [Idle EXCEPT !.pc = "overPut", !.id = v.id,
                     !.key = <<v.version, name>>, !.file = sent + 1, !.old = Ref(v)]
  <2>1. sent + 1 \in File
    <3>1. sent < MaxFiles
      BY <1>1 DEF OverwriteRead
    <3> QED BY <1>t, <3>1 DEF File
  <2>2. v.id \in File /\ <<v.version, name>> \in Key /\ Ref(v) \in Key
    BY <1>t DEF Row, Key, Ref
  <2>3. r \in Req /\ r.pc = "overPut" /\ r.key = <<v.version, name>>
        /\ r.file = sent + 1 /\ r.gone = {}
    BY <2>1, <2>2 DEF Idle, Req, Pc
  <2>4. /\ req' = [req EXCEPT ![a] = r] /\ sent' = sent + 1
        /\ UNCHANGED <<versions, problem, lock, store, uses, envVars>>
        /\ req[a].pc = "idle"
    BY <1>1 DEF OverwriteRead, dbVars
  <2>5. UsedVersionsExist'
    BY <1>t, <2>4 DEF UsedVersionsExist
  <2> HIDE DEF r
  <2> QED BY <1>a, <1>t, <2>1, <2>2, <2>3, <2>4, <2>5, AdminStep DEF Uploading
<1>2. CASE OverwritePut(a)
  <2> DEFINE r == [req[a] EXCEPT !.pc = "overUpdate"]
  <2>1. /\ r \in Req /\ r.pc = "overUpdate" /\ r.key = req[a].key
        /\ r.file = req[a].file /\ r.gone = req[a].gone
        /\ req' = [req EXCEPT ![a] = r]
    BY <1>2, GotoStep DEF OverwritePut, Pc
  <2>2. req[a].key \in Key /\ req[a].file \in File
    BY <1>2 DEF OverwritePut, StoreInv, WritersHaveKeys, Overwriting
  <2>3. /\ store' \in [Key -> File \cup {0}]
        /\ UNCHANGED <<versions, problem, lock, sent, uses, envVars>>
        /\ req[a].pc = "overPut"
    BY <1>2, <1>t, <2>2 DEF OverwritePut, dbVars
  <2>4. UsedVersionsExist'
    BY <1>t, <2>3 DEF UsedVersionsExist
  <2> HIDE DEF r
  <2> QED BY <1>a, <1>t, <2>1, <2>2, <2>3, <2>4, AdminStep DEF Uploading
<1>3. CASE OverwriteUpdate(a)
  <2> DEFINE r == IF req[a].old = req[a].key THEN Idle
                                             ELSE [req[a] EXCEPT !.pc = "overRemove"]
  <2>1. /\ r \in Req /\ r.pc \in {"idle", "overRemove"} /\ uses \notin r.gone
        /\ r.pc = "overRemove" => r.key = req[a].key /\ r.file = req[a].file
        /\ req' = [req EXCEPT ![a] = r]
    BY <1>3, <1>t, GotoStep, IdleIsRequest DEF OverwriteUpdate, Finish, Pc
  <2>2. req[a].key \in Key /\ req[a].file \in File
    BY <1>3 DEF OverwriteUpdate, StoreInv, WritersHaveKeys, Overwriting
  <2>3. /\ versions' = {Updated(a, v) : v \in versions}
        /\ UNCHANGED <<problem, lock, store, sent, uses, envVars>>
        /\ req[a].pc = "overUpdate"
    BY <1>3 DEF OverwriteUpdate
  <2>4. \A v \in versions : /\ Updated(a, v) \in Row
                            /\ Updated(a, v).id = v.id
                            /\ Updated(a, v).version = v.version
    BY <1>t, <2>2 DEF Updated, Row, Key
  <2>5. UsedVersionsExist' /\ versions' \subseteq Row
    BY <1>t, <2>3, <2>4 DEF UsedVersionsExist
  <2>6. \A w \in versions' : \E v \in versions : v.version = w.version
    BY <2>3, <2>4
  <2> HIDE DEF r
  <2> QED BY <1>a, <1>t, <2>1, <2>2, <2>3, <2>5, <2>6, AdminStep DEF Uploading, Overwriting
<1>4. CASE OverwriteRemove(a)
  <2>1. /\ store' \in [Key -> File \cup {0}]
        /\ UNCHANGED <<versions, problem, lock, sent, uses, envVars>>
        /\ req[a].pc = "overRemove" /\ req' = [req EXCEPT ![a] = Idle]
    BY <1>4, <1>t DEF OverwriteRemove, Finish, dbVars
  <2>2. UsedVersionsExist'
    BY <1>t, <2>1 DEF UsedVersionsExist
  <2> QED BY <1>a, <1>t, <2>1, <2>2, IdleIsRequest, AdminStep DEF Uploading, Overwriting
<1>5. CASE DeleteCheck(a)
  <2> DEFINE r == [req[a] EXCEPT !.pc = "deleteRows"]
  <2>1. r \in Req /\ r.pc = "deleteRows" /\ r.gone = req[a].gone
        /\ req' = [req EXCEPT ![a] = r]
    BY <1>5, GotoStep DEF DeleteCheck, Pc
  <2>2. /\ UNCHANGED <<versions, problem, lock, store, sent, uses, envVars>>
        /\ req[a].pc = "idle"
    BY <1>5 DEF DeleteCheck, dbVars
  <2>3. UsedVersionsExist'
    BY <1>t, <2>2 DEF UsedVersionsExist
  <2> HIDE DEF r
  <2> QED BY <1>a, <1>t, <2>1, <2>2, <2>3, AdminStep DEF Uploading, Overwriting
<1>6. CASE DeleteRows(a)
  <2> DEFINE ids == {v.id : v \in versions}
             d == [Idle EXCEPT !.pc = "deleteProblem", !.gone = ids]
             r == IF uses \in ids THEN Idle ELSE d
  <2>1. ids \subseteq File
    BY <1>t DEF Row
  <2>2. d \in Req /\ d.pc = "deleteProblem" /\ d.gone = ids
    BY <2>1 DEF Idle, Req, Pc
  <2>3. /\ r \in Req /\ r.pc \in {"idle", "deleteProblem"} /\ uses \notin r.gone
        /\ req' = [req EXCEPT ![a] = r]
    BY <1>6, <2>2, IdleIsRequest DEF DeleteRows, Finish
  <2>4. /\ UNCHANGED <<versions, problem, lock, store, sent, uses, envVars>>
        /\ req[a].pc = "deleteRows"
    BY <1>6 DEF DeleteRows, dbVars
  <2>5. UsedVersionsExist'
    BY <1>t, <2>4 DEF UsedVersionsExist
  <2> HIDE DEF r
  <2> QED BY <1>a, <1>t, <2>3, <2>4, <2>5, AdminStep DEF Uploading, Overwriting
<1>7. CASE DeleteProblem(a)
  <2> DEFINE d == [Idle EXCEPT !.pc = "sweepList"]
             refused == \E v \in versions : v.id \notin req[a].gone
             r == IF refused THEN Idle ELSE d
  <2>1. d \in Req /\ d.pc = "sweepList" /\ d.gone = {}
    BY IdleIsRequest DEF Idle, Req, Pc
  <2>2. /\ r \in Req /\ r.pc \in {"idle", "sweepList"} /\ r.gone = {}
        /\ req' = [req EXCEPT ![a] = r]
    BY <1>7, <2>1, IdleIsRequest DEF DeleteProblem, Finish
  <2>3. /\ versions' = IF refused THEN versions ELSE {}
        /\ problem' \in BOOLEAN
        /\ UNCHANGED <<lock, store, sent, uses, envVars>>
        /\ req[a].pc = "deleteProblem"
    BY <1>7, <1>t DEF DeleteProblem
  <2>4. UsedVersionsExist'
    BY <1>t, <2>3 DEF UsedVersionsExist
  <2> HIDE DEF r
  <2> QED BY <1>a, <1>t, <2>2, <2>3, <2>4, AdminStep DEF Uploading, Overwriting
<1>8. CASE SweepList(a)
  <2> DEFINE r == [Idle EXCEPT !.pc = "sweepRemove", !.listed = {k \in Key : store[k] # 0}]
  <2>1. r \in Req /\ r.pc = "sweepRemove" /\ r.gone = {} /\ req' = [req EXCEPT ![a] = r]
    BY <1>8 DEF SweepList, Idle, Req, Pc
  <2>2. /\ UNCHANGED <<versions, problem, lock, store, sent, uses, envVars>>
        /\ req[a].pc = "sweepList"
    BY <1>8 DEF SweepList, dbVars
  <2>3. UsedVersionsExist'
    BY <1>t, <2>2 DEF UsedVersionsExist
  <2> HIDE DEF r
  <2> QED BY <1>a, <1>t, <2>1, <2>2, <2>3, AdminStep DEF Uploading, Overwriting
<1>9. CASE SweepRemove(a)
  <2>1. /\ store' \in [Key -> File \cup {0}]
        /\ UNCHANGED <<versions, problem, lock, sent, uses, envVars>>
        /\ req[a].pc = "sweepRemove" /\ req' = [req EXCEPT ![a] = Idle]
    BY <1>9, <1>t DEF SweepRemove, Finish, dbVars
  <2>2. UsedVersionsExist'
    BY <1>t, <2>1 DEF UsedVersionsExist
  <2> QED BY <1>a, <1>t, <2>1, <2>2, IdleIsRequest, AdminStep DEF Uploading, Overwriting
<1>10. CASE MaintenanceFails(a)
  <2>1. /\ UNCHANGED <<versions, problem, lock, store, sent, uses, envVars>>
        /\ req[a].pc \notin Uploading /\ req' = [req EXCEPT ![a] = Idle]
    BY <1>10 DEF MaintenanceFails, Finish, dbVars
  <2>2. UsedVersionsExist'
    BY <1>t, <2>1 DEF UsedVersionsExist
  <2> QED BY <1>a, <1>t, <2>1, <2>2, IdleIsRequest, AdminStep DEF Uploading, Overwriting
<1> QED BY <1>1, <1>2, <1>3, <1>4, <1>5, <1>6, <1>7, <1>8, <1>9, <1>10

(* The batch and the environment leave rows, objects and requests alone.   *)
LEMMA EnvironmentSteps ==
  ASSUME StoreInv,
         \/ \E v \in versions : CreateBatch(v) \/ ProvisionRead(v)
         \/ ProvisionApply \/ ProvisionFails \/ Close
         \/ \E p \in Pods : PodStart(p)
  PROVE  StoreInv'
<1>1. UNCHANGED <<dbVars, store, sent, req>>
  BY DEF CreateBatch, ProvisionRead, ProvisionApply, ProvisionFails, Close, PodStart
<1>2. WritersHaveKeys' /\ UploadsNeverCollide'
  BY <1>1 DEF StoreInv, WritersHaveKeys, UploadsNeverCollide, Collides, dbVars
<1>3. ASSUME NEW v \in versions, CreateBatch(v) PROVE StoreInv'
  <2>1. uses' \in File /\ UNCHANGED envVars
    BY <1>3 DEF CreateBatch, StoreInv, TypeOK, Row
  <2>2. TypeOK'
    BY <1>1, <2>1 DEF StoreInv, TypeOK, dbVars, envVars
  <2>3. UsedVersionsExist' /\ UsedIsNotLocked'
    BY <1>1, <1>3 DEF CreateBatch, UsedVersionsExist, UsedIsNotLocked, Locked, dbVars
  <2>4. ConfigIsKey'
    BY <2>1 DEF StoreInv, ConfigIsKey, envVars
  <2> QED BY <1>2, <2>2, <2>3, <2>4 DEF StoreInv
<1>4. ASSUME UNCHANGED uses, prov' \in {"down", "read", "up"}, ConfigIsKey',
             config' \in Key \cup {NoKey}, seeds' \in [Pods -> File \cup {0}]
      PROVE  StoreInv'
  <2>1. TypeOK'
    BY <1>1, <1>4 DEF StoreInv, TypeOK, dbVars
  <2>2. UsedVersionsExist' /\ UsedIsNotLocked'
    BY <1>1, <1>4 DEF StoreInv, UsedVersionsExist, UsedIsNotLocked, dbVars
  <2> QED BY <1>2, <1>4, <2>1, <2>2 DEF StoreInv
<1>5. ASSUME NEW v \in versions, ProvisionRead(v) PROVE StoreInv'
  <2>1. config' \in Key
    BY <1>5 DEF ProvisionRead, StoreInv, TypeOK, Row, Ref, Key
  <2> QED BY <1>4, <1>5, <2>1 DEF ProvisionRead, StoreInv, TypeOK, ConfigIsKey
<1>6. CASE ProvisionApply \/ ProvisionFails \/ Close
  BY <1>4, <1>6 DEF ProvisionApply, ProvisionFails, Close, StoreInv, TypeOK, ConfigIsKey
<1>7. ASSUME NEW p \in Pods, PodStart(p) PROVE StoreInv'
  <2>1. store[config] \in File \cup {0}
    BY <1>7 DEF PodStart, StoreInv, TypeOK, ConfigIsKey
  <2> QED BY <1>4, <1>7, <2>1 DEF PodStart, StoreInv, TypeOK, ConfigIsKey
<1> QED BY <1>3, <1>5, <1>6, <1>7

(* StoreInv holds in every state, whatever the operators agree on.         *)
THEOREM Invariance == Spec => []StoreInv
<1>1. Init => StoreInv
  BY InitInv
<1>2. StoreInv /\ [Next]_vars => StoreInv'
  <2> SUFFICES ASSUME StoreInv, [Next]_vars PROVE StoreInv'
    OBVIOUS
  <2>1. CASE UNCHANGED vars
    BY <2>1 DEF StoreInv, TypeOK, ConfigIsKey, WritersHaveKeys, UploadsNeverCollide, Collides,
                UsedVersionsExist, UsedIsNotLocked, vars, dbVars, envVars
  <2>2. CASE Next
    BY <2>2, UploadSteps, MaintenanceSteps, EnvironmentSteps DEF Next
  <2> QED BY <2>1, <2>2
<1> QED BY <1>1, <1>2, PTL DEF Spec

(* The variables keep their types, and the lock on the problem is held     *)
(* exactly as long as an upload of it is under way.                        *)
THEOREM TypeSafety == Spec => []TypeOK
BY Invariance, PTL DEF StoreInv

(* No upload runs into uq_problem_version, whatever the operators do.      *)
THEOREM NoCollision == Spec => []UploadsNeverCollide
BY Invariance, PTL DEF StoreInv

(* The version of a batch is never deleted, whatever the operators do.     *)
THEOREM UsedVersions == Spec => []UsedVersionsExist
BY Invariance, PTL DEF StoreInv
-------------------------------------------------------------------------------
(* What the operators' two rules are worth: while nobody maintains the     *)
(* store next to another request, and nobody overwrites the scaffold of a  *)
(* provisioned batch, every ref leads to an object, a session is seeded    *)
(* alike, and uploads and sweeps leave the scaffolds of others alone.      *)

Sweeping == {"sweepList", "sweepRemove"}
Maintaining == Overwriting \cup Sweeping \cup {"deleteRows", "deleteProblem"}

(* "alone" as an invariant.                                                *)
MaintainsAlone ==
  \A a, b \in Admins : a # b /\ req[a].pc \in Maintaining => req[b].pc = "idle"

FilesAreFresh ==
  /\ \A v \in versions : v.id <= sent
  /\ \A a \in Admins : req[a].pc \in Uploading =>
       req[a].file <= sent /\ \A v \in versions : v.id # req[a].file

RowsAreDistinct == \A v, w \in versions : v.id = w.id \/ v.version = w.version => v = w

PutBeforeInsert == \A a \in Admins : req[a].pc = "uploadInsert" => store[req[a].key] # 0

(* An overwrite works on the key of its row, and the object it removes is  *)
(* nobody's any more.                                                      *)
OverwriteFits ==
  \A a \in Admins :
    /\ req[a].pc \in {"overPut", "overUpdate"} =>
         /\ req[a].old[1] = req[a].key[1]
         /\ \A v \in versions : IF v.id = req[a].id THEN Ref(v) = req[a].old
                                                    ELSE v.version # req[a].key[1]
    /\ req[a].pc = "overUpdate" => store[req[a].key] # 0
    /\ req[a].pc = "overRemove" => \A v \in versions : Ref(v) # req[a].old

SweptIsDeleted == \A a \in Admins : req[a].pc \in Sweeping => versions = {}

ConfigIsUsed == prov # "down" => \E v \in versions : v.id = uses /\ Ref(v) = config

(* "frozen" as an invariant.                                               *)
FrozenWhileUp == \A a \in Admins : req[a].pc \in Overwriting => prov = "down" \/ req[a].id # uses

RowsAreStored == \A v \in versions : store[Ref(v)] # 0

SeedsFit == prov = "up" => \A p \in Pods : seeds[p] \in {0, store[config]}

ScaffoldInv == /\ MaintainsAlone /\ FilesAreFresh /\ RowsAreDistinct
               /\ PutBeforeInsert /\ OverwriteFits /\ SweptIsDeleted
               /\ ConfigIsUsed /\ FrozenWhileUp /\ RowsAreStored /\ SeedsFit

Disciplined == {"alone", "frozen"} \subseteq Rules

LEMMA InitScaffolds == Init => ScaffoldInv
BY DEF Init, Idle, ScaffoldInv, MaintainsAlone, FilesAreFresh, RowsAreDistinct, PutBeforeInsert,
       OverwriteFits, SweptIsDeleted, ConfigIsUsed, FrozenWhileUp, RowsAreStored, SeedsFit,
       Uploading, Overwriting, Maintaining, Sweeping

(* While a request uploads, nobody maintains; the keys it writes belong to *)
(* no row, and so not to the live environment either.                      *)
LEMMA UploadKeepsScaffolds ==
  ASSUME Disciplined, StoreInv, ScaffoldInv, NEW a \in Admins,
         \/ \E name \in Names : UploadBegin(a, name)
         \/ UploadPut(a) \/ UploadInsert(a) \/ UploadFails(a)
  PROVE  ScaffoldInv'
<1> USE BoundAssumption, AdminsAssumption
<1>o. ASSUME NEW r, req' = [req EXCEPT ![a] = r]
      PROVE  req'[a] = r /\ \A b \in Admins \ {a} : req'[b] = req[b]
  BY <1>o DEF StoreInv, TypeOK
<1>t. /\ versions \subseteq Row /\ sent \in Nat /\ \A f \in File : f \in Nat /\ f # 0
      /\ store \in [Key -> File \cup {0}] /\ UNCHANGED <<uses, envVars>>
      /\ \A v \in versions : Ref(v) \in Key
  <2>1. UNCHANGED <<uses, envVars>>
    BY DEF UploadBegin, UploadPut, UploadInsert, UploadFails
  <2> QED BY <2>1 DEF StoreInv, TypeOK, File, Row, Ref, Key
<1>m. \A b \in Admins : req[b].pc \notin Maintaining
  <2>1. CASE \E name \in Names : UploadBegin(a, name)
    BY <2>1 DEF UploadBegin, MayUpload, NoMaintenance, Disciplined, Maintaining, Overwriting,
                Sweeping, Uploading
  <2>2. CASE req[a].pc \in Uploading
    BY <2>2 DEF ScaffoldInv, MaintainsAlone, Maintaining, Overwriting, Sweeping, Uploading
  <2> QED BY <2>1, <2>2 DEF UploadPut, UploadInsert, UploadFails, Uploading
<1>s. ASSUME NEW r, req' = [req EXCEPT ![a] = r], r.pc \notin Maintaining
      PROVE  MaintainsAlone' /\ OverwriteFits' /\ SweptIsDeleted' /\ FrozenWhileUp'
  <2>1. \A b \in Admins : req'[b].pc \notin Maintaining
    BY <1>s, <1>o, <1>m
  <2> QED BY <2>1 DEF MaintainsAlone, OverwriteFits, SweptIsDeleted, FrozenWhileUp,
                      Maintaining, Overwriting
<1>l. \A b \in Admins : req[b].pc \in Uploading <=> lock = b
  BY DEF StoreInv, TypeOK
<1>1. ASSUME NEW name \in Names, UploadBegin(a, name) PROVE ScaffoldInv'
  <2>1. PICK n \in VersionNo : req' = [req EXCEPT ![a] = [Idle EXCEPT
               !.pc = "uploadPut", !.key = <<n, name>>, !.file = sent + 1]]
    BY <1>1 DEF UploadBegin
  <2> DEFINE r == [Idle EXCEPT !.pc = "uploadPut", !.key = <<n, name>>, !.file = sent + 1]
  <2>2. r.pc = "uploadPut" /\ r.file = sent + 1
    BY DEF Idle
  <2>3. /\ UNCHANGED <<versions, store>> /\ sent' = sent + 1 /\ lock = None
        /\ req' = [req EXCEPT ![a] = r]
    BY <1>1, <2>1 DEF UploadBegin
  <2> HIDE DEF r
  <2>4. req'[a] = r /\ \A b \in Admins \ {a} : req'[b] = req[b] /\ req[b].pc \notin Uploading
    BY <1>o, <1>l, <2>3
  <2>5. MaintainsAlone' /\ OverwriteFits' /\ SweptIsDeleted' /\ FrozenWhileUp'
    BY <1>s, <2>2, <2>3 DEF Maintaining, Overwriting, Sweeping
  <2>6. FilesAreFresh'
    <3>1. \A v \in versions : v.id <= sent /\ v.id \in Nat
      BY <1>t DEF ScaffoldInv, FilesAreFresh, Row
    <3> QED BY <1>t, <2>2, <2>3, <2>4, <3>1 DEF FilesAreFresh
  <2>7. PutBeforeInsert'
    BY <2>2, <2>4 DEF PutBeforeInsert, Uploading
  <2>8. RowsAreDistinct' /\ RowsAreStored'
    BY <2>3 DEF ScaffoldInv, RowsAreDistinct, RowsAreStored, Ref
  <2>9. ConfigIsUsed' /\ SeedsFit'
    BY <1>t, <2>3 DEF ScaffoldInv, ConfigIsUsed, SeedsFit, Ref, envVars
  <2> QED BY <2>5, <2>6, <2>7, <2>8, <2>9 DEF ScaffoldInv
<1>2. CASE UploadPut(a)
  <2> DEFINE r == [req[a] EXCEPT !.pc = "uploadInsert"]
  <2>1. r.pc = "uploadInsert" /\ r.key = req[a].key /\ r.file = req[a].file
        /\ req' = [req EXCEPT ![a] = r]
    BY <1>2, GotoStep DEF UploadPut, Pc
  <2>2. /\ UNCHANGED <<versions, sent>> /\ req[a].pc = "uploadPut"
        /\ store' = [store EXCEPT ![req[a].key] = req[a].file]
        /\ req[a].key \in Key /\ req[a].file \in File /\ ~ Collides(a)
    BY <1>2 DEF UploadPut, dbVars, StoreInv, WritersHaveKeys, UploadsNeverCollide, Uploading
  <2> HIDE DEF r
  <2>3. req'[a] = r /\ \A b \in Admins \ {a} : req'[b] = req[b] /\ req[b].pc \notin Uploading
    BY <1>o, <1>l, <2>1, <2>2 DEF Uploading
  <2>4. MaintainsAlone' /\ OverwriteFits' /\ SweptIsDeleted' /\ FrozenWhileUp'
    BY <1>s, <2>1 DEF Maintaining, Overwriting, Sweeping
  <2>5. \A v \in versions : store'[Ref(v)] = store[Ref(v)]
    <3>1. \A v \in versions : Ref(v) # req[a].key
      BY <2>2 DEF Collides, Ref
    <3> QED BY <1>t, <2>2, <3>1
  <2>6. FilesAreFresh'
    BY <2>1, <2>2, <2>3 DEF ScaffoldInv, FilesAreFresh, Uploading
  <2>7. PutBeforeInsert'
    BY <1>t, <2>1, <2>2, <2>3 DEF PutBeforeInsert, Uploading
  <2>8. RowsAreDistinct' /\ RowsAreStored'
    BY <2>2, <2>5 DEF ScaffoldInv, RowsAreDistinct, RowsAreStored, Ref
  <2>9. ConfigIsUsed' /\ SeedsFit'
    BY <1>t, <2>2, <2>5 DEF ScaffoldInv, ConfigIsUsed, SeedsFit, Ref, envVars
  <2> QED BY <2>4, <2>6, <2>7, <2>8, <2>9 DEF ScaffoldInv
<1>3. CASE UploadInsert(a)
  <2> DEFINE row == [id |-> req[a].file, version |-> req[a].key[1],
                     name |-> req[a].key[2], sha |-> req[a].file]
  <2>1. /\ UNCHANGED <<store, sent>> /\ req[a].pc = "uploadInsert"
        /\ req[a].key \in Key /\ req[a].file \in File /\ ~ Collides(a)
        /\ versions' = versions \cup {row} /\ req' = [req EXCEPT ![a] = Idle]
    BY <1>3 DEF UploadInsert, Finish, StoreInv, WritersHaveKeys, UploadsNeverCollide, Uploading
  <2>2. req'[a] = Idle /\ \A b \in Admins \ {a} : req'[b] = req[b] /\ req[b].pc \notin Uploading
    BY <1>o, <1>l, <2>1 DEF Uploading
  <2>3. Ref(row) = req[a].key /\ row.id = req[a].file /\ row.version = req[a].key[1]
    BY <2>1 DEF Ref, Key
  <2> HIDE DEF row
  <2>4. MaintainsAlone' /\ OverwriteFits' /\ SweptIsDeleted' /\ FrozenWhileUp'
    BY <1>s, <2>1, IdleIsRequest DEF Maintaining, Overwriting, Sweeping
  <2>5. req[a].file <= sent /\ \A v \in versions : v.id # req[a].file
    BY <2>1 DEF ScaffoldInv, FilesAreFresh, Uploading
  <2>6. FilesAreFresh'
    BY <2>1, <2>2, <2>3, <2>5, IdleIsRequest DEF ScaffoldInv, FilesAreFresh, Uploading
  <2>7. PutBeforeInsert'
    BY <2>2, IdleIsRequest DEF PutBeforeInsert, Uploading
  <2>8. RowsAreDistinct'
    BY <2>1, <2>3, <2>5 DEF ScaffoldInv, RowsAreDistinct, Collides
  <2>9. RowsAreStored'
    BY <2>1, <2>3 DEF ScaffoldInv, RowsAreStored, PutBeforeInsert, Ref
  <2>10. ConfigIsUsed' /\ SeedsFit'
    BY <1>t, <2>1 DEF ScaffoldInv, ConfigIsUsed, SeedsFit, Ref, envVars
  <2> QED BY <2>4, <2>6, <2>7, <2>8, <2>9, <2>10 DEF ScaffoldInv
<1>4. CASE UploadFails(a)
  <2>1. UNCHANGED <<versions, store, sent>> /\ req' = [req EXCEPT ![a] = Idle]
    BY <1>4 DEF UploadFails, Finish
  <2>2. req'[a] = Idle /\ \A b \in Admins \ {a} : req'[b] = req[b]
    BY <1>o, <2>1
  <2>3. MaintainsAlone' /\ OverwriteFits' /\ SweptIsDeleted' /\ FrozenWhileUp'
    BY <1>s, <2>1, IdleIsRequest DEF Maintaining, Overwriting, Sweeping
  <2>4. FilesAreFresh' /\ PutBeforeInsert'
    BY <2>1, <2>2, IdleIsRequest DEF ScaffoldInv, FilesAreFresh, PutBeforeInsert, Uploading
  <2>5. RowsAreDistinct' /\ RowsAreStored'
    BY <2>1 DEF ScaffoldInv, RowsAreDistinct, RowsAreStored, Ref
  <2>6. ConfigIsUsed' /\ SeedsFit'
    BY <1>t, <2>1 DEF ScaffoldInv, ConfigIsUsed, SeedsFit, Ref, envVars
  <2> QED BY <2>3, <2>4, <2>5, <2>6 DEF ScaffoldInv
<1> QED BY <1>1, <1>2, <1>3, <1>4

(* Maintenance brings no row with a new id and takes back no file.         *)
RowsAreKept == \A w \in versions' : \E v \in versions : v.id = w.id
SentGrows == sent' \in Nat /\ sent <= sent'

(* While a request maintains the store it is the only one under way.       *)
LEMMA MaintenanceKeepsScaffolds ==
  ASSUME Disciplined, StoreInv, ScaffoldInv, NEW a \in Admins,
         \/ \E v \in versions, name \in Names : OverwriteRead(a, v, name)
         \/ OverwritePut(a) \/ OverwriteUpdate(a) \/ OverwriteRemove(a)
         \/ DeleteCheck(a) \/ DeleteRows(a) \/ DeleteProblem(a)
         \/ SweepList(a) \/ SweepRemove(a) \/ MaintenanceFails(a)
  PROVE  ScaffoldInv'
<1> USE BoundAssumption, AdminsAssumption
<1>o. ASSUME NEW r, req' = [req EXCEPT ![a] = r]
      PROVE  req'[a] = r /\ \A b \in Admins \ {a} : req'[b] = req[b]
  BY <1>o DEF StoreInv, TypeOK
<1>t. /\ versions \subseteq Row /\ sent \in Nat /\ \A f \in File : f \in Nat /\ f # 0
      /\ store \in [Key -> File \cup {0}] /\ UNCHANGED <<uses, envVars>>
      /\ \A v \in versions : Ref(v) \in Key /\ v.id \in Nat
      /\ req[a] \in Req /\ req[a].pc \in Pc
  <2>1. UNCHANGED <<uses, envVars>>
    BY DEF OverwriteRead, OverwritePut, OverwriteUpdate, OverwriteRemove, DeleteCheck,
           DeleteRows, DeleteProblem, SweepList, SweepRemove, MaintenanceFails
  <2> QED BY <2>1 DEF StoreInv, TypeOK, File, Row, Ref, Key, Req
<1>m. \A b \in Admins \ {a} : req[b].pc = "idle"
  <2>1. CASE \E v \in versions, name \in Names : OverwriteRead(a, v, name)
    BY <2>1 DEF OverwriteRead, MayMaintain, AllIdle, Disciplined
  <2>2. CASE DeleteCheck(a)
    BY <2>2 DEF DeleteCheck, MayMaintain, AllIdle, Disciplined
  <2>3. CASE req[a].pc \notin Uploading \cup {"idle"}
    BY <1>t, <2>3 DEF ScaffoldInv, MaintainsAlone, Maintaining, Overwriting, Sweeping, Pc, Uploading
  <2> QED BY <2>1, <2>2, <2>3 DEF OverwritePut, OverwriteUpdate, OverwriteRemove, DeleteRows,
             DeleteProblem, SweepList, SweepRemove, MaintenanceFails, Uploading
<1>k. /\ UNCHANGED versions \/ versions' = {} => RowsAreKept
      /\ UNCHANGED sent => SentGrows
  BY <1>t DEF RowsAreKept, SentGrows
<1>s. ASSUME NEW r, req' = [req EXCEPT ![a] = r], r.pc \notin Uploading, RowsAreKept, SentGrows
      PROVE  MaintainsAlone' /\ FilesAreFresh' /\ PutBeforeInsert'
  <2>1. req'[a] = r /\ \A b \in Admins \ {a} : req'[b].pc = "idle"
    BY <1>s, <1>o, <1>m
  <2>2. \A b \in Admins : req'[b].pc \notin Uploading
    BY <1>s, <2>1 DEF Uploading
  <2>3. MaintainsAlone'
    <3> SUFFICES ASSUME NEW b \in Admins, NEW c \in Admins, b # c, req'[b].pc \in Maintaining
                 PROVE  req'[c].pc = "idle"
      BY DEF MaintainsAlone
    <3>1. b = a
      BY <2>1 DEF Maintaining, Overwriting, Sweeping
    <3> QED BY <2>1, <3>1
  <2>4. PutBeforeInsert'
    BY <2>2 DEF PutBeforeInsert, Uploading
  <2>5. \A w \in versions' : w.id <= sent'
    <3> TAKE w \in versions'
    <3>1. PICK v \in versions : v.id = w.id
      BY <1>s DEF RowsAreKept
    <3>2. v.id <= sent
      BY DEF ScaffoldInv, FilesAreFresh
    <3> QED BY <1>t, <1>s, <3>1, <3>2 DEF SentGrows
  <2> QED BY <2>2, <2>3, <2>4, <2>5 DEF FilesAreFresh
<1>f. ASSUME UNCHANGED versions PROVE RowsAreDistinct' /\ ConfigIsUsed'
  BY <1>f, <1>t DEF ScaffoldInv, RowsAreDistinct, ConfigIsUsed, Ref, envVars
<1>g. ASSUME UNCHANGED <<versions, store>> PROVE RowsAreStored' /\ SeedsFit'
  BY <1>g, <1>t DEF ScaffoldInv, RowsAreStored, SeedsFit, Ref, envVars
<1>h. ASSUME UNCHANGED versions, \A v \in versions : store'[Ref(v)] = store[Ref(v)]
      PROVE  RowsAreStored' /\ SeedsFit'
  <2>1. prov = "up" => store'[config] = store[config]
    BY <1>h DEF ScaffoldInv, ConfigIsUsed
  <2> QED BY <1>h, <1>t, <2>1 DEF ScaffoldInv, RowsAreStored, SeedsFit, Ref, envVars
<1>i. ASSUME NEW r, req' = [req EXCEPT ![a] = r], r.pc \notin Overwriting \cup Sweeping
      PROVE  OverwriteFits' /\ SweptIsDeleted' /\ FrozenWhileUp'
  <2>1. \A b \in Admins : req'[b].pc \notin Overwriting \cup Sweeping
    BY <1>i, <1>o, <1>m DEF Overwriting, Sweeping
  <2> QED BY <2>1 DEF OverwriteFits, SweptIsDeleted, FrozenWhileUp, Overwriting
<1>1. ASSUME NEW v \in versions, NEW name \in Names, OverwriteRead(a, v, name)
      PROVE  ScaffoldInv'
  <2> DEFINE r == [Idle EXCEPT !.pc = "overPut", !.id = v.id,
                     !.key = <<v.version, name>>, !.file = sent + 1, !.old = Ref(v)]
  <2>1. /\ r.pc = "overPut" /\ r.id = v.id /\ r.key = <<v.version, name>> /\ r.old = Ref(v)
    BY DEF Idle
  <2>2. /\ UNCHANGED <<versions, store>> /\ sent' = sent + 1
        /\ req' = [req EXCEPT ![a] = r]
        /\ prov = "down" \/ uses # v.id
    BY <1>1 DEF OverwriteRead, dbVars, MayOverwrite, Disciplined
  <2> HIDE DEF r
  <2>3. req'[a] = r /\ \A b \in Admins \ {a} : req'[b].pc = "idle"
    BY <1>o, <1>m, <2>2
  <2>4. MaintainsAlone' /\ FilesAreFresh' /\ PutBeforeInsert'
    <3>1. RowsAreKept /\ SentGrows
      BY <1>k, <1>t, <2>2 DEF SentGrows
    <3> QED BY <1>s, <2>1, <2>2, <3>1 DEF Uploading
  <2>5. OverwriteFits'
    <3>1. \A w \in versions : IF w.id = v.id THEN Ref(w) = Ref(v) ELSE w.version # v.version
      BY DEF ScaffoldInv, RowsAreDistinct
    <3>2. r.old[1] = r.key[1] /\ r.key[1] = v.version
      BY <2>1 DEF Ref
    <3> QED BY <2>1, <2>2, <2>3, <3>1, <3>2 DEF OverwriteFits, Ref
  <2>6. SweptIsDeleted' /\ FrozenWhileUp'
    BY <1>t, <2>1, <2>2, <2>3 DEF SweptIsDeleted, FrozenWhileUp, Sweeping, Overwriting, envVars
  <2> QED BY <1>f, <1>g, <2>2, <2>4, <2>5, <2>6 DEF ScaffoldInv
<1>2. CASE OverwritePut(a)
  <2> DEFINE r == [req[a] EXCEPT !.pc = "overUpdate"]
  <2>1. /\ r.pc = "overUpdate" /\ r.key = req[a].key
        /\ r.id = req[a].id /\ r.old = req[a].old /\ req' = [req EXCEPT ![a] = r]
    <3>1. r.id = req[a].id /\ r.old = req[a].old /\ r.key = req[a].key /\ r.pc = "overUpdate"
      BY <1>t DEF Req
    <3> QED BY <1>2, <3>1 DEF OverwritePut, Goto
  <2>2. /\ UNCHANGED <<versions, sent>> /\ req[a].pc = "overPut"
        /\ store' = [store EXCEPT ![req[a].key] = req[a].file]
        /\ req[a].key \in Key /\ req[a].file \in File
    BY <1>2 DEF OverwritePut, dbVars, StoreInv, WritersHaveKeys, Overwriting
  <2> HIDE DEF r
  <2>3. req'[a] = r /\ \A b \in Admins \ {a} : req'[b].pc = "idle"
    BY <1>o, <1>m, <2>1
  <2>4. MaintainsAlone' /\ FilesAreFresh' /\ PutBeforeInsert'
    BY <1>s, <1>k, <2>1, <2>2 DEF Uploading
  <2>5. store'[req[a].key] # 0
    BY <1>t, <2>2
  <2>6. OverwriteFits'
    BY <2>1, <2>2, <2>3, <2>5 DEF ScaffoldInv, OverwriteFits, Ref
  <2>7. SweptIsDeleted' /\ FrozenWhileUp'
    BY <1>t, <2>1, <2>2, <2>3 DEF ScaffoldInv, SweptIsDeleted, FrozenWhileUp, Sweeping, Overwriting,
                                  envVars
  <2>8. RowsAreStored'
    BY <1>t, <2>2 DEF ScaffoldInv, RowsAreStored, Ref
  <2>9. SeedsFit'
    <3>1. prov = "up" => config # req[a].key
      <4> SUFFICES ASSUME prov = "up" PROVE config # req[a].key
        OBVIOUS
      <4>1. PICK v \in versions : v.id = uses /\ Ref(v) = config
        BY DEF ScaffoldInv, ConfigIsUsed
      <4>2. req[a].id # uses
        BY <2>2 DEF ScaffoldInv, FrozenWhileUp, Overwriting
      <4>3. v.version # req[a].key[1]
        BY <2>2, <4>1, <4>2 DEF ScaffoldInv, OverwriteFits
      <4> QED BY <4>1, <4>3 DEF Ref
    <3>2. prov = "up" => store'[config] = store[config]
      BY <1>t, <2>2, <3>1 DEF StoreInv, ConfigIsKey
    <3> QED BY <1>t, <3>2 DEF ScaffoldInv, SeedsFit, envVars
  <2> QED BY <1>f, <2>2, <2>4, <2>6, <2>7, <2>8, <2>9 DEF ScaffoldInv
<1>3. CASE OverwriteUpdate(a)
  <2> DEFINE r == IF req[a].old = req[a].key THEN Idle
                                             ELSE [req[a] EXCEPT !.pc = "overRemove"]
  <2>1. /\ \/ r = Idle
           \/ r.pc = "overRemove" /\ r.id = req[a].id /\ r.old = req[a].old /\ r.old # req[a].key
        /\ req' = [req EXCEPT ![a] = r]
    BY <1>3, <1>t, GotoStep DEF OverwriteUpdate, Finish, Pc, Req
  <2>2. /\ versions' = {Updated(a, v) : v \in versions} /\ UNCHANGED <<store, sent>>
        /\ req[a].pc = "overUpdate" /\ req[a].key \in Key
    BY <1>3 DEF OverwriteUpdate, StoreInv, WritersHaveKeys, Overwriting
  <2> HIDE DEF r
  <2>3. /\ req'[a] = r /\ \A b \in Admins \ {a} : req'[b].pc = "idle"
        /\ r.pc \in {"idle", "overRemove"}
    BY <1>o, <1>m, <2>1, IdleIsRequest
  <2>4. \A v \in versions : /\ Updated(a, v).id = v.id
                            /\ Updated(a, v).version = v.version
                            /\ v.id # req[a].id => Updated(a, v) = v
    BY <1>t DEF Updated, Row
  <2>5. \A v \in versions : v.id = req[a].id => Ref(Updated(a, v)) = req[a].key
    <3> SUFFICES ASSUME NEW v \in versions, v.id = req[a].id PROVE Ref(Updated(a, v)) = req[a].key
      OBVIOUS
    <3>1. Ref(v) = req[a].old /\ req[a].old[1] = req[a].key[1]
      BY <2>2 DEF ScaffoldInv, OverwriteFits
    <3>2. v.version = req[a].key[1]
      BY <3>1 DEF Ref
    <3>3. Updated(a, v).version = v.version /\ Updated(a, v).name = req[a].key[2]
      BY <1>t DEF Updated, Row
    <3> QED BY <2>2, <3>2, <3>3 DEF Ref, Key
  <2>6. \A v \in versions : v.id # req[a].id => v.version # req[a].key[1]
    BY <2>2 DEF ScaffoldInv, OverwriteFits
  <2>7. MaintainsAlone' /\ FilesAreFresh' /\ PutBeforeInsert'
    <3>1. RowsAreKept /\ SentGrows
      BY <1>k, <2>2, <2>4 DEF RowsAreKept
    <3> QED BY <1>s, <2>1, <2>2, <2>3, <3>1 DEF Uploading
  <2>8. RowsAreDistinct'
    BY <2>2, <2>4 DEF ScaffoldInv, RowsAreDistinct
  <2>9. OverwriteFits'
    <3>1. r.pc = "overRemove" => \A w \in versions' : Ref(w) # r.old
      <4> SUFFICES ASSUME r.pc = "overRemove", NEW v \in versions PROVE Ref(Updated(a, v)) # r.old
        BY <2>2
      <4>1. r.old = req[a].old /\ r.old # req[a].key /\ req[a].old[1] = req[a].key[1]
        BY <2>1, <2>2, IdleIsRequest DEF ScaffoldInv, OverwriteFits
      <4> QED BY <2>4, <2>5, <2>6, <4>1 DEF Ref
    <3> QED BY <2>3, <3>1 DEF OverwriteFits
  <2>10. SweptIsDeleted' /\ FrozenWhileUp'
    BY <1>t, <2>1, <2>2, <2>3, IdleIsRequest DEF ScaffoldInv, SweptIsDeleted, FrozenWhileUp, Sweeping,
                                                Overwriting, envVars
  <2>11. RowsAreStored'
    <3> SUFFICES ASSUME NEW v \in versions PROVE store[Ref(Updated(a, v))] # 0
      BY <2>2 DEF RowsAreStored, Ref
    <3>1. store[req[a].key] # 0
      BY <2>2 DEF ScaffoldInv, OverwriteFits
    <3> QED BY <2>4, <2>5, <3>1 DEF ScaffoldInv, RowsAreStored
  <2>12. ConfigIsUsed' /\ SeedsFit'
    <3>1. prov # "down" => \E v \in versions' : v.id = uses /\ Ref(v) = config
      <4> SUFFICES ASSUME prov # "down" PROVE \E v \in versions' : v.id = uses /\ Ref(v) = config
        OBVIOUS
      <4>1. PICK v \in versions : v.id = uses /\ Ref(v) = config
        BY DEF ScaffoldInv, ConfigIsUsed
      <4>2. Updated(a, v) = v
        BY <2>2, <2>4, <4>1 DEF ScaffoldInv, FrozenWhileUp, Overwriting
      <4> QED BY <2>2, <4>1, <4>2
    <3> QED BY <1>t, <2>2, <3>1 DEF ScaffoldInv, ConfigIsUsed, SeedsFit, Ref, envVars
  <2> QED BY <2>7, <2>8, <2>9, <2>10, <2>11, <2>12 DEF ScaffoldInv
<1>4. CASE OverwriteRemove(a)
  <2>1. /\ UNCHANGED <<versions, sent>> /\ req' = [req EXCEPT ![a] = Idle]
        /\ store' = [store EXCEPT ![req[a].old] = 0] /\ req[a].pc = "overRemove"
    BY <1>4 DEF OverwriteRemove, Finish, dbVars
  <2>2. \A v \in versions : store'[Ref(v)] = store[Ref(v)]
    BY <1>t, <2>1 DEF ScaffoldInv, OverwriteFits
  <2>3. MaintainsAlone' /\ FilesAreFresh' /\ PutBeforeInsert'
    BY <1>s, <1>k, <2>1, IdleIsRequest DEF Uploading
  <2> QED BY <1>f, <1>h, <1>i, <2>1, <2>2, <2>3, IdleIsRequest DEF ScaffoldInv, Overwriting, Sweeping
<1>5. CASE DeleteCheck(a) \/ DeleteRows(a)
  <2>1. PICK r \in Req : req' = [req EXCEPT ![a] = r] /\ r.pc \in {"idle", "deleteRows", "deleteProblem"}
    <3>1. CASE DeleteCheck(a)
      BY <3>1, GotoStep DEF DeleteCheck, Pc
    <3>2. CASE DeleteRows(a) /\ \E v \in versions : v.id = uses
      BY <3>2, IdleIsRequest DEF DeleteRows, Finish
    <3>3. CASE DeleteRows(a) /\ ~ \E v \in versions : v.id = uses
      <4> DEFINE d == [Idle EXCEPT !.pc = "deleteProblem", !.gone = {v.id : v \in versions}]
      <4>1. {v.id : v \in versions} \subseteq File
        BY <1>t DEF Row
      <4>2. d \in Req /\ d.pc = "deleteProblem"
        BY <4>1 DEF Idle, Req, Pc
      <4>3. req' = [req EXCEPT ![a] = d]
        BY <3>3 DEF DeleteRows
      <4> QED BY <4>2, <4>3
    <3> QED BY <1>5, <3>1, <3>2, <3>3
  <2>2. UNCHANGED <<versions, store, sent>>
    BY <1>5 DEF DeleteCheck, DeleteRows, dbVars
  <2>3. MaintainsAlone' /\ FilesAreFresh' /\ PutBeforeInsert'
    BY <1>s, <1>k, <2>1, <2>2 DEF Uploading
  <2> QED BY <1>f, <1>g, <1>i, <2>1, <2>2, <2>3 DEF ScaffoldInv, Overwriting, Sweeping
<1>6. CASE DeleteProblem(a)
  <2> DEFINE d == [Idle EXCEPT !.pc = "sweepList"]
             refused == \E v \in versions : v.id \notin req[a].gone
  <2>1. UNCHANGED <<store, sent>>
    BY <1>6 DEF DeleteProblem
  <2>2. CASE refused
    <3>1. UNCHANGED versions /\ req' = [req EXCEPT ![a] = Idle]
      BY <1>6, <2>2 DEF DeleteProblem, Finish
    <3>2. MaintainsAlone' /\ FilesAreFresh' /\ PutBeforeInsert'
      BY <1>s, <1>k, <2>1, <3>1, IdleIsRequest DEF Uploading
    <3> QED BY <1>f, <1>g, <1>i, <2>1, <3>1, <3>2, IdleIsRequest DEF ScaffoldInv, Overwriting, Sweeping
  <2>3. CASE ~ refused
    <3>1. versions' = {} /\ req' = [req EXCEPT ![a] = d] /\ d.pc = "sweepList"
      BY <1>6, <2>3 DEF DeleteProblem, Idle
    <3> HIDE DEF d
    <3>2. req'[a] = d /\ \A b \in Admins \ {a} : req'[b].pc = "idle"
      BY <1>o, <1>m, <3>1
    <3>3. MaintainsAlone' /\ FilesAreFresh' /\ PutBeforeInsert'
      BY <1>s, <1>k, <2>1, <3>1 DEF Uploading
    <3>4. OverwriteFits' /\ SweptIsDeleted' /\ FrozenWhileUp'
      BY <3>1, <3>2 DEF OverwriteFits, SweptIsDeleted, FrozenWhileUp, Overwriting
    <3>5. prov = "down"
      BY <2>3 DEF ScaffoldInv, ConfigIsUsed, StoreInv, UsedIsNotLocked
    <3>6. RowsAreDistinct' /\ ConfigIsUsed' /\ RowsAreStored' /\ SeedsFit'
      BY <1>t, <3>1, <3>5 DEF RowsAreDistinct, ConfigIsUsed, RowsAreStored, SeedsFit, envVars
    <3> QED BY <3>3, <3>4, <3>6 DEF ScaffoldInv
  <2> QED BY <2>2, <2>3
<1>7. CASE SweepList(a)
  <2> DEFINE r == [Idle EXCEPT !.pc = "sweepRemove", !.listed = {k \in Key : store[k] # 0}]
  <2>1. /\ UNCHANGED <<versions, store, sent>> /\ req' = [req EXCEPT ![a] = r]
        /\ r.pc = "sweepRemove" /\ versions = {}
    BY <1>7 DEF SweepList, dbVars, Idle, ScaffoldInv, SweptIsDeleted, Sweeping
  <2> HIDE DEF r
  <2>2. req'[a] = r /\ \A b \in Admins \ {a} : req'[b].pc = "idle"
    BY <1>o, <1>m, <2>1
  <2>3. MaintainsAlone' /\ FilesAreFresh' /\ PutBeforeInsert'
    BY <1>s, <1>k, <2>1 DEF Uploading
  <2>4. OverwriteFits' /\ SweptIsDeleted' /\ FrozenWhileUp'
    BY <2>1, <2>2 DEF OverwriteFits, SweptIsDeleted, FrozenWhileUp, Overwriting
  <2> QED BY <1>f, <1>g, <2>1, <2>3, <2>4 DEF ScaffoldInv
<1>8. CASE SweepRemove(a)
  <2>1. /\ UNCHANGED <<versions, sent>> /\ req' = [req EXCEPT ![a] = Idle] /\ versions = {}
    BY <1>8 DEF SweepRemove, Finish, dbVars, ScaffoldInv, SweptIsDeleted, Sweeping
  <2>2. MaintainsAlone' /\ FilesAreFresh' /\ PutBeforeInsert'
    BY <1>s, <1>k, <2>1, IdleIsRequest DEF Uploading
  <2> QED BY <1>f, <1>h, <1>i, <2>1, <2>2, IdleIsRequest DEF ScaffoldInv, Overwriting, Sweeping
<1>9. CASE MaintenanceFails(a)
  <2>1. UNCHANGED <<versions, store, sent>> /\ req' = [req EXCEPT ![a] = Idle]
    BY <1>9 DEF MaintenanceFails, Finish, dbVars
  <2>2. MaintainsAlone' /\ FilesAreFresh' /\ PutBeforeInsert'
    BY <1>s, <1>k, <2>1, IdleIsRequest DEF Uploading
  <2> QED BY <1>f, <1>g, <1>i, <2>1, <2>2, IdleIsRequest DEF ScaffoldInv, Overwriting, Sweeping
<1> QED BY <1>1, <1>2, <1>3, <1>4, <1>5, <1>6, <1>7, <1>8, <1>9

(* A provision has read a row that cannot change while it lasts.           *)
LEMMA EnvironmentKeepsScaffolds ==
  ASSUME Disciplined, StoreInv, ScaffoldInv,
         \/ \E v \in versions : CreateBatch(v) \/ ProvisionRead(v)
         \/ ProvisionApply \/ ProvisionFails \/ Close
         \/ \E p \in Pods : PodStart(p)
  PROVE  ScaffoldInv'
<1> USE BoundAssumption, AdminsAssumption
<1>1. UNCHANGED <<versions, store, sent, req>>
  BY DEF CreateBatch, ProvisionRead, ProvisionApply, ProvisionFails, Close, PodStart, dbVars
<1>2. /\ MaintainsAlone' /\ FilesAreFresh' /\ RowsAreDistinct' /\ PutBeforeInsert'
      /\ OverwriteFits' /\ SweptIsDeleted' /\ RowsAreStored'
  BY <1>1 DEF ScaffoldInv, MaintainsAlone, FilesAreFresh, RowsAreDistinct, PutBeforeInsert,
              OverwriteFits, SweptIsDeleted, RowsAreStored, Ref
<1>3. ASSUME NEW v \in versions, CreateBatch(v) PROVE ScaffoldInv'
  <2>1. prov = "down" /\ UNCHANGED envVars
    <3>1. uses = 0 /\ \A w \in versions : w.id # 0
      BY <1>3 DEF CreateBatch, StoreInv, TypeOK, Row, File
    <3> QED BY <1>3, <3>1 DEF CreateBatch, ScaffoldInv, ConfigIsUsed
  <2>2. ConfigIsUsed' /\ FrozenWhileUp' /\ SeedsFit'
    BY <2>1 DEF ConfigIsUsed, FrozenWhileUp, SeedsFit, envVars
  <2> QED BY <1>2, <2>2 DEF ScaffoldInv
<1>4. ASSUME NEW v \in versions, ProvisionRead(v) PROVE ScaffoldInv'
  <2>1. FrozenWhileUp'
    BY <1>1, <1>4 DEF ProvisionRead, MayUpload, NoMaintenance, Disciplined, FrozenWhileUp,
                      Uploading, Overwriting
  <2>2. ConfigIsUsed' /\ SeedsFit'
    BY <1>1, <1>4 DEF ProvisionRead, ConfigIsUsed, SeedsFit, Ref
  <2> QED BY <1>2, <2>1, <2>2 DEF ScaffoldInv
<1>5. CASE ProvisionApply
  <2>1. FrozenWhileUp' /\ ConfigIsUsed'
    BY <1>1, <1>5 DEF ProvisionApply, ScaffoldInv, FrozenWhileUp, ConfigIsUsed, Ref
  <2>2. SeedsFit'
    BY <1>5 DEF ProvisionApply, SeedsFit
  <2> QED BY <1>2, <2>1, <2>2 DEF ScaffoldInv
<1>6. CASE ProvisionFails \/ Close
  BY <1>1, <1>2, <1>6 DEF ProvisionFails, Close, ScaffoldInv, FrozenWhileUp, ConfigIsUsed, SeedsFit
<1>7. ASSUME NEW p \in Pods, PodStart(p) PROVE ScaffoldInv'
  <2>1. FrozenWhileUp' /\ ConfigIsUsed'
    BY <1>1, <1>7 DEF PodStart, ScaffoldInv, FrozenWhileUp, ConfigIsUsed, Ref
  <2>2. SeedsFit'
    BY <1>1, <1>7 DEF PodStart, ScaffoldInv, SeedsFit, StoreInv, TypeOK
  <2> QED BY <1>2, <2>1, <2>2 DEF ScaffoldInv
<1> QED BY <1>3, <1>4, <1>5, <1>6, <1>7

LEMMA ScaffoldStep ==
  ASSUME Disciplined, StoreInv, ScaffoldInv, [Next]_vars
  PROVE  ScaffoldInv'
<1>1. CASE UNCHANGED vars
  BY <1>1 DEF ScaffoldInv, MaintainsAlone, FilesAreFresh, RowsAreDistinct, PutBeforeInsert,
              OverwriteFits, SweptIsDeleted, ConfigIsUsed, FrozenWhileUp, RowsAreStored, SeedsFit,
              Ref, vars, dbVars, envVars
<1>2. CASE Next
  BY <1>2, UploadKeepsScaffolds, MaintenanceKeepsScaffolds, EnvironmentKeepsScaffolds DEF Next
<1> QED BY <1>1, <1>2

(* What volumes and versions were given holds in every state.              *)
THEOREM ScaffoldInvariance ==
  ASSUME Disciplined
  PROVE  Spec => [](StoreInv /\ ScaffoldInv)
<1>1. Init => ScaffoldInv
  BY InitScaffolds
<1>2. StoreInv /\ ScaffoldInv /\ [Next]_vars => ScaffoldInv'
  BY ScaffoldStep
<1> QED BY <1>1, <1>2, Invariance, PTL DEF Spec

(* While both rules are kept, the ref of every version and the             *)
(* SCAFFOLD_REF of a live environment lead to an object.                   *)
THEOREM RefsLead ==
  ASSUME Disciplined
  PROVE  Spec => []RefIsStored
<1>1. ScaffoldInv => RefIsStored
  BY DEF ScaffoldInv, RefIsStored, RowsAreStored, ConfigIsUsed
<1> QED BY <1>1, ScaffoldInvariance, PTL

(* While both rules are kept, everybody in a session starts from the same  *)
(* files, the pods that start late or again included.                      *)
THEOREM SeedsAgree ==
  ASSUME Disciplined
  PROVE  Spec => []SessionSeedsAlike
<1>1. ScaffoldInv => SessionSeedsAlike
  BY DEF ScaffoldInv, SessionSeedsAlike, SeedsFit
<1> QED BY <1>1, ScaffoldInvariance, PTL

(* While both rules are kept, neither an upload nor the sweep of a         *)
(* deletion touches what the ref of a version holds.                       *)
THEOREM OnlyOverwrites ==
  ASSUME Disciplined
  PROVE  Spec => OnlyOverwriteChanges
<1> DEFINE Changes == \A v \in versions :
                        store'[Ref(v)] # store[Ref(v)] => \E a \in Admins : req[a].id = v.id
<1>1. ASSUME StoreInv, ScaffoldInv, [Next]_vars PROVE Changes
  <2> SUFFICES ASSUME NEW v \in versions, store'[Ref(v)] # store[Ref(v)]
               PROVE  \E a \in Admins : req[a].id = v.id
    OBVIOUS
  <2>1. Ref(v) \in Key /\ store \in [Key -> File \cup {0}]
    BY <1>1 DEF StoreInv, TypeOK, Row, Ref, Key
  <2>2. PICK a \in Admins : UploadPut(a) \/ OverwritePut(a) \/ OverwriteRemove(a) \/ SweepRemove(a)
    BY <1>1 DEF Next, vars, dbVars, UploadBegin, UploadInsert, UploadFails, OverwriteRead,
                OverwriteUpdate, DeleteCheck, DeleteRows, DeleteProblem, SweepList,
                MaintenanceFails, CreateBatch, ProvisionRead, ProvisionApply, ProvisionFails,
                Close, PodStart
  <2>3. CASE UploadPut(a)
    <3>1. Ref(v) # req[a].key
      BY <1>1, <2>3 DEF UploadPut, StoreInv, UploadsNeverCollide, Collides, Uploading, Ref
    <3> QED BY <2>1, <2>3, <3>1 DEF UploadPut
  <2>4. CASE OverwritePut(a)
    <3>1. Ref(v) = req[a].key
      BY <2>1, <2>4 DEF OverwritePut
    <3> QED BY <1>1, <2>4, <3>1 DEF OverwritePut, ScaffoldInv, OverwriteFits, Ref
  <2>5. CASE OverwriteRemove(a)
    BY <1>1, <2>1, <2>5 DEF OverwriteRemove, ScaffoldInv, OverwriteFits
  <2>6. CASE SweepRemove(a)
    BY <1>1, <2>6 DEF SweepRemove, ScaffoldInv, SweptIsDeleted, Sweeping
  <2> QED BY <2>2, <2>3, <2>4, <2>5, <2>6
<1> QED BY <1>1, ScaffoldInvariance, PTL DEF OnlyOverwriteChanges, Spec

-----------------------------------------------------------------------------
(***************************************************************************)
(* The archives that become those files: theorems about Archive, for any   *)
(* project, any folders around it and any size of the headers' fields.     *)
(*                                                                         *)
(* An archive whose name is not cut off and whose wrapping folders are all *)
(* taken off holds the project's files where the project has them.  While  *)
(* they come off, Layout relates the list to the project entry by entry:   *)
(* what is left of the wrapper, then the entry's own path.                 *)
(***************************************************************************)

(* What names in an archive are made of.                                   *)
Text == STRING \cup {"."}
Path == Seq(Text)
MemberType == [path : Path \ {Nothing}, kind : Kinds, data : Path]
FileType == [path : Path \ {Nothing}, isDir : BOOLEAN, data : Path]

(* Names that normalization leaves alone.                                  *)
Tidy(path) == Parts(path) \cap {".", "..", Junk} = {}

(* Below the wrapper without its first k folders no name is "..".          *)
Outer(path, w, k) ==
  \A i \in 1 .. Len(path) : IF i + k <= Len(w) THEN path[i] = w[i + k] ELSE path[i] # ".."

(* The wrapper without its first k folders; what a file holds.             *)
Rest(w, k) == SubSeq(w, k + 1, Len(w))
Data(e) == IF e.kind = "file" THEN e.path ELSE Nothing

-----------------------------------------------------------------------------
(* A path of one name.                                                     *)
LEMMA OneName ==
  ASSUME NEW c \in Text
  PROVE  <<c>> \in Path /\ Len(<<c>>) = 1 /\ <<c>>[1] = c
BY DEF Path

(* What is on the disk, written as paths.                                  *)
LEMMA PathsOnDisk ==
  ASSUME OnDisk
  PROVE  /\ Junk \in Text /\ Junk # "." /\ Junk # ".."
         /\ \A w \in Wrappers : w \in Path /\ "." \notin Parts(w)
         /\ \A p \in Projects : \A e \in p :
              e.path \in Path /\ e.path # Nothing /\ e.kind \in Kinds
<1>1. STRING \subseteq Text
  BY DEF Text
<1>2. ASSUME NEW s \in Seq(STRING)
      PROVE  s \in Path
  BY <1>1, SeqMonotonic DEF Path
<1> QED BY <1>1, <1>2 DEF OnDisk

(* What any tool is like.                                                  *)
LEMMA ToolFacts ==
  ASSUME OnDisk, NEW t \in Tools
  PROVE  /\ t.wrapper \in Wrappers /\ t.wrapper \in Path /\ "." \notin Parts(t.wrapper)
         /\ t.form \in {"zip", "tar"} /\ t.dot \in BOOLEAN /\ t.dirs \in BOOLEAN /\ t.junk \in BOOLEAN
         /\ t.form = "zip" => ~ t.dot /\ t.long = "utf8"
BY PathsOnDisk DEF Tools

(* What a tool names before its "./".                                      *)
Shape(m, p, t) ==
  /\ m \in MemberType
  /\ "." \notin Parts(m.path)
  /\ Junk \in Parts(m.path) \/ Outer(m.path, t.wrapper, 0)
  /\ m.kind # "dir" => 
       \/ Junk \in Parts(m.path)
       \/ \E e \in p : e.kind = m.kind /\ m.path = t.wrapper \o e.path /\ m.data = Data(e)

(* What the tool packs of the project lies below the wrapper.              *)
LEMMA InsideShape ==
  ASSUME OnDisk, NEW p \in Projects, NEW t \in Tools, NEW m \in Inside(p, t)
  PROVE  Shape(m, p, t)
<1> DEFINE w == t.wrapper
<1>1. PICK e \in p : m = Member(w \o e.path, e.kind, IF e.kind = "file" THEN e.path ELSE Nothing)
  BY DEF Inside
<1>2. /\ e.path \in Path /\ e.path # Nothing /\ e.kind \in Kinds
      /\ \A i \in 1 .. Len(e.path) : e.path[i] # "." /\ e.path[i] # ".."
  BY PathsOnDisk DEF OnDisk, Parts
<1>3. /\ w \in Path /\ \A i \in 1 .. Len(w) : w[i] # "."
  BY ToolFacts DEF Parts
<1> HIDE DEF w
<1>4. /\ w \o e.path \in Path /\ Len(w \o e.path) = Len(w) + Len(e.path)
      /\ \A i \in 1 .. Len(w) + Len(e.path) :
           (w \o e.path)[i] = IF i <= Len(w) THEN w[i] ELSE e.path[i - Len(w)]
  BY <1>2, <1>3, ConcatProperties DEF Path
<1>5. Len(w) \in Nat /\ Len(e.path) \in Nat \ {0}
  BY <1>2, <1>3, LenProperties, EmptySeq DEF Path, Nothing
<1>6. w \o e.path # Nothing
  BY <1>4, <1>5 DEF Nothing
<1>7. Nothing \in Path
  BY EmptySeq DEF Path, Nothing
<1>8. m.path = w \o e.path /\ m.kind = e.kind /\ m.data = Data(e) /\ m \in MemberType
  BY <1>1, <1>2, <1>4, <1>6, <1>7 DEF Member, Data, MemberType
<1>9. "." \notin Parts(m.path)
  BY <1>2, <1>3, <1>4, <1>5, <1>8 DEF Parts
<1>10. Outer(m.path, w, 0)
  <2> SUFFICES ASSUME NEW i \in 1 .. Len(w) + Len(e.path)
               PROVE  IF i + 0 <= Len(w) THEN m.path[i] = w[i + 0] ELSE m.path[i] # ".."
    BY <1>4, <1>8 DEF Outer
  <2> QED BY <1>2, <1>4, <1>5, <1>8
<1> QED BY <1>8, <1>9, <1>10 DEF Shape, w

(* What the operating system left bears its name.                          *)
LEMMA LitterShape ==
  ASSUME OnDisk, NEW p, NEW t \in Tools, NEW m \in Litter(t)
  PROVE  /\ Shape(m, p, t)
         /\ m.path = t.wrapper \o <<Junk>> \/ m.path[1] = Junk
<1> DEFINE w == t.wrapper
<1>1. /\ w \in Path /\ \A i \in 1 .. Len(w) : w[i] # "."
  BY ToolFacts DEF Parts
<1>2. Junk # "." /\ <<Junk>> \in Path /\ Len(<<Junk>>) = 1 /\ <<Junk>>[1] = Junk
  BY PathsOnDisk, OneName
<1> HIDE DEF w
<1>3. \/ m = Member(w \o <<Junk>>, "file", Nothing)
      \/ m = Member(<<Junk>> \o w \o <<Junk>>, "file", Nothing)
  BY DEF Litter, w
<1>4. Nothing \in Path /\ Len(w) \in Nat
  BY <1>1, EmptySeq, LenProperties DEF Path, Nothing
<1>5. ASSUME NEW v \in Path, m = Member(v \o <<Junk>>, "file", Nothing),
             \A i \in 1 .. Len(v) : v[i] # "."
      PROVE  Shape(m, p, t) /\ m.path = v \o <<Junk>>
  <2>1. Len(v) \in Nat
    BY LenProperties DEF Path
  <2>2. /\ v \o <<Junk>> \in Path /\ Len(v \o <<Junk>>) = Len(v) + 1
        /\ \A i \in 1 .. Len(v) + 1 :
             (v \o <<Junk>>)[i] = IF i <= Len(v) THEN v[i] ELSE <<Junk>>[i - Len(v)]
    BY <1>2, ConcatProperties DEF Path
  <2>3. (v \o <<Junk>>)[Len(v) + 1] = Junk
    BY <1>2, <2>1, <2>2
  <2>4. v \o <<Junk>> # Nothing
    BY <2>1, <2>2 DEF Nothing
  <2>5. m.path = v \o <<Junk>> /\ m.kind = "file" /\ m \in MemberType
    BY <1>4, <1>5, <2>2, <2>4 DEF Member, MemberType, Kinds
  <2>6. Junk \in Parts(m.path)
    BY <2>1, <2>2, <2>3, <2>5 DEF Parts
  <2>7. "." \notin Parts(m.path)
    <3>1. ASSUME NEW i \in 1 .. Len(v) + 1
          PROVE  (v \o <<Junk>>)[i] # "."
      <4>1. CASE i <= Len(v)
        BY <1>5, <2>1, <2>2, <4>1
      <4>2. CASE ~ (i <= Len(v))
        <5>1. i = Len(v) + 1
          BY <2>1, <4>2
        <5> QED BY <1>2, <2>3, <5>1
      <4> QED BY <4>1, <4>2
    <3> QED BY <2>2, <2>5, <3>1 DEF Parts
  <2> QED BY <2>5, <2>6, <2>7 DEF Shape
<1>6. /\ <<Junk>> \o w \in Path /\ Len(<<Junk>> \o w) = 1 + Len(w)
      /\ \A i \in 1 .. 1 + Len(w) : (<<Junk>> \o w)[i] = IF i <= 1 THEN <<Junk>>[i] ELSE w[i - 1]
  BY <1>1, <1>2, ConcatProperties DEF Path
<1>7. \A i \in 1 .. Len(<<Junk>> \o w) : (<<Junk>> \o w)[i] # "."
  BY <1>1, <1>2, <1>4, <1>6
<1>8. ASSUME m = Member(<<Junk>> \o w \o <<Junk>>, "file", Nothing)
      PROVE  Shape(m, p, t) /\ m.path[1] = Junk
  <2> DEFINE v == <<Junk>> \o w
  <2>1. v \in Path /\ Len(v) = 1 + Len(w) /\ v[1] = Junk /\ \A i \in 1 .. Len(v) : v[i] # "."
    BY <1>2, <1>4, <1>6, <1>7
  <2>2. m = Member(v \o <<Junk>>, "file", Nothing)
    BY <1>8
  <2> HIDE DEF v
  <2>3. Shape(m, p, t) /\ m.path = v \o <<Junk>>
    BY <1>5, <2>1, <2>2
  <2>4. (v \o <<Junk>>)[1] = v[1]
    BY <1>2, <1>4, <2>1, ConcatProperties DEF Path
  <2> QED BY <2>1, <2>3, <2>4
<1>9. ASSUME m = Member(w \o <<Junk>>, "file", Nothing)
      PROVE  Shape(m, p, t) /\ m.path = w \o <<Junk>>
  BY <1>1, <1>5, <1>9
<1> QED BY <1>3, <1>8, <1>9 DEF w

(* The directories above them.                                             *)
LEMMA DirectoryShape ==
  ASSUME OnDisk, NEW p \in Projects, NEW t \in Tools,
         NEW m \in Directories(Inside(p, t) \cup Litter(t))
  PROVE  Shape(m, p, t)
<1> DEFINE w == t.wrapper
<1>1. PICK o \in Inside(p, t) \cup Litter(t) : \E n \in 1 .. Len(o.path) - 1 :
        m = Member(SubSeq(o.path, 1, n), "dir", Nothing)
  BY DEF Directories, Parents
<1>2. PICK n \in 1 .. Len(o.path) - 1 : m = Member(SubSeq(o.path, 1, n), "dir", Nothing)
  BY <1>1
<1> DEFINE d == SubSeq(o.path, 1, n)
<1>3. Shape(o, p, t)
  BY <1>1, InsideShape, LitterShape
<1>4. o.path \in Path /\ Len(o.path) \in Nat
  BY <1>3, LenProperties DEF Shape, MemberType, Path
<1>5. \A i \in 1 .. n : o.path[i] \in Text
  BY <1>4, ElementOfSeq DEF Path
<1>6. d \in Path /\ Len(d) = n /\ \A i \in 1 .. n : d[i] = o.path[i]
  BY <1>4, <1>5, SubSeqProperties DEF Path
<1>7. Nothing \in Path /\ d # Nothing
  BY <1>6, EmptySeq DEF Path, Nothing
<1> HIDE DEF d
<1>8. m.path = d /\ m.kind = "dir" /\ m \in MemberType
  BY <1>2, <1>6, <1>7 DEF Member, MemberType, Kinds, d
<1>9. "." \notin Parts(d)
  BY <1>3, <1>4, <1>6 DEF Shape, Parts
<1>10. w \in Path /\ Len(w) \in Nat
  BY ToolFacts, LenProperties DEF Path
<1> HIDE DEF w
<1>11. ASSUME Outer(o.path, w, 0)
       PROVE  Outer(d, w, 0)
  BY <1>4, <1>6, <1>11 DEF Outer
<1>12. ASSUME o \in Inside(p, t)
       PROVE  Junk \in Parts(d) \/ Outer(d, w, 0)
  <2>1. PICK e \in p : o = Member(w \o e.path, e.kind, IF e.kind = "file" THEN e.path ELSE Nothing)
    BY <1>12 DEF Inside, w
  <2>2. e.path \in Path /\ \A i \in 1 .. Len(e.path) : e.path[i] # ".."
    BY PathsOnDisk DEF OnDisk, Parts
  <2>3. /\ o.path = w \o e.path /\ Len(o.path) = Len(w) + Len(e.path)
        /\ \A i \in 1 .. Len(w) + Len(e.path) :
             (w \o e.path)[i] = IF i <= Len(w) THEN w[i] ELSE e.path[i - Len(w)]
    BY <1>10, <2>1, <2>2, ConcatProperties DEF Path, Member
  <2>4. Len(e.path) \in Nat
    BY <2>2, LenProperties DEF Path
  <2>5. Outer(o.path, w, 0)
    <3> SUFFICES ASSUME NEW i \in 1 .. Len(w) + Len(e.path)
                 PROVE  IF i + 0 <= Len(w) THEN o.path[i] = w[i + 0] ELSE o.path[i] # ".."
      BY <2>3 DEF Outer
    <3> QED BY <1>10, <2>2, <2>3, <2>4
  <2> QED BY <1>11, <2>5
<1>13. ASSUME o \in Litter(t)
       PROVE  Junk \in Parts(d) \/ Outer(d, w, 0)
  <2>1. CASE o.path = w \o <<Junk>>
    <3>1. <<Junk>> \in Path /\ Len(<<Junk>>) = 1
      BY PathsOnDisk, OneName
    <3>2. /\ Len(o.path) = Len(w) + 1
          /\ \A i \in 1 .. Len(w) : o.path[i] = w[i]
      BY <1>10, <2>1, <3>1, ConcatProperties DEF Path
    <3> QED BY <1>6, <1>10, <3>2 DEF Outer
  <2>2. CASE o.path[1] = Junk
    BY <1>6, <2>2 DEF Parts
  <2> QED BY <1>13, <2>1, <2>2, LitterShape DEF w
<1> QED BY <1>1, <1>8, <1>9, <1>12, <1>13 DEF Shape, w

(* Every line of the tool's list is one of the three.                      *)
LEMMA ListedShape ==
  ASSUME OnDisk, NEW p \in Projects, NEW t \in Tools, NEW m \in Listed(p, t)
  PROVE  Shape(m, p, t)
<1>1. m \in Inside(p, t) \cup Litter(t) \/ m \in Directories(Inside(p, t) \cup Litter(t))
  BY DEF Listed
<1> QED BY <1>1, InsideShape, LitterShape, DirectoryShape

(* A path without its first name.                                          *)
LEMMA TailFacts ==
  ASSUME NEW path \in Path, path # Nothing
  PROVE  /\ Tail(path) \in Path /\ Len(path) \in Nat \ {0} /\ Len(Tail(path)) = Len(path) - 1
         /\ \A i \in 1 .. Len(path) - 1 : Tail(path)[i] = path[i + 1]
         /\ Len(path) > 1 => Tail(path) # Nothing
<1>1. Len(path) \in Nat \ {0}
  BY LenProperties, EmptySeq DEF Path, Nothing
<1>2. /\ Tail(path) \in Path /\ Len(Tail(path)) = Len(path) - 1
      /\ \A i \in 1 .. Len(Tail(path)) : Tail(path)[i] = path[i + 1]
  BY HeadTailProperties DEF Path, Nothing
<1> QED BY <1>1, <1>2 DEF Nothing

(* The "./" that tar writes is what CleanPath takes off.                   *)
LEMMA DotFacts ==
  ASSUME NEW v \in Path
  PROVE  LET d == <<".">> \o v
         IN  d \in Path /\ d # Nothing /\ d[1] = "." /\ CleanPath(d) = v
<1> DEFINE d == <<".">> \o v
<1>1. <<".">> \in Path /\ Len(<<".">>) = 1 /\ Len(v) \in Nat
  BY OneName, LenProperties DEF Path, Text
<1>2. /\ d \in Path /\ Len(d) = 1 + Len(v)
      /\ \A i \in 1 .. 1 + Len(v) : d[i] = IF i <= 1 THEN <<".">>[i] ELSE v[i - 1]
  BY <1>1, ConcatProperties DEF Path
<1> HIDE DEF d
<1>3. d # Nothing /\ d[1] = "."
  BY <1>1, <1>2 DEF Nothing
<1>4. Tail(d) \in Path /\ Len(Tail(d)) = Len(v) /\ \A i \in 1 .. Len(v) : Tail(d)[i] = v[i]
  BY <1>1, <1>2, <1>3, TailFacts
<1>5. Tail(d) = v
  BY <1>4, SeqEqual DEF Path
<1> QED BY <1>2, <1>3, <1>5 DEF CleanPath, d

(* Every member of the archive is one of those, or the "./" of tar.        *)
LEMMA ArchivedShape ==
  ASSUME OnDisk, NEW p \in Projects, NEW t \in Tools, NEW m \in Archived(p, t)
  PROVE  /\ m \in MemberType
         /\ t.form = "zip" => CleanPath(m.path) = m.path
         /\ \/ \E l \in Listed(p, t) :
                 m.kind = l.kind /\ m.data = l.data /\ CleanPath(m.path) = l.path
            \/ m.kind = "dir" /\ CleanPath(m.path) = Nothing
<1>1. ASSUME NEW l \in Listed(p, t), m = l
      PROVE  m \in MemberType /\ CleanPath(m.path) = m.path
  <2>1. l \in MemberType /\ "." \notin Parts(l.path)
    BY ListedShape DEF Shape
  <2>2. l.path \in Path /\ l.path # Nothing
    BY <2>1 DEF MemberType
  <2>3. Len(l.path) \in Nat \ {0}
    BY <2>2, TailFacts
  <2>4. l.path[1] # "."
    BY <2>1, <2>3 DEF Parts
  <2> QED BY <1>1, <2>1, <2>4 DEF CleanPath
<1>2. CASE ~ t.dot
  <2>1. m \in Listed(p, t)
    BY <1>2 DEF Archived
  <2> QED BY <1>1, <2>1
<1>3. CASE t.dot
  <2>1. t.form # "zip"
    BY <1>3, ToolFacts
  <2>2. ASSUME NEW l \in Listed(p, t), m = [l EXCEPT !.path = <<".">> \o @]
        PROVE  m \in MemberType /\ m.kind = l.kind /\ m.data = l.data /\ CleanPath(m.path) = l.path
    <3>1. l \in MemberType /\ l.path \in Path
      BY ListedShape DEF Shape, MemberType
    <3>2. /\ <<".">> \o l.path \in Path /\ <<".">> \o l.path # Nothing
          /\ CleanPath(<<".">> \o l.path) = l.path
      BY <3>1, DotFacts
    <3>3. m.path = <<".">> \o l.path /\ m.kind = l.kind /\ m.data = l.data
      BY <2>2, <3>1 DEF MemberType
    <3>4. m = [path |-> m.path, kind |-> m.kind, data |-> m.data]
      BY <2>2, <3>1 DEF MemberType
    <3> QED BY <3>1, <3>2, <3>3, <3>4 DEF MemberType
  <2>3. ASSUME m = Member(<<".">>, "dir", Nothing)
        PROVE  m \in MemberType /\ m.kind = "dir" /\ CleanPath(m.path) = Nothing
    <3>1. Nothing \in Path /\ <<".">> \o Nothing = <<".">>
      BY EmptySeq, ConcatEmptySeq DEF Path, Nothing
    <3>2. <<".">> \in Path /\ <<".">> # Nothing /\ CleanPath(<<".">>) = Nothing
      BY <3>1, DotFacts
    <3> QED BY <2>3, <3>1, <3>2 DEF Member, MemberType, Kinds
  <2> QED BY <1>3, <2>1, <2>2, <2>3 DEF Archived
<1> QED BY <1>2, <1>3

(* Every entry of the project that the tool packs is a member.             *)
LEMMA ArchivedHas ==
  ASSUME OnDisk, NEW p \in Projects, NEW t \in Tools, NEW e \in p, e.kind = "dir" => t.dirs
  PROVE  \E m \in Archived(p, t) :
           /\ m.kind = e.kind /\ m.data = Data(e)
           /\ CleanPath(m.path) = t.wrapper \o e.path
<1> DEFINE l == Member(t.wrapper \o e.path, e.kind, IF e.kind = "file" THEN e.path ELSE Nothing)
<1>1. l \in Inside(p, t) /\ l \in Listed(p, t)
  BY DEF Inside, Listed
<1>2. l.path = t.wrapper \o e.path /\ l.kind = e.kind /\ l.data = Data(e)
  BY DEF Member, Data
<1> HIDE DEF l
<1>3. l \in MemberType /\ l.path \in Path
  BY <1>1, ListedShape DEF Shape, MemberType
<1>4. CASE t.dot
  <2> DEFINE m == [l EXCEPT !.path = <<".">> \o @]
  <2>1. m \in Archived(p, t)
    BY <1>1, <1>4 DEF Archived
  <2>2. m.path = <<".">> \o l.path /\ m.kind = l.kind /\ m.data = l.data
    BY <1>3 DEF MemberType
  <2>3. CleanPath(m.path) = l.path
    BY <1>3, <2>2, DotFacts
  <2> QED BY <1>2, <2>1, <2>2, <2>3
<1>5. CASE ~ t.dot
  <2>1. l \in Archived(p, t)
    BY <1>1, <1>5 DEF Archived
  <2>2. "." \notin Parts(l.path) /\ l.path # Nothing
    BY <1>1, ListedShape DEF Shape, MemberType
  <2>3. Len(l.path) \in Nat \ {0}
    BY <1>3, <2>2, TailFacts
  <2>4. CleanPath(l.path) = l.path
    BY <2>2, <2>3 DEF CleanPath, Parts
  <2> QED BY <1>2, <2>1, <2>4
<1> QED BY <1>4, <1>5, ToolFacts

(* The name in a header is the path, or where the fields end a part of it. *)
LEMMA HeaderFacts ==
  ASSUME OnDisk, NEW path \in Path, path # Nothing
  PROVE  LET h == HeaderName(path)
         IN  /\ h \in Path /\ h # Nothing /\ Len(h) <= Len(path)
             /\ \A i \in 1 .. Len(h) : h[i] = path[i]
             /\ Len(path) <= NameMax + PrefixMax \/ tool.long = "gnu" => h = path
<1> DEFINE n == NameMax + PrefixMax
<1>1. n \in Nat /\ n > 0
  BY DEF OnDisk
<1>2. Len(path) \in Nat \ {0} /\ \A i \in 1 .. Len(path) : path[i] \in Text
  BY TailFacts, ElementOfSeq DEF Path
<1>3. CASE Len(path) <= n \/ tool.long = "gnu"
  BY <1>2, <1>3 DEF HeaderName
<1>4. CASE ~ (Len(path) <= n \/ tool.long = "gnu")
  <2> DEFINE h == SubSeq(path, 1, n)
  <2>1. HeaderName(path) = h
    BY <1>4 DEF HeaderName
  <2>2. \A i \in 1 .. n : path[i] \in Text
    BY <1>1, <1>2, <1>4
  <2>3. h \in Path /\ Len(h) = n /\ \A i \in 1 .. n : h[i] = path[i]
    BY <1>1, <2>2, SubSeqProperties DEF Path
  <2> HIDE DEF h
  <2>4. h # Nothing
    BY <1>1, <2>3 DEF Nothing
  <2> QED BY <1>1, <1>2, <1>4, <2>1, <2>3, <2>4
<1> QED BY <1>3, <1>4

(* The same for the path that is read of the member.                       *)
LEMMA CleanFacts ==
  ASSUME OnDisk, NEW path \in Path, path # Nothing
  PROVE  LET c == CleanPath(path)
             h == CleanPath(HeaderName(path))
         IN  /\ c \in Path /\ h \in Path /\ Len(h) <= Len(c)
             /\ \A i \in 1 .. Len(h) : h[i] = c[i]
             /\ Len(path) <= NameMax + PrefixMax \/ tool.long = "gnu" => h = c
<1> DEFINE name == HeaderName(path)
           c == CleanPath(path)
           h == CleanPath(name)
<1>1. /\ name \in Path /\ name # Nothing /\ Len(name) <= Len(path)
      /\ \A i \in 1 .. Len(name) : name[i] = path[i]
      /\ Len(path) <= NameMax + PrefixMax \/ tool.long = "gnu" => name = path
  BY HeaderFacts
<1> HIDE DEF name
<1>2. /\ Tail(path) \in Path /\ Len(path) \in Nat \ {0} /\ Len(Tail(path)) = Len(path) - 1
      /\ \A i \in 1 .. Len(path) - 1 : Tail(path)[i] = path[i + 1]
  BY TailFacts
<1>3. /\ Tail(name) \in Path /\ Len(name) \in Nat \ {0} /\ Len(Tail(name)) = Len(name) - 1
      /\ \A i \in 1 .. Len(name) - 1 : Tail(name)[i] = name[i + 1]
  BY <1>1, TailFacts
<1>4. name[1] = path[1]
  BY <1>1, <1>3
<1>5. /\ c = IF path[1] = "." THEN Tail(path) ELSE path
      /\ h = IF path[1] = "." THEN Tail(name) ELSE name
  BY <1>4 DEF CleanPath
<1> HIDE DEF c, h
<1>6. c \in Path /\ h \in Path /\ Len(h) <= Len(c)
  BY <1>1, <1>2, <1>3, <1>5
<1>7. \A i \in 1 .. Len(h) : h[i] = c[i]
  <2>1. CASE path[1] = "."
    BY <1>1, <1>2, <1>3, <1>5, <2>1
  <2>2. CASE path[1] # "."
    BY <1>1, <1>5, <2>2
  <2> QED BY <2>1, <2>2
<1>8. Len(path) <= NameMax + PrefixMax \/ tool.long = "gnu" => h = c
  BY <1>1, <1>5
<1> QED BY <1>6, <1>7, <1>8 DEF c, h, name

-----------------------------------------------------------------------------
(* The types, with what names are made of.                                 *)
TypeInv ==
  /\ project \in Projects /\ tool \in Tools /\ stage \in Stages
  /\ flattened \in 0 .. MaxFlatten + 1
  /\ upload \subseteq MemberType /\ tgz \subseteq MemberType /\ first \subseteq MemberType
  /\ files \subseteq FileType

(* What becomes of a member.                                               *)
Carries(f, m) ==
  /\ f.isDir = (m.kind = "dir") /\ f.data = m.data
  /\ tool.form = "zip" => f.path = m.path
  /\ tool.form = "tar" =>
       f.path = CleanPath(HeaderName(m.path)) /\ m.kind # "link" /\ Listable(f.path)

(* Every entry of the list is read of a member.                            *)
LEMMA Extracted ==
  ASSUME OnDisk, TypeInv, Extract, stage' = "unwrapping", NEW f \in files'
  PROVE  /\ f \in FileType /\ ~ IsJunk(f.path)
         /\ \E m \in upload : Carries(f, m)
<1>1. f \in (IF tool.form = "zip" THEN ZipEntries ELSE TgzEntries) /\ ~ IsJunk(f.path)
  BY DEF Extract, Refuse
<1>2. CASE tool.form = "zip"
  <2>1. PICK m \in upload : f = [path |-> m.path, isDir |-> m.kind = "dir", data |-> m.data]
    BY <1>1, <1>2 DEF ZipEntries
  <2>2. m \in MemberType
    BY DEF TypeInv
  <2> QED BY <1>1, <1>2, <2>1, <2>2 DEF Carries, MemberType, FileType
<1>3. CASE tool.form = "tar"
  <2>1. PICK m \in upload :
          /\ m.kind # "link" /\ Listable(CleanPath(HeaderName(m.path)))
          /\ f = [path |-> CleanPath(HeaderName(m.path)), isDir |-> m.kind = "dir",
                  data |-> m.data]
    BY <1>1, <1>3 DEF TgzEntries
  <2>2. m.path \in Path /\ m.path # Nothing /\ m.data \in Path
    BY DEF TypeInv, MemberType
  <2>3. CleanPath(HeaderName(m.path)) \in Path
    BY <2>2, CleanFacts
  <2> QED BY <1>1, <1>3, <2>1, <2>2, <2>3 DEF Carries, FileType, Listable, Nothing
<1> QED BY <1>2, <1>3, ToolFacts DEF TypeInv

(* Nobody's but the members the filters drop are missing.                  *)
LEMMA ExtractedHas ==
  ASSUME OnDisk, TypeInv, Extract, stage' = "unwrapping", NEW m \in upload, NEW path,
         ~ IsJunk(path),
         tool.form = "zip" => path = m.path,
         tool.form = "tar" => /\ path = CleanPath(HeaderName(m.path))
                              /\ m.kind # "link" /\ Listable(path)
  PROVE  [path |-> path, isDir |-> m.kind = "dir", data |-> m.data] \in files'
<1> DEFINE f == [path |-> path, isDir |-> m.kind = "dir", data |-> m.data]
<1>1. f \in (IF tool.form = "zip" THEN ZipEntries ELSE TgzEntries)
  <2>1. CASE tool.form = "zip"
    BY <2>1 DEF ZipEntries
  <2>2. CASE tool.form = "tar"
    BY <2>2 DEF TgzEntries
  <2> QED BY <2>1, <2>2, ToolFacts DEF TypeInv
<1>2. files' = {g \in (IF tool.form = "zip" THEN ZipEntries ELSE TgzEntries) : ~ IsJunk(g.path)}
  BY DEF Extract, Refuse
<1>3. ~ IsJunk(f.path)
  OBVIOUS
<1> QED BY <1>1, <1>2, <1>3

(* One level comes off every entry but the wrapper's own.                  *)
LEMMA UnwrappedFacts ==
  ASSUME TypeInv, Unwrap
  PROVE  /\ \A g \in files' : \E f \in files :
              /\ Len(f.path) > 1 /\ g.path = Tail(f.path) /\ g.isDir = f.isDir /\ g.data = f.data
              /\ g \in FileType
         /\ \A f \in files : Len(f.path) > 1 => \E g \in files' :
              g.path = Tail(f.path) /\ g.isDir = f.isDir /\ g.data = f.data
<1>1. files' = {[f EXCEPT !.path = Tail(@)] : f \in {f \in files : Len(f.path) > 1}}
  BY DEF Unwrap
<1>2. ASSUME NEW f \in files, Len(f.path) > 1
      PROVE  LET g == [f EXCEPT !.path = Tail(@)]
             IN  g.path = Tail(f.path) /\ g.isDir = f.isDir /\ g.data = f.data /\ g \in FileType
  <2>1. f \in FileType /\ f.path \in Path /\ f.path # Nothing
    BY DEF TypeInv, FileType
  <2>2. Tail(f.path) \in Path /\ Tail(f.path) # Nothing
    BY <1>2, <2>1, TailFacts
  <2> QED BY <2>1, <2>2 DEF FileType
<1> QED BY <1>1, <1>2

(* Every step keeps the types.                                             *)
LEMMA TypeStep ==
  ASSUME OnDisk, TypeInv, [ArchiveNext]_archiveVars
  PROVE  TypeInv'
<1> USE DEF TypeInv, Stages
<1>1. CASE Extract
  <2>1. CASE stage' = "unwrapping"
    <3>1. files' \subseteq FileType
      BY <1>1, <2>1, Extracted
    <3>2. flattened' = 0 /\ UNCHANGED <<tgz, project, tool, upload, first>>
      BY <1>1, <2>1 DEF Extract, Refuse
    <3> QED BY <2>1, <3>1, <3>2 DEF OnDisk
  <2>2. CASE stage' # "unwrapping"
    BY <1>1, <2>2 DEF Extract, Refuse
  <2> QED BY <2>1, <2>2
<1>2. CASE Unwrap
  <2>1. files' \subseteq FileType
    BY <1>2, UnwrappedFacts
  <2> QED BY <1>2, <2>1 DEF Unwrap, MayUnwrap, OnDisk
<1>3. CASE Pack
  <2>1. \A f \in files : Member(f.path, IF f.isDir THEN "dir" ELSE "file", f.data) \in MemberType
    BY DEF Member, MemberType, FileType, Kinds
  <2> QED BY <1>3, <2>1 DEF Pack, Refuse
<1>4. CASE Reupload
  <2>1. [tool EXCEPT !.form = "tar", !.dirs = TRUE, !.long = "gnu"] \in Tools
    BY DEF Tools
  <2> QED BY <1>4, <2>1 DEF Reupload
<1>5. CASE UNCHANGED archiveVars
  BY <1>5 DEF archiveVars
<1> QED BY <1>1, <1>2, <1>3, <1>4, <1>5 DEF ArchiveNext

(* The tool's archive has them.                                            *)
LEMMA TypeInit ==
  ASSUME OnDisk, ArchiveInit
  PROVE  TypeInv
<1>1. tool \in Tools /\ project \in Projects /\ upload \subseteq MemberType
  BY ArchivedShape DEF ArchiveInit
<1> QED BY <1>1 DEF ArchiveInit, TypeInv, Stages, OnDisk

(* No path is empty, no kind unknown, and the guard of the loop holds.     *)
THEOREM ArchiveTypes == ArchiveSpec => []ArchiveTypeOK
<1>1. ArchiveInit => TypeInv
  BY ArchiveAssumption, TypeInit
<1>2. TypeInv /\ [ArchiveNext]_archiveVars => TypeInv'
  BY ArchiveAssumption, TypeStep
<1>3. TypeInv => ArchiveTypeOK
  BY DEF TypeInv, ArchiveTypeOK, MemberType, FileType, Nothing
<1> QED BY <1>1, <1>2, <1>3, PTL DEF ArchiveSpec

-----------------------------------------------------------------------------
(* The list while wrapping folders are taken off.                          *)
(* Entry f of the list is entry e of the project, below what is left.      *)
Source(f, e, w, k) ==
  f.path = Rest(w, k) \o e.path /\ f.isDir = (e.kind = "dir") /\ f.data = Data(e)

(* Where an entry lies, and whose it is.                                   *)
Placed(f) ==
  /\ Outer(f.path, tool.wrapper, flattened)
  /\ ~ f.isDir =>
       /\ Len(f.path) + flattened > Len(tool.wrapper)
       /\ flattened <= Len(tool.wrapper) =>
            \E e \in Kept : Source(f, e, tool.wrapper, flattened)

OnlyFolders == \A f \in files : f.isDir

(* The filters leave a wrapper whose name they know nothing, tar's also    *)
(* one beside the directory it was started in.                             *)
Passes == ~ IsJunk(tool.wrapper) /\ (tool.form = "tar" => ".." \notin Parts(tool.wrapper))

(* Nothing of the project is missing, or nothing is left of it at all.     *)
Complete ==
  IF Passes THEN flattened <= Len(tool.wrapper) =>
                   \A e \in Kept : \E f \in files : Source(f, e, tool.wrapper, flattened)
  ELSE OnlyFolders

Layout == (\A f \in files : Placed(f)) /\ Complete

(* Taking a name off a path below the wrapper takes it off the wrapper.    *)
LEMMA RestFacts ==
  ASSUME NEW w \in Path, NEW p \in Path, NEW k \in 0 .. Len(w)
  PROVE  /\ Rest(w, k) \o p \in Path
         /\ Len(Rest(w, k) \o p) = Len(w) - k + Len(p)
         /\ k = 0 => Rest(w, k) = w
         /\ k = Len(w) => Rest(w, k) \o p = p
         /\ k < Len(w) => Tail(Rest(w, k) \o p) = Rest(w, k + 1) \o p
<1>1. Len(w) \in Nat /\ Len(p) \in Nat /\ \A i \in 1 .. Len(w) : w[i] \in Text
  BY LenProperties, ElementOfSeq DEF Path
<1>2. ASSUME NEW j \in 0 .. Len(w)
      PROVE  /\ Rest(w, j) \in Path /\ Len(Rest(w, j)) = Len(w) - j
             /\ \A i \in 1 .. Len(w) - j : Rest(w, j)[i] = w[i + j]
             /\ Rest(w, j) \o p \in Path /\ Len(Rest(w, j) \o p) = Len(w) - j + Len(p)
             /\ \A i \in 1 .. Len(w) - j + Len(p) :
                  (Rest(w, j) \o p)[i] = IF i <= Len(w) - j THEN w[i + j] ELSE p[i - (Len(w) - j)]
  <2>1. \A i \in j + 1 .. Len(w) : w[i] \in Text
    BY <1>1
  <2>2. /\ Rest(w, j) \in Path /\ Len(Rest(w, j)) = Len(w) - j
        /\ \A i \in 1 .. Len(w) - j : Rest(w, j)[i] = w[i + j]
    <3>1. /\ Rest(w, j) \in Path
          /\ Len(Rest(w, j)) = IF j + 1 <= Len(w) THEN Len(w) - (j + 1) + 1 ELSE 0
          /\ \A i \in 1 .. Len(w) - (j + 1) + 1 : Rest(w, j)[i] = w[(j + 1) + i - 1]
      BY <1>1, <2>1, SubSeqProperties DEF Rest, Path
    <3> QED BY <1>1, <3>1
  <2>3. /\ Rest(w, j) \o p \in Path /\ Len(Rest(w, j) \o p) = Len(Rest(w, j)) + Len(p)
        /\ \A i \in 1 .. Len(Rest(w, j)) + Len(p) :
             (Rest(w, j) \o p)[i] =
               IF i <= Len(Rest(w, j)) THEN Rest(w, j)[i] ELSE p[i - Len(Rest(w, j))]
    BY <2>2, ConcatProperties DEF Path
  <2> QED BY <1>1, <2>2, <2>3
<1>3. k = 0 => Rest(w, k) = w
  BY SubSeqFull DEF Rest, Path
<1>4. k = Len(w) => Rest(w, k) \o p = p
  <2>1. k = Len(w) => Rest(w, k) = << >>
    BY <1>1, SubSeqEmpty DEF Rest
  <2> QED BY <2>1, ConcatEmptySeq DEF Path
<1>5. ASSUME k < Len(w)
      PROVE  Tail(Rest(w, k) \o p) = Rest(w, k + 1) \o p
  <2> DEFINE s == Rest(w, k) \o p
             t == Rest(w, k + 1) \o p
  <2>1. /\ s \in Path /\ Len(s) = Len(w) - k + Len(p)
        /\ \A i \in 1 .. Len(w) - k + Len(p) :
             s[i] = IF i <= Len(w) - k THEN w[i + k] ELSE p[i - (Len(w) - k)]
    BY <1>2
  <2>2. k + 1 \in 0 .. Len(w)
    BY <1>1, <1>5
  <2>3. /\ t \in Path /\ Len(t) = Len(w) - (k + 1) + Len(p)
        /\ \A i \in 1 .. Len(w) - (k + 1) + Len(p) :
             t[i] = IF i <= Len(w) - (k + 1) THEN w[i + (k + 1)] ELSE p[i - (Len(w) - (k + 1))]
    BY <1>2, <2>2
  <2> HIDE DEF s, t
  <2>4. s # Nothing
    BY <1>1, <1>5, <2>1 DEF Nothing
  <2>5. /\ Tail(s) \in Path /\ Len(Tail(s)) = Len(s) - 1
        /\ \A i \in 1 .. Len(s) - 1 : Tail(s)[i] = s[i + 1]
    BY <2>1, <2>4, TailFacts
  <2>6. Len(Tail(s)) = Len(t) /\ \A i \in 1 .. Len(Tail(s)) : Tail(s)[i] = t[i]
    BY <1>1, <1>5, <2>1, <2>3, <2>5
  <2>7. Tail(s) = t
    BY <2>3, <2>5, <2>6, SeqEqual DEF Path
  <2> QED BY <2>7 DEF s, t
<1> QED BY <1>2, <1>3, <1>4, <1>5

(* A kept entry of the project.                                            *)
LEMMA KeptFacts ==
  ASSUME OnDisk, TypeInv, NEW e \in Kept
  PROVE  /\ e \in project /\ ~ IsJunk(e.path) /\ e.path \in Path /\ e.path # Nothing
         /\ Len(e.path) \in Nat \ {0} /\ Data(e) \in Path
         /\ e.kind \in Kinds /\ ".." \notin Parts(e.path)
         /\ e.kind = "dir" => tool.dirs
         /\ e.kind = "link" => tool.form = "zip"
<1>1. e \in project /\ project \in Projects
  BY DEF Kept, TypeInv
<1>2. e.path \in Path /\ e.path # Nothing /\ e.kind \in Kinds /\ Nothing \in Path
  BY <1>1, PathsOnDisk, EmptySeq DEF Path, Nothing
<1>3. ".." \notin Parts(e.path)
  BY <1>1 DEF OnDisk
<1> QED BY <1>1, <1>2, <1>3, TailFacts DEF Kept, Data

(* Taking a folder off leaves the list laid out one level further.         *)
LEMMA UnwrapLays ==
  ASSUME OnDisk, TypeInv, Layout, Unwrap
  PROVE  Layout'
<1> DEFINE w == tool.wrapper
           k == flattened
<1>1. w \in Path /\ Len(w) \in Nat /\ k \in Nat
  BY ToolFacts, LenProperties DEF TypeInv, Path, OnDisk
<1>2. flattened' = k + 1 /\ tool' = tool /\ project' = project
  BY DEF Unwrap
<1>3. Kept' = Kept /\ (Passes' <=> Passes)
  BY <1>2 DEF Kept, Passes
<1>4. ASSUME NEW e \in Kept, k < Len(w), NEW f \in files, Source(f, e, w, k), NEW g,
             Len(f.path) > 1 => g.path = Tail(f.path) /\ g.isDir = f.isDir /\ g.data = f.data
      PROVE  Len(f.path) > 1 /\ Source(g, e, w, k + 1)
  <2>1. e.path \in Path /\ Len(e.path) \in Nat \ {0}
    BY KeptFacts
  <2> HIDE DEF w, k
  <2>2. k \in 0 .. Len(w)
    BY <1>1, <1>4
  <2>3. /\ Len(Rest(w, k) \o e.path) = Len(w) - k + Len(e.path)
        /\ Tail(Rest(w, k) \o e.path) = Rest(w, k + 1) \o e.path
    BY <1>1, <1>4, <2>1, <2>2, RestFacts
  <2>4. f.path = Rest(w, k) \o e.path /\ f.isDir = (e.kind = "dir") /\ f.data = Data(e)
    BY <1>4 DEF Source
  <2>5. Len(f.path) > 1
    BY <1>1, <1>4, <2>1, <2>3, <2>4
  <2> QED BY <1>4, <2>3, <2>4, <2>5 DEF Source
<1>5. ASSUME NEW g \in files'
      PROVE  Placed(g)'
  <2>1. PICK f \in files :
          Len(f.path) > 1 /\ g.path = Tail(f.path) /\ g.isDir = f.isDir /\ g.data = f.data
    BY <1>5, UnwrappedFacts
  <2>2. f.path \in Path /\ f.path # Nothing /\ Placed(f)
    BY DEF TypeInv, FileType, Layout
  <2>3. /\ Len(f.path) \in Nat /\ Len(g.path) = Len(f.path) - 1
        /\ \A i \in 1 .. Len(f.path) - 1 : g.path[i] = f.path[i + 1]
    BY <2>1, <2>2, TailFacts
  <2>4. Outer(g.path, w, k + 1)
    <3>1. Outer(f.path, w, k)
      BY <2>2 DEF Placed
    <3> SUFFICES ASSUME NEW i \in 1 .. Len(f.path) - 1
                 PROVE  IF i + (k + 1) <= Len(w) THEN g.path[i] = w[i + (k + 1)] ELSE g.path[i] # ".."
      BY <2>3 DEF Outer
    <3>2. /\ i + 1 \in 1 .. Len(f.path) /\ (i + 1) + k = i + (k + 1)
      BY <1>1, <2>3
    <3>3. IF (i + 1) + k <= Len(w) THEN f.path[i + 1] = w[(i + 1) + k] ELSE f.path[i + 1] # ".."
      BY <3>1, <3>2 DEF Outer
    <3> QED BY <2>3, <3>2, <3>3
  <2>5. ASSUME ~ g.isDir
        PROVE  /\ Len(g.path) + (k + 1) > Len(w)
               /\ k + 1 <= Len(w) => \E e \in Kept : Source(g, e, w, k + 1)
    <3>1. Len(f.path) + k > Len(w) /\ (k <= Len(w) => \E e \in Kept : Source(f, e, w, k))
      BY <2>1, <2>2, <2>5 DEF Placed
    <3>2. Len(g.path) + (k + 1) > Len(w)
      <4> DEFINE n == Len(f.path)
                 h == Len(g.path)
                 l == Len(w)
      <4>1. n \in Nat /\ k \in Nat /\ l \in Nat /\ h = n - 1 /\ n + k > l
        BY <1>1, <2>3, <3>1
      <4> HIDE DEF n, h, l, k
      <4>2. h + (k + 1) > l
        BY <4>1
      <4> QED BY <4>2 DEF n, h, l, k
    <3>3. ASSUME k + 1 <= Len(w)
          PROVE  \E e \in Kept : Source(g, e, w, k + 1)
      <4>1. k <= Len(w) /\ k < Len(w)
        BY <1>1, <3>3
      <4>2. PICK e \in Kept : Source(f, e, w, k)
        BY <3>1, <4>1
      <4> QED BY <1>4, <2>1, <4>1, <4>2
    <3> QED BY <3>2, <3>3
  <2> QED BY <1>2, <1>3, <2>4, <2>5 DEF Placed
<1>6. Complete'
  <2>1. ASSUME Passes, k + 1 <= Len(w), NEW e \in Kept
        PROVE  \E g \in files' : Source(g, e, w, k + 1)
    <3>1. k <= Len(w) /\ k < Len(w)
      BY <1>1, <2>1
    <3>2. PICK f \in files : Source(f, e, w, k)
      BY <2>1, <3>1 DEF Layout, Complete
    <3>3. k < Len(w) /\ Len(f.path) > 1
      BY <1>1, <1>4, <2>1, <3>2
    <3>4. PICK g \in files' : g.path = Tail(f.path) /\ g.isDir = f.isDir /\ g.data = f.data
      BY <3>3, UnwrappedFacts
    <3> QED BY <1>4, <3>2, <3>3, <3>4
  <2>2. ASSUME ~ Passes
        PROVE  OnlyFolders'
    <3>1. OnlyFolders
      BY <2>2 DEF Layout, Complete
    <3> QED BY <3>1, UnwrappedFacts DEF OnlyFolders
  <2> QED BY <1>2, <1>3, <2>1, <2>2 DEF Complete
<1> QED BY <1>5, <1>6 DEF Layout

(* While a wrapping folder is left, the loop sees one.                     *)
LEMMA WrapperSeen ==
  ASSUME OnDisk, TypeInv, \A f \in files : Placed(f), flattened < Len(tool.wrapper), files # {}
  PROVE  HasWrapper(files)
<1> DEFINE root == tool.wrapper[flattened + 1]
<1>1. flattened \in Nat /\ Len(tool.wrapper) \in Nat
  BY ToolFacts, LenProperties DEF TypeInv, Path, OnDisk
<1>2. ASSUME NEW f \in files
      PROVE  f.path[1] = root /\ (Len(f.path) = 1 => f.isDir)
  <2>1. f.path \in Path /\ f.path # Nothing /\ f.isDir \in BOOLEAN /\ Len(f.path) \in Nat \ {0}
    BY TailFacts DEF TypeInv, FileType
  <2>2. 1 + flattened <= Len(tool.wrapper) /\ 1 \in 1 .. Len(f.path)
    BY <1>1, <2>1
  <2>3. f.path[1] = tool.wrapper[1 + flattened]
    BY <2>2 DEF Placed, Outer
  <2>4. ~ f.isDir => Len(f.path) + flattened > Len(tool.wrapper)
    BY DEF Placed
  <2>5. f.path[1] = root
    BY <1>1, <2>3
  <2>6. Len(f.path) = 1 => f.isDir
    BY <1>1, <2>1, <2>4
  <2> QED BY <2>5, <2>6
<1> QED BY <1>2 DEF HasWrapper

(* The names of a path are those of its parts.                             *)
LEMMA ConcatNames ==
  ASSUME NEW u \in Path, NEW v \in Path
  PROVE  Parts(u \o v) = Parts(u) \cup Parts(v)
<1>1. Len(u) \in Nat /\ Len(v) \in Nat
  BY LenProperties DEF Path
<1>2. /\ Len(u \o v) = Len(u) + Len(v)
      /\ \A i \in 1 .. Len(u) + Len(v) : (u \o v)[i] = IF i <= Len(u) THEN u[i] ELSE v[i - Len(u)]
  BY ConcatProperties DEF Path
<1>3. ASSUME NEW i \in 1 .. Len(u)
      PROVE  u[i] \in Parts(u \o v)
  <2>1. i \in 1 .. Len(u \o v) /\ (u \o v)[i] = u[i]
    BY <1>1, <1>2
  <2> QED BY <2>1 DEF Parts
<1>4. ASSUME NEW i \in 1 .. Len(v)
      PROVE  v[i] \in Parts(u \o v)
  <2> DEFINE j == i + Len(u)
  <2>1. j \in 1 .. Len(u \o v) /\ j - Len(u) = i /\ ~ (j <= Len(u))
    BY <1>1, <1>2
  <2> HIDE DEF j
  <2>2. (u \o v)[j] = v[i]
    BY <1>2, <2>1
  <2> QED BY <2>1, <2>2 DEF Parts
<1>5. ASSUME NEW i \in 1 .. Len(u \o v)
      PROVE  (u \o v)[i] \in Parts(u) \cup Parts(v)
  <2>1. CASE i <= Len(u)
    BY <1>1, <1>2, <2>1 DEF Parts
  <2>2. CASE ~ (i <= Len(u))
    <3>1. i - Len(u) \in 1 .. Len(v) /\ (u \o v)[i] = v[i - Len(u)]
      BY <1>1, <1>2, <2>2
    <3> QED BY <3>1 DEF Parts
  <2> QED BY <2>1, <2>2
<1> QED BY <1>3, <1>4, <1>5 DEF Parts

(* What is read of a member of a first upload whose name the header holds. *)
LEMMA ReadFacts ==
  ASSUME OnDisk, TypeInv, upload = Archived(project, tool), Legible, NEW m \in upload
  PROVE  /\ m.path \in Path /\ m.path # Nothing
         /\ tool.form = "zip" => CleanPath(m.path) = m.path
         /\ tool.form = "tar" => CleanPath(HeaderName(m.path)) = CleanPath(m.path)
<1>1. m.path \in Path /\ m.path # Nothing
  BY DEF TypeInv, MemberType
<1>2. tool.form = "zip" => CleanPath(m.path) = m.path
  BY ArchivedShape DEF TypeInv
<1>3. tool.form = "tar" => Len(m.path) <= NameMax + PrefixMax \/ tool.long = "gnu"
  BY DEF Legible, TypeInv, Tools
<1> QED BY <1>1, <1>2, <1>3, CleanFacts

(* As it is read, the list is laid out with all of the wrapper.            *)
LEMMA ExtractLays ==
  ASSUME OnDisk, TypeInv, upload = Archived(project, tool), Legible,
         Extract, stage' = "unwrapping"
  PROVE  Layout'
<1> DEFINE w == tool.wrapper
<1>1. /\ w \in Path /\ Len(w) \in Nat
      /\ project \in Projects /\ tool \in Tools /\ tool.form \in {"zip", "tar"}
  BY ToolFacts, LenProperties DEF TypeInv, Path
<1>2. flattened' = 0 /\ tool' = tool /\ project' = project
  BY DEF Extract, Refuse
<1>3. Kept' = Kept /\ (Passes' <=> Passes)
  BY <1>2 DEF Kept, Passes
<1>4. ASSUME NEW f \in files'
      PROVE  /\ Outer(f.path, w, 0)
             /\ ~ f.isDir => \E e \in Kept : /\ f.path = w \o e.path /\ ~ IsJunk(f.path)
                                             /\ f.data = Data(e) /\ e.kind # "dir"
             /\ tool.form = "tar" => ".." \notin Parts(f.path)
  <2>1. f \in FileType /\ f.path # Nothing /\ ~ IsJunk(f.path)
    BY <1>4, Extracted DEF FileType
  <2>2. PICK m \in upload : Carries(f, m)
    BY <1>4, Extracted
  <2>3. f.path = CleanPath(m.path)
    BY <1>1, <2>2, ReadFacts DEF Carries
  <2>4. PICK l \in Listed(project, tool) :
          m.kind = l.kind /\ m.data = l.data /\ CleanPath(m.path) = l.path
    BY <1>1, <2>1, <2>3, ArchivedShape
  <2>5. Shape(l, project, tool) /\ f.path = l.path
    BY <1>1, <2>3, <2>4, ListedShape
  <2>6. Outer(f.path, w, 0)
    BY <2>1, <2>5 DEF Shape, IsJunk
  <2>7. ASSUME ~ f.isDir
        PROVE  \E e \in Kept : /\ f.path = w \o e.path /\ ~ IsJunk(f.path)
                                 /\ f.data = Data(e) /\ e.kind # "dir"
    <3>1. m.kind # "dir" /\ l.kind # "dir" /\ f.data = l.data
      BY <2>2, <2>4, <2>7 DEF Carries
    <3>2. PICK e \in project : e.kind = l.kind /\ l.path = w \o e.path /\ l.data = Data(e)
      BY <2>1, <2>5, <3>1 DEF Shape, IsJunk
    <3>3. e.path \in Path
      BY <1>1, PathsOnDisk
    <3>4. ~ IsJunk(e.path)
      BY <1>1, <2>1, <2>5, <3>2, <3>3, ConcatNames DEF IsJunk
    <3>5. e.kind = "link" => tool.form = "zip"
      BY <1>1, <2>2, <2>4, <3>2 DEF Carries
    <3>6. e \in Kept
      BY <3>1, <3>2, <3>4, <3>5 DEF Kept
    <3> QED BY <2>1, <2>5, <3>1, <3>2, <3>6
  <2> QED BY <2>2, <2>6, <2>7 DEF Carries, Listable
<1>5. Rest(w, 0) = w
  BY <1>1, SubSeqFull DEF Rest, Path
<1>6. ASSUME NEW f \in files'
      PROVE  Placed(f)'
  <2>1. ASSUME ~ f.isDir
        PROVE  Len(f.path) + 0 > Len(w) /\ \E e \in Kept : Source(f, e, w, 0)
    <3>1. PICK e \in Kept : f.path = w \o e.path /\ f.data = Data(e) /\ e.kind # "dir"
      BY <1>4, <1>6, <2>1
    <3>2. e.path \in Path /\ Len(e.path) \in Nat \ {0}
      BY KeptFacts
    <3>3. Len(f.path) = Len(w) + Len(e.path)
      BY <1>1, <3>1, <3>2, ConcatProperties DEF Path
    <3>4. f.isDir = FALSE /\ (e.kind = "dir") = FALSE
      BY <1>6, <2>1, <3>1, Extracted DEF FileType
    <3>5. Source(f, e, w, 0)
      BY <1>5, <3>1, <3>4 DEF Source
    <3>6. Len(f.path) + 0 > Len(w)
      <4>1. ASSUME NEW a \in Nat, NEW b \in Nat \ {0}
            PROVE  (a + b) + 0 > a
        OBVIOUS
      <4> QED BY <1>1, <3>2, <3>3, <4>1
    <3> QED BY <3>5, <3>6
  <2> QED BY <1>2, <1>3, <1>4, <1>6, <2>1 DEF Placed
<1>7. ASSUME Passes, NEW e \in Kept
      PROVE  \E f \in files' : Source(f, e, w, 0)
  <2>1. /\ e \in project /\ e.path \in Path /\ e.path # Nothing
        /\ ~ IsJunk(e.path) /\ ".." \notin Parts(e.path)
        /\ e.kind = "dir" => tool.dirs
        /\ e.kind = "link" => tool.form = "zip"
        /\ Len(e.path) \in Nat \ {0}
    BY KeptFacts
  <2>2. PICK m \in upload : m.kind = e.kind /\ m.data = Data(e) /\ CleanPath(m.path) = w \o e.path
    BY <1>1, <2>1, ArchivedHas
  <2> DEFINE path == w \o e.path
  <2>3. Parts(path) = Parts(w) \cup Parts(e.path) /\ path # Nothing
    <3>1. Len(path) = Len(w) + Len(e.path)
      BY <1>1, <2>1, ConcatProperties DEF Path
    <3> QED BY <1>1, <2>1, <3>1, ConcatNames DEF Nothing
  <2> HIDE DEF path
  <2>4. ~ IsJunk(path)
    BY <1>7, <2>1, <2>3 DEF IsJunk, Passes
  <2>5. tool.form = "tar" => Listable(path)
    BY <1>7, <2>1, <2>3 DEF Listable, Passes, Nothing
  <2>6. tool.form = "zip" => path = m.path
    BY <2>2, ReadFacts DEF path
  <2>7. tool.form = "tar" => path = CleanPath(HeaderName(m.path)) /\ m.kind # "link"
    BY <2>1, <2>2, ReadFacts DEF path
  <2> DEFINE f == [path |-> path, isDir |-> m.kind = "dir", data |-> m.data]
  <2>8. f \in files'
    BY <2>4, <2>5, <2>6, <2>7, ExtractedHas
  <2>9. Source(f, e, w, 0)
    BY <1>5, <2>2 DEF Source, path
  <2> QED BY <2>8, <2>9
<1>8. ASSUME ~ Passes
      PROVE  OnlyFolders'
  <2>1. ASSUME NEW f \in files', ~ f.isDir
        PROVE  FALSE
    <3>1. PICK e \in Kept : f.path = w \o e.path /\ ~ IsJunk(f.path)
      BY <1>4, <2>1
    <3>2. Parts(f.path) = Parts(w) \cup Parts(e.path)
      BY <1>1, <3>1, KeptFacts, ConcatNames
    <3> QED BY <1>4, <1>8, <2>1, <3>1, <3>2 DEF Passes, IsJunk
  <2> QED BY <2>1 DEF OnlyFolders
<1> QED BY <1>2, <1>3, <1>6, <1>7, <1>8 DEF Layout, Complete

(* All of the wrapper is off, and what is left shows one folder more: the  *)
(* project is that folder.                                                 *)
LEMMA OwnFolder ==
  ASSUME OnDisk, TypeInv, Layout, flattened = Len(tool.wrapper), ~ OnlyFolders, HasWrapper(files)
  PROVE  HasWrapper(Carried)
<1> DEFINE w == tool.wrapper
<1>1. w \in Path /\ Len(w) \in Nat /\ flattened <= Len(w) /\ flattened \in 0 .. Len(w)
  BY ToolFacts, LenProperties DEF TypeInv, Path
<1>2. ASSUME NEW e \in Kept
      PROVE  Rest(w, flattened) \o e.path = e.path
  <2>1. e.path \in Path /\ flattened = Len(w)
    BY KeptFacts
  <2> HIDE DEF w
  <2> QED BY <1>1, <2>1, RestFacts
<1>3. PICK root : \A f \in files : f.path[1] = root /\ (Len(f.path) = 1 => f.isDir)
  BY DEF HasWrapper
<1>4. PICK d \in files : ~ d.isDir
  BY DEF OnlyFolders
<1>5. \E e \in Kept : Source(d, e, w, flattened)
  BY <1>1, <1>4 DEF Layout, Placed
<1>6. \A e \in Kept : \E f \in files : Source(f, e, w, flattened)
  BY <1>1 DEF Layout, Complete
<1>7. ASSUME NEW e \in Kept
      PROVE  e.path[1] = root /\ (Len(e.path) = 1 => e.kind = "dir")
  <2>1. PICK f \in files : f.path = e.path /\ f.isDir = (e.kind = "dir")
    BY <1>2, <1>6 DEF Source
  <2> QED BY <1>3, <2>1
<1>8. ASSUME NEW c \in Carried
      PROVE  c.path[1] = root /\ (Len(c.path) = 1 => c.isDir)
  <2>1. PICK e \in Kept : c = [path |-> e.path, isDir |-> e.kind = "dir"]
    BY DEF Carried
  <2> QED BY <1>7, <2>1
<1>9. \E c \in Carried : c.path[1] = root
  BY <1>5, <1>8 DEF Carried
<1> QED BY <1>8, <1>9 DEF HasWrapper

(* Packed when all of the wrapper is off, the archive holds the project.   *)
LEMMA PackedHolds ==
  ASSUME OnDisk, TypeInv, Layout, flattened = Len(tool.wrapper), ~ OnlyFolders,
         Pack, stage' = "stored"
  PROVE  Content(tgz') = {<<e.path, e.path>> : e \in {e \in Kept : e.kind = "file"}}
<1> DEFINE w == tool.wrapper
<1>1. w \in Path /\ Len(w) \in Nat /\ flattened <= Len(w) /\ flattened \in 0 .. Len(w)
  BY ToolFacts, LenProperties DEF TypeInv, Path
<1>2. ASSUME NEW e \in Kept
      PROVE  Rest(w, flattened) \o e.path = e.path
  <2>1. e.path \in Path /\ flattened = Len(w)
    BY KeptFacts
  <2> HIDE DEF w
  <2> QED BY <1>1, <2>1, RestFacts
<1>3. tgz' = {Member(f.path, IF f.isDir THEN "dir" ELSE "file", f.data) : f \in files}
  BY DEF Pack, Refuse
<1>4. ASSUME NEW m \in tgz', m.kind = "file", m.data # Nothing
      PROVE  \E e \in Kept : e.kind = "file" /\ m.path = e.path /\ m.data = e.path
  <2>1. PICK f \in files : m = Member(f.path, IF f.isDir THEN "dir" ELSE "file", f.data)
    BY <1>3, <1>4
  <2>2. m.path = f.path /\ m.data = f.data /\ ~ f.isDir
    BY <1>4, <2>1 DEF Member
  <2>3. PICK e \in Kept : Source(f, e, w, flattened)
    BY <1>1, <2>2 DEF Layout, Placed
  <2> QED BY <1>2, <1>4, <2>2, <2>3 DEF Source, Data
<1>5. ASSUME NEW e \in Kept, e.kind = "file"
      PROVE  \E m \in tgz' :
               m.kind = "file" /\ m.data # Nothing /\ m.path = e.path /\ m.data = e.path
  <2>1. PICK f \in files : Source(f, e, w, flattened)
    BY <1>1 DEF Layout, Complete
  <2>2. e.path # Nothing /\ f.path = e.path /\ ~ f.isDir /\ f.data = e.path
    <3>1. e.path # Nothing /\ e.kind # "dir"
      BY <1>5, KeptFacts
    <3> QED BY <1>2, <1>5, <2>1, <3>1 DEF Source, Data
  <2>3. Member(f.path, "file", f.data) \in tgz'
    BY <1>3, <2>2
  <2> QED BY <2>2, <2>3 DEF Member
<1>6. ASSUME NEW c \in Content(tgz')
      PROVE  c \in {<<e.path, e.path>> : e \in {e \in Kept : e.kind = "file"}}
  BY <1>4, <1>6 DEF Content
<1>7. ASSUME NEW e \in Kept, e.kind = "file"
      PROVE  <<e.path, e.path>> \in Content(tgz')
  BY <1>5, <1>7 DEF Content
<1> QED BY <1>6, <1>7

(* The inductive invariant: the layout holds as long as folders come off,  *)
(* and the loop stops when the wrapper is off unless nothing is left.      *)
RootInv ==
  /\ TypeInv
  /\ stage = "stored" => tgz # {}
  /\ stage = "uploaded" /\ first = {} => upload = Archived(project, tool)
  /\ stage = "unwrapping" /\ first = {} /\ Legible =>
       /\ Layout
       /\ ~ HasWrapper(Carried) => flattened <= Len(tool.wrapper) \/ OnlyFolders
  /\ RootIsPreserved

(* Every step keeps what a first upload is normalized by.                  *)
LEMMA RootStep ==
  ASSUME OnDisk, RootInv, [ArchiveNext]_archiveVars
  PROVE  RootInv'
<1> USE DEF RootInv
<1>1. TypeInv'
  BY TypeStep
<1>2. flattened \in Nat /\ MaxFlatten \in Nat /\ Len(tool.wrapper) \in Nat
  BY ToolFacts, LenProperties DEF TypeInv, OnDisk, Path
<1>3. CASE Extract
  <2>1. /\ UNCHANGED <<project, tool, upload, first>>
        /\ stage = "uploaded" /\ stage' \in {"refused", "unwrapping"}
    BY <1>3 DEF Extract, Refuse
  <2>2. Legible' <=> Legible
    BY <2>1 DEF Legible
  <2>3. ASSUME stage' = "unwrapping", first' = {}, Legible'
        PROVE  Layout' /\ flattened' <= Len(tool'.wrapper)
    <3>1. Layout'
      BY <1>3, <2>1, <2>2, <2>3, ExtractLays
    <3>2. flattened' = 0
      BY <1>3, <2>3 DEF Extract, Refuse
    <3> QED BY <1>2, <2>1, <3>1, <3>2
  <2> QED BY <1>1, <2>1, <2>3 DEF RootIsPreserved
<1>4. CASE Unwrap
  <2>1. /\ UNCHANGED <<project, tool, upload, stage, tgz, first>>
        /\ stage = "unwrapping" /\ flattened' = flattened + 1 /\ HasWrapper(files)
    BY <1>4 DEF Unwrap
  <2>2. (Legible' <=> Legible) /\ Carried' = Carried
    BY <2>1 DEF Legible, Carried, Kept
  <2>3. ASSUME first = {}, Legible
        PROVE  Layout'
    BY <1>4, <2>1, <2>3, UnwrapLays
  <2>4. ASSUME first = {}, Legible, ~ HasWrapper(Carried)
        PROVE  flattened' <= Len(tool'.wrapper) \/ OnlyFolders'
    <3>1. CASE OnlyFolders
      BY <1>4, <3>1, UnwrappedFacts DEF OnlyFolders
    <3>2. CASE ~ OnlyFolders
      <4>1. flattened # Len(tool.wrapper)
        BY <2>1, <2>4, <3>2, OwnFolder
      <4>2. flattened <= Len(tool.wrapper)
        BY <2>1, <2>4, <3>2
      <4> QED BY <1>2, <2>1, <4>1, <4>2
    <3> QED BY <3>1, <3>2
  <2>5. stage' = "unwrapping" /\ first' = first
    BY <2>1
  <2> QED BY <1>1, <2>2, <2>3, <2>4, <2>5 DEF RootIsPreserved
<1>5. CASE Pack
  <2>1. /\ UNCHANGED <<project, tool, upload, first>>
        /\ stage = "unwrapping" /\ stage' \in {"refused", "stored"}
    BY <1>5 DEF Pack, Refuse
  <2>2. (Legible' <=> Legible) /\ Carried' = Carried /\ Kept' = Kept
    BY <2>1 DEF Legible, Carried, Kept
  <2>3. ASSUME stage' = "stored"
        PROVE  /\ ~ OnlyFolders
               /\ tgz' = {Member(f.path, IF f.isDir THEN "dir" ELSE "file", f.data) : f \in files}
    BY <1>5, <2>3 DEF Pack, Refuse, OnlyFolders
  <2>4. ASSUME stage' = "stored"
        PROVE  files # {} /\ tgz' # {}
    BY <2>3, <2>4 DEF OnlyFolders
  <2>5. ASSUME stage' = "stored", first = {}, ~ HasWrapper(Carried), Legible,
               Len(tool.wrapper) <= MaxFlatten + 1
        PROVE  Content(tgz') = {<<e.path, e.path>> : e \in {e \in Kept : e.kind = "file"}}
    <3>1. Layout /\ flattened <= Len(tool.wrapper)
      BY <2>1, <2>3, <2>5
    <3>2. ASSUME flattened < Len(tool.wrapper)
          PROVE  FALSE
      <4>1. HasWrapper(files)
        BY <2>4, <2>5, <3>1, <3>2, WrapperSeen DEF Layout
      <4>2. MayUnwrap
        BY <1>2, <2>5, <3>2 DEF MayUnwrap
      <4> QED BY <1>5, <4>1, <4>2 DEF Pack
    <3>3. flattened = Len(tool.wrapper)
      BY <1>2, <3>1, <3>2
    <3> QED BY <1>5, <2>3, <2>5, <3>1, <3>3, PackedHolds
  <2>6. RootIsPreserved'
    BY <2>1, <2>2, <2>5 DEF RootIsPreserved
  <2> QED BY <1>1, <2>1, <2>4, <2>6
<1>6. CASE Reupload
  BY <1>1, <1>6 DEF Reupload, RootIsPreserved
<1>7. CASE UNCHANGED archiveVars
  <2>1. UNCHANGED <<project, tool, upload, stage, files, flattened, tgz, first>>
    BY <1>7 DEF archiveVars
  <2>2. /\ (Legible' <=> Legible) /\ Carried' = Carried
        /\ (Layout' <=> Layout) /\ (OnlyFolders' <=> OnlyFolders)
    BY <2>1 DEF Legible, Carried, Kept, Layout, Placed, Complete, OnlyFolders, Passes
  <2>3. RootIsPreserved'
    BY <2>1, <2>2 DEF RootIsPreserved, Kept
  <2> QED BY <1>1, <2>1, <2>2, <2>3
<1> QED BY <1>3, <1>4, <1>5, <1>6, <1>7 DEF ArchiveNext

(* Students find the project's files where they are in the project.        *)
THEOREM ArchiveKeepsTheRoot == ArchiveSpec => []RootIsPreserved
<1>1. ArchiveInit => RootInv
  <2> SUFFICES ASSUME ArchiveInit PROVE RootInv
    OBVIOUS
  <2>1. TypeInv
    BY ArchiveAssumption, TypeInit
  <2> QED BY <2>1 DEF ArchiveInit, RootInv, RootIsPreserved
<1>2. RootInv /\ [ArchiveNext]_archiveVars => RootInv'
  BY ArchiveAssumption, RootStep
<1>3. RootInv => RootIsPreserved
  BY DEF RootInv
<1> QED BY <1>1, <1>2, <1>3, PTL DEF ArchiveSpec

-----------------------------------------------------------------------------
(* A stored archive that normalization leaves as it is.                    *)
Entries(members) == {[path |-> m.path, isDir |-> m.kind = "dir", data |-> m.data] : m \in members}
Packed(list) == {Member(f.path, IF f.isDir THEN "dir" ELSE "file", f.data) : f \in list}

Settled(members) ==
  /\ \A m \in members : m.kind \in {"file", "dir"} /\ Tidy(m.path)
  /\ ~ HasWrapper(Entries(members))

(* Packing and reading a list gives the list,                              *)
LEMMA PackedEntries ==
  ASSUME NEW list, list \subseteq FileType
  PROVE  Entries(Packed(list)) = list
<1>1. ASSUME NEW f \in list
      PROVE  LET m == Member(f.path, IF f.isDir THEN "dir" ELSE "file", f.data)
             IN  [path |-> m.path, isDir |-> m.kind = "dir", data |-> m.data] = f
  <2>1. f \in FileType
    OBVIOUS
  <2>2. f.isDir \in BOOLEAN /\ f = [path |-> f.path, isDir |-> f.isDir, data |-> f.data]
    BY <2>1 DEF FileType
  <2>3. CASE f.isDir
    BY <2>2, <2>3 DEF Member
  <2>4. CASE ~ f.isDir
    BY <2>2, <2>4 DEF Member
  <2> QED BY <2>3, <2>4
<1> QED BY <1>1 DEF Entries, Packed

(* and reading and packing members gives the members.                      *)
LEMMA EntriesPacked ==
  ASSUME NEW members, members \subseteq MemberType, \A m \in members : m.kind \in {"file", "dir"}
  PROVE  Packed(Entries(members)) = members
<1>1. ASSUME NEW m \in members
      PROVE  LET f == [path |-> m.path, isDir |-> m.kind = "dir", data |-> m.data]
             IN  Member(f.path, IF f.isDir THEN "dir" ELSE "file", f.data) = m
  <2>1. m \in MemberType /\ m.kind \in {"file", "dir"}
    OBVIOUS
  <2>2. m = [path |-> m.path, kind |-> m.kind, data |-> m.data]
    BY <2>1 DEF MemberType
  <2> QED BY <2>1, <2>2 DEF Member
<1>2. ASSUME NEW x \in Packed(Entries(members))
      PROVE  x \in members
  <2>1. PICK f \in Entries(members) : x = Member(f.path, IF f.isDir THEN "dir" ELSE "file", f.data)
    BY <1>2 DEF Packed
  <2>2. PICK m \in members : f = [path |-> m.path, isDir |-> m.kind = "dir", data |-> m.data]
    BY DEF Entries
  <2> QED BY <1>1, <2>1, <2>2
<1>3. ASSUME NEW m \in members
      PROVE  m \in Packed(Entries(members))
  <2> DEFINE f == [path |-> m.path, isDir |-> m.kind = "dir", data |-> m.data]
  <2>1. f \in Entries(members) /\ Member(f.path, IF f.isDir THEN "dir" ELSE "file", f.data) = m
    BY <1>1 DEF Entries
  <2> QED BY <2>1 DEF Packed
<1> QED BY <1>2, <1>3

(* What is read of the members the tool lists as ".", or leaves behind.    *)
Cleared(f) ==
  /\ Parts(f.path) \cap {".", Junk} = {}
  /\ tool.form = "tar" => ".." \notin Parts(f.path)

(* Of a first upload, neither "./" nor litter is in the list.              *)
LEMMA ExtractClears ==
  ASSUME OnDisk, TypeInv, upload = Archived(project, tool), Extract, stage' = "unwrapping",
         NEW f \in files'
  PROVE  Cleared(f)
<1>1. tool \in Tools /\ project \in Projects /\ tool.form \in {"zip", "tar"}
  BY ToolFacts DEF TypeInv
<1>2. f.path \in Path /\ f.path # Nothing /\ ~ IsJunk(f.path)
  BY Extracted DEF FileType
<1>3. PICK m \in upload : Carries(f, m)
  BY Extracted
<1>4. m.path \in Path /\ m.path # Nothing /\ (tool.form = "zip" => CleanPath(m.path) = m.path)
  BY <1>1, ArchivedShape DEF TypeInv, MemberType
<1> DEFINE c == CleanPath(m.path)
           h == CleanPath(HeaderName(m.path))
<1>5. /\ c \in Path /\ h \in Path /\ Len(h) <= Len(c)
      /\ \A i \in 1 .. Len(h) : h[i] = c[i]
  BY <1>4, CleanFacts
<1>6. Len(h) \in Nat /\ Len(c) \in Nat
  BY <1>5, LenProperties DEF Path
<1>7. f.path = c \/ f.path = h
  BY <1>1, <1>3, <1>4 DEF Carries
<1>8. Parts(h) \subseteq Parts(c)
  <2> HIDE DEF h, c
  <2> SUFFICES ASSUME NEW i \in 1 .. Len(h) PROVE h[i] \in Parts(c)
    BY DEF Parts
  <2>1. i \in 1 .. Len(c)
    BY <1>5, <1>6
  <2> QED BY <1>5, <2>1 DEF Parts
<1>9. "." \notin Parts(c)
  <2>1. CASE \E l \in Listed(project, tool) : c = l.path
    BY <1>1, <2>1, ListedShape DEF Shape
  <2>2. CASE c = Nothing
    BY <2>2 DEF Parts, Nothing
  <2> QED BY <1>1, <2>1, <2>2, ArchivedShape
<1> QED BY <1>2, <1>3, <1>7, <1>8, <1>9 DEF Cleared, IsJunk, Carries, Listable

(* Taking a folder off adds no name.                                       *)
LEMMA UnwrapClears ==
  ASSUME TypeInv, Unwrap, \A f \in files : Cleared(f), NEW g \in files'
  PROVE  Cleared(g)
<1>1. PICK f \in files : Len(f.path) > 1 /\ g.path = Tail(f.path)
  BY UnwrappedFacts
<1>2. f.path \in Path /\ f.path # Nothing /\ Cleared(f)
  BY DEF TypeInv, FileType
<1>3. /\ Len(f.path) \in Nat /\ Len(g.path) = Len(f.path) - 1
      /\ \A i \in 1 .. Len(f.path) - 1 : g.path[i] = f.path[i + 1]
  BY <1>1, <1>2, TailFacts
<1>4. Parts(g.path) \subseteq Parts(f.path)
  <2> SUFFICES ASSUME NEW i \in 1 .. Len(f.path) - 1 PROVE g.path[i] \in Parts(f.path)
    BY <1>3 DEF Parts
  <2>1. i + 1 \in 1 .. Len(f.path)
    BY <1>3
  <2> QED BY <1>3, <2>1 DEF Parts
<1> QED BY <1>2, <1>4 DEF Cleared

(* The inductive invariant: what was stored before the guard is settled,   *)
(* and sent again it is read, and packed, as it is.                        *)
NormalInv ==
  /\ RootInv
  /\ stage = "unwrapping" /\ first = {} => \A f \in files : Cleared(f)
  /\ stage = "stored" /\ first = {} /\ flattened <= MaxFlatten => Settled(tgz)
  /\ first # {} =>
       /\ tool.form = "tar" /\ tool.long = "gnu"
       /\ Settled(first) /\ upload = first
       /\ stage = "unwrapping" => files = Entries(first)
       /\ stage = "stored" => tgz = first

(* Stored before the guard stops the loop, an archive needs nothing more.  *)
LEMMA PackSettles ==
  ASSUME OnDisk, NormalInv, Pack, stage' = "stored", first = {}, flattened <= MaxFlatten
  PROVE  Settled(tgz')
<1> USE DEF NormalInv
<1>1. tgz' = Packed(files) /\ ~ OnlyFolders /\ ~ HasWrapper(files) /\ stage = "unwrapping"
  BY DEF Pack, Refuse, OnlyFolders, MayUnwrap, Packed
<1>2. files \subseteq FileType /\ TypeInv
  BY DEF RootInv, TypeInv
<1>3. Entries(tgz') = files
  BY <1>1, <1>2, PackedEntries
<1>4. ASSUME NEW f \in files
      PROVE  Tidy(f.path)
  <2>1. Parts(f.path) \cap {".", Junk} = {} /\ (tool.form = "tar" => ".." \notin Parts(f.path))
    BY <1>1 DEF Cleared
  <2>2. ASSUME tool.form = "zip"
        PROVE  ".." \notin Parts(f.path)
    <3>1. Legible
      BY <1>2, <2>2, ToolFacts DEF Legible, TypeInv
    <3>2. \A g \in files : Placed(g)
      BY <1>1, <3>1 DEF RootInv, Layout
    <3>3. ~ (flattened < Len(tool.wrapper))
      BY <1>1, <1>2, <1>4, <3>2, WrapperSeen
    <3>4. flattened \in Nat /\ Len(tool.wrapper) \in Nat
      BY <1>2, ToolFacts, LenProperties DEF TypeInv, Path
    <3>5. ASSUME NEW i \in 1 .. Len(f.path)
          PROVE  f.path[i] # ".."
      <4>1. Len(f.path) \in Nat
        BY <1>2, <1>4, LenProperties DEF FileType, Path
      <4>2. ~ (i + flattened <= Len(tool.wrapper))
        BY <3>3, <3>4, <4>1
      <4> QED BY <1>4, <3>2, <4>2 DEF Placed, Outer
    <3> QED BY <3>5 DEF Parts
  <2>3. tool.form \in {"zip", "tar"}
    BY <1>2, ToolFacts DEF TypeInv
  <2> QED BY <2>1, <2>2, <2>3 DEF Tidy
<1>5. ASSUME NEW m \in tgz'
      PROVE  m.kind \in {"file", "dir"} /\ Tidy(m.path)
  <2>1. PICK f \in files : m = Member(f.path, IF f.isDir THEN "dir" ELSE "file", f.data)
    BY <1>1 DEF Packed
  <2> QED BY <1>4, <2>1 DEF Member
<1> QED BY <1>1, <1>3, <1>5 DEF Settled

(* Such an archive is read as it was written.                              *)
LEMMA ExtractReads ==
  ASSUME OnDisk, TypeInv, Extract, tool.form = "tar", tool.long = "gnu", Settled(upload)
  PROVE  stage' = "unwrapping" /\ files' = Entries(upload)
<1>1. stage' = "unwrapping" /\ files' = {f \in TgzEntries : ~ IsJunk(f.path)}
  BY DEF Extract
<1>2. ASSUME NEW m \in upload
      PROVE  /\ CleanPath(HeaderName(m.path)) = m.path /\ m.kind # "link"
             /\ Listable(m.path) /\ ~ IsJunk(m.path)
  <2>1. m.path \in Path /\ m.path # Nothing /\ m.kind \in {"file", "dir"} /\ Tidy(m.path)
    BY DEF TypeInv, MemberType, Settled
  <2>2. HeaderName(m.path) = m.path
    BY DEF HeaderName
  <2>3. Len(m.path) \in Nat \ {0}
    BY <2>1, TailFacts
  <2>4. m.path[1] # "."
    BY <2>1, <2>3 DEF Tidy, Parts
  <2> QED BY <2>1, <2>2, <2>4 DEF CleanPath, Listable, IsJunk, Tidy, Nothing
<1>3. TgzEntries = Entries(upload)
  BY <1>2 DEF TgzEntries, Entries
<1>4. \A f \in Entries(upload) : ~ IsJunk(f.path)
  BY <1>2 DEF Entries
<1> QED BY <1>1, <1>3, <1>4

(* Every step keeps what makes normalizing idempotent.                     *)
LEMMA NormalStep ==
  ASSUME OnDisk, NormalInv, [ArchiveNext]_archiveVars
  PROVE  NormalInv'
<1> USE DEF NormalInv
<1>1. RootInv' /\ TypeInv
  BY RootStep DEF RootInv
<1>2. CASE Extract
  <2>1. /\ UNCHANGED <<project, tool, upload, first>>
        /\ stage = "uploaded" /\ stage' \in {"refused", "unwrapping"}
    BY <1>2 DEF Extract, Refuse
  <2>2. ASSUME stage' = "unwrapping", first = {}, NEW f \in files'
        PROVE  Cleared(f)'
    <3>1. Cleared(f)
      BY <1>1, <1>2, <2>1, <2>2, ExtractClears DEF RootInv
    <3> QED BY <2>1, <3>1 DEF Cleared
  <2>3. ASSUME first # {}
        PROVE  files' = Entries(first) /\ Settled(first)
    BY <1>1, <1>2, <2>3, ExtractReads
  <2>4. Settled(first') <=> Settled(first)
    BY <2>1
  <2> QED BY <1>1, <2>1, <2>2, <2>3, <2>4
<1>3. CASE Unwrap
  <2>1. /\ UNCHANGED <<project, tool, upload, stage, tgz, first>>
        /\ stage = "unwrapping" /\ HasWrapper(files)
    BY <1>3 DEF Unwrap
  <2>2. first = {}
    BY <2>1 DEF Settled
  <2>3. ASSUME NEW f \in files'
        PROVE  Cleared(f)'
    <3>1. Cleared(f)
      BY <1>1, <1>3, <2>1, <2>2, UnwrapClears
    <3> QED BY <2>1, <3>1 DEF Cleared
  <2> QED BY <1>1, <2>1, <2>2, <2>3
<1>4. CASE Pack
  <2>1. /\ UNCHANGED <<project, tool, upload, first>>
        /\ stage = "unwrapping" /\ stage' \in {"refused", "stored"}
    BY <1>4 DEF Pack, Refuse
  <2>2. ASSUME stage' = "stored", first = {}, flattened' <= MaxFlatten
        PROVE  Settled(tgz')
    <3>1. flattened' = flattened
      BY <1>4, <2>2 DEF Pack, Refuse
    <3> QED BY <1>4, <2>2, <3>1, PackSettles
  <2>3. ASSUME stage' = "stored", first # {}
        PROVE  tgz' = first
    <3>1. tgz' = Packed(Entries(first))
      BY <1>4, <2>1, <2>3 DEF Pack, Refuse, Packed
    <3>2. first \subseteq MemberType /\ \A m \in first : m.kind \in {"file", "dir"}
      BY <1>1, <2>3 DEF TypeInv, Settled
    <3> QED BY <3>1, <3>2, EntriesPacked
  <2> QED BY <1>1, <2>1, <2>2, <2>3
<1>5. CASE Reupload
  <2>1. Settled(tgz) /\ first' = tgz /\ upload' = tgz /\ stage' = "uploaded"
    BY <1>5 DEF Reupload
  <2>2. tool'.form = "tar" /\ tool'.long = "gnu"
    BY <1>1, <1>5 DEF Reupload, TypeInv, Tools
  <2> QED BY <1>1, <2>1, <2>2
<1>6. CASE UNCHANGED archiveVars
  <2>1. UNCHANGED <<project, tool, upload, stage, files, flattened, tgz, first>>
    BY <1>6 DEF archiveVars
  <2>2. \A f : Cleared(f)' <=> Cleared(f)
    BY <2>1 DEF Cleared
  <2> QED BY <1>1, <2>1, <2>2
<1> QED BY <1>2, <1>3, <1>4, <1>5, <1>6 DEF ArchiveNext

(* Normalizing is idempotent: sent again, the archive is stored as it was. *)
THEOREM ArchiveIsNormalizedOnce == ArchiveSpec => []NormalizedOnce
<1>1. ArchiveInit => NormalInv
  <2> SUFFICES ASSUME ArchiveInit PROVE NormalInv
    OBVIOUS
  <2>1. TypeInv
    BY ArchiveAssumption, TypeInit
  <2> QED BY <2>1 DEF ArchiveInit, NormalInv, RootInv, RootIsPreserved
<1>2. NormalInv /\ [ArchiveNext]_archiveVars => NormalInv'
  BY ArchiveAssumption, NormalStep
<1>3. NormalInv => NormalizedOnce
  BY DEF NormalInv, NormalizedOnce
<1> QED BY <1>1, <1>2, <1>3, PTL DEF ArchiveSpec
=============================================================================
