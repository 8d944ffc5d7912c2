---------------------------- MODULE PackagingProofs ----------------------------
(***************************************************************************)
(* The pipeline keeps every submission whole, for any amount of editing    *)
(* and any number of failing pods.                                         *)
(***************************************************************************)
EXTENDS Packaging, TLAPS

(* Every step keeps versions, pod numbers and reports within their types.  *)
LEMMA TypeInductive ==
  ASSUME TypeOK, [Next]_vars
  PROVE  TypeOK'
<1> USE BoundAssumption DEF TypeOK, studentVars, webVars, Capture, Version, Nothing, Job,
        JobPc, PodStep, BackoffLimit, FirstPod, PodStepTo
<1>1. CASE EditWork
  BY <1>1 DEF EditWork
<1>2. CASE EditChat
  BY <1>2 DEF EditChat
<1>3. CASE Leave
  BY <1>3 DEF Leave
<1>4. CASE Submit
  BY <1>4 DEF Submit
<1>5. CASE TriggerPackaging
  BY <1>5 DEF TriggerPackaging
<1>6. CASE TriggerFails
  BY <1>6 DEF TriggerFails
<1>7. ASSUME NEW c \in calls, PackageCallback(c)
      PROVE  TypeOK'
  BY <1>7 DEF PackageCallback, RegisterFiles
<1>8. CASE PackWork
  BY <1>8 DEF PackWork
<1>9. CASE PackChat
  BY <1>9 DEF PackChat
<1>10. CASE UploadWork
  BY <1>10 DEF UploadWork
<1>11. CASE UploadChat
  BY <1>11 DEF UploadChat
<1>12. CASE Report
  BY <1>12 DEF Report
<1>13. CASE Answered
  BY <1>13 DEF Answered
<1>14. CASE PodFails
  BY <1>14 DEF PodFails
<1>15. CASE CloseBatch
  BY <1>15 DEF CloseBatch
<1>16. CASE ProvisionWipes
  BY <1>16 DEF ProvisionWipes
<1>17. CASE UNCHANGED vars
  BY <1>17 DEF vars
<1> QED
  BY <1>1, <1>2, <1>3, <1>4, <1>5, <1>6, <1>7, <1>8, <1>9, <1>10, <1>11,
     <1>12, <1>13, <1>14, <1>15, <1>16, <1>17
     DEF Next, Student, Web, Pod, Operator

(* Versions, pod numbers and reports stay within their types.              *)
THEOREM TypeSafety == Spec => []TypeOK
<1>1. ASSUME Init
      PROVE  TypeOK
  <2> USE <1>1, BoundAssumption DEF Init, Capture, Version, Nothing
  <2>1. job \in Job
    BY DEF Job, JobPc, PodStep, BackoffLimit
  <2>2. 1 \in Version /\ 0 \in Version
    OBVIOUS
  <2> QED
    BY <2>1, <2>2 DEF TypeOK
<1> QED
  BY <1>1, TypeInductive, PTL DEF Spec

(* A submission and its Job come in order; what a pod carries was taken    *)
(* after the submission, what it reports has been uploaded.                *)
LEMMA PipelineInductive ==
  ASSUME TypeOK, PipelineInv, [Next]_vars
  PROVE  PipelineInv'
<1> USE BoundAssumption DEF TypeOK, PipelineInv, Untouched, PodCarries, ReportsCarry,
        AtLeast, Uploaded, CaptureIsComplete, RegisteredIsStored, studentVars, webVars,
        Capture, Version, Nothing, Job, JobPc, PodStep, BackoffLimit, FirstPod, PodStepTo
<1>1. CASE EditWork
  BY <1>1 DEF EditWork
<1>2. CASE EditChat
  BY <1>2 DEF EditChat
<1>3. CASE Leave
  BY <1>3 DEF Leave
<1>4. CASE Submit
  BY <1>4 DEF Submit
<1>5. CASE TriggerPackaging
  BY <1>5 DEF TriggerPackaging
<1>6. CASE TriggerFails
  BY <1>6 DEF TriggerFails
<1>7. ASSUME NEW c \in calls, PackageCallback(c)
      PROVE  PipelineInv'
  BY <1>7 DEF PackageCallback, RegisterFiles
<1>8. CASE PackWork
  BY <1>8 DEF PackWork
<1>9. CASE PackChat
  BY <1>9 DEF PackChat
<1>10. CASE UploadWork
  BY <1>10 DEF UploadWork
<1>11. CASE UploadChat
  BY <1>11 DEF UploadChat
<1>12. CASE Report
  BY <1>12 DEF Report
<1>13. CASE Answered
  BY <1>13 DEF Answered
<1>14. CASE PodFails
  BY <1>14 DEF PodFails
<1>15. CASE CloseBatch
  BY <1>15 DEF CloseBatch
<1>16. CASE ProvisionWipes
  BY <1>16 DEF ProvisionWipes
<1>17. CASE UNCHANGED vars
  BY <1>17 DEF vars
<1> QED
  BY <1>1, <1>2, <1>3, <1>4, <1>5, <1>6, <1>7, <1>8, <1>9, <1>10, <1>11,
     <1>12, <1>13, <1>14, <1>15, <1>16, <1>17
     DEF Next, Student, Web, Pod, Operator

LEMMA PipelineSafety == Spec => []PipelineInv
<1>1. Init => PipelineInv
  BY DEF Init, PipelineInv, Untouched, PodCarries, ReportsCarry, AtLeast, Uploaded,
         CaptureIsComplete, RegisteredIsStored, Nothing, PodStep
<1> QED
  BY <1>1, PipelineInductive, TypeSafety, PTL DEF Spec

(* Every registered file has its object in the store.                      *)
THEOREM Stored == Spec => []RegisteredIsStored
<1>1. PipelineInv => RegisteredIsStored
  BY DEF PipelineInv
<1> QED
  BY <1>1, PipelineSafety, PTL

(* Nothing done before the submission is missing from what is registered.  *)
THEOREM Complete == Spec => []CaptureIsComplete
<1>1. PipelineInv => CaptureIsComplete
  BY DEF PipelineInv
<1> QED
  BY <1>1, PipelineSafety, PTL

(* No late report takes a file away: only a callback writes the rows, and  *)
(* every report carries an artifact.                                       *)
THEOREM Kept == Spec => EvidenceIsKept
<1>1. ASSUME PipelineInv, [Next]_vars
      PROVE  (files.work # 0 => files'.work # 0) /\ (files.chat # 0 => files'.chat # 0)
  <2>1. ASSUME NEW c \in calls, PackageCallback(c)
        PROVE  (files.work # 0 => files'.work # 0) /\ (files.chat # 0 => files'.chat # 0)
    <3>1. c.out.work # 0
      BY <1>1 DEF PipelineInv, ReportsCarry
    <3> QED
      BY <2>1, <3>1 DEF PackageCallback, RegisterFiles
  <2>2. CASE UNCHANGED files
    BY <2>2
  <2>3. (\E c \in calls : PackageCallback(c)) \/ UNCHANGED files
    BY <1>1 DEF Next, Student, Web, Pod, Operator, vars, EditWork, EditChat, Leave, Submit,
       TriggerPackaging, TriggerFails, PackWork, PackChat, UploadWork, UploadChat, Report,
       Answered, PodFails, CloseBatch, ProvisionWipes
  <2> QED
    BY <2>1, <2>2, <2>3
<1> QED
  BY <1>1, PipelineSafety, PTL DEF Spec, EvidenceIsKept

-------------------------------------------------------------------------------
(* The pipeline implements SubmissionRecord.                               *)

(* Whatever is captured, reported or registered had been written, and the  *)
(* submission is the moment at which handedIn is taken.                    *)
LEMMA RecordInductive ==
  ASSUME TypeOK, PipelineInv, RecordInv, [Next]_vars
  PROVE  RecordInv'
<1> USE BoundAssumption DEF TypeOK, RecordInv, AtLeast, studentVars, webVars, Capture,
        Version, Nothing, Job, FirstPod, PodStepTo
<1>1. CASE EditWork
  BY <1>1 DEF EditWork
<1>2. CASE EditChat
  BY <1>2 DEF EditChat
<1>3. CASE Leave
  BY <1>3 DEF Leave
<1>4. CASE Submit
  BY <1>4 DEF Submit, PipelineInv
<1>5. CASE TriggerPackaging
  BY <1>5 DEF TriggerPackaging
<1>6. CASE TriggerFails
  BY <1>6 DEF TriggerFails
<1>7. ASSUME NEW c \in calls, PackageCallback(c)
      PROVE  RecordInv'
  BY <1>7 DEF PackageCallback, RegisterFiles
<1>8. CASE PackWork
  BY <1>8 DEF PackWork
<1>9. CASE PackChat
  BY <1>9 DEF PackChat
<1>10. CASE UploadWork
  BY <1>10 DEF UploadWork
<1>11. CASE UploadChat
  BY <1>11 DEF UploadChat
<1>12. CASE Report
  BY <1>12 DEF Report
<1>13. CASE Answered
  BY <1>13 DEF Answered
<1>14. CASE PodFails
  BY <1>14 DEF PodFails
<1>15. CASE CloseBatch
  BY <1>15 DEF CloseBatch
<1>16. CASE ProvisionWipes
  BY <1>16 DEF ProvisionWipes
<1>17. CASE UNCHANGED vars
  BY <1>17 DEF vars
<1> QED
  BY <1>1, <1>2, <1>3, <1>4, <1>5, <1>6, <1>7, <1>8, <1>9, <1>10, <1>11,
     <1>12, <1>13, <1>14, <1>15, <1>16, <1>17
     DEF Next, Student, Web, Pod, Operator

LEMMA RecordSafety == Spec => [](TypeOK /\ PipelineInv /\ RecordInv)
<1>1. Init => RecordInv
  BY DEF Init, RecordInv, AtLeast, Nothing
<1>2. TypeOK /\ PipelineInv /\ RecordInv /\ [Next]_vars => RecordInv'
  BY RecordInductive
<1> QED
  BY <1>1, <1>2, TypeSafety, PipelineSafety, PTL DEF Spec

(* A step writes, hands in, stores, or is nothing to SubmissionRecord.     *)
LEMMA RecordStep ==
  ASSUME TypeOK, PipelineInv, RecordInv, [Next]_vars
  PROVE  [Record!Next]_<<volume, handedIn, files>>
<1> USE BoundAssumption DEF TypeOK, studentVars, webVars, Capture, Version
<1>1. ASSUME volume' # volume, EditWork \/ EditChat
      PROVE  Record!Write
  BY <1>1 DEF EditWork, EditChat, Record!Write, Record!AtLeast
<1>2. CASE Submit
  <2>1. handedIn = Record!Nothing
    BY <1>2 DEF Submit, RecordInv, Nothing, Record!Nothing
  <2>2. Record!HandIn
    BY <1>2, <2>1 DEF Submit, Record!HandIn
  <2> QED
    BY <2>2 DEF Record!Next
<1>3. ASSUME NEW c \in calls, PackageCallback(c), attempt = "submitted",
             files' = RegisterFiles(c.out)
      PROVE  Record!Store
  <2>1. handedIn # Record!Nothing
    BY <1>3 DEF RecordInv, Nothing, Record!Nothing
  <2>2. Record!AtLeast(files', handedIn)
    BY <1>3 DEF RegisterFiles, PipelineInv, ReportsCarry, AtLeast, Record!AtLeast
  <2>3. Record!AtLeast(volume, files')
    BY <1>3 DEF RegisterFiles, RecordInv, AtLeast, Record!AtLeast
  <2>4. files.chat # 0 => files'.chat # 0
    BY <1>3 DEF RegisterFiles
  <2> QED
    BY <1>3, <2>1, <2>2, <2>3, <2>4 DEF PackageCallback, Record!Store
<1>4. ASSUME NEW c \in calls, PackageCallback(c)
      PROVE  [Record!Next]_<<volume, handedIn, files>>
  BY <1>3, <1>4 DEF PackageCallback, Record!Next
<1>5. UNCHANGED <<volume, handedIn, files>> \/ EditWork \/ EditChat \/ Submit
        \/ \E c \in calls : PackageCallback(c)
  BY DEF Next, Student, Web, Pod, Operator, vars, Leave, TriggerPackaging, TriggerFails,
         PackWork, PackChat, UploadWork, UploadChat, Report, Answered, PodFails, CloseBatch,
         ProvisionWipes
<1> QED
  BY <1>1, <1>2, <1>4, <1>5 DEF Record!Next, EditWork, EditChat

(* One submission is taken, and what is on record is never less than it    *)
(* nor more than was written.                                              *)
THEOREM PipelineRecords == Spec => SubmissionIsRecorded
<1>1. Init => Record!Init
  BY DEF Init, Record!Init, Nothing, Record!Nothing
<1>2. TypeOK /\ PipelineInv /\ RecordInv /\ [Next]_vars
        => [Record!Next]_<<volume, handedIn, files>>
  BY RecordStep
<1> QED
  BY <1>1, <1>2, RecordSafety, PTL DEF Spec, SubmissionIsRecorded, Record!Spec
===============================================================================
