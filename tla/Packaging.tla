------------------------------ MODULE Packaging ------------------------------
(***************************************************************************)
(* The way of one student's work from the volume of the exam pod into the  *)
(* object store and the tables the evaluation reads: the submission        *)
(* commits, the web process creates a Job, the pods of the Job pack,       *)
(* upload and report, the report is registered.  Every arrow may break.    *)
(*                                                                         *)
(* project/ and claude/ on the volume are version numbers that grow with   *)
(* each change; an archive, its hash and the object it is uploaded to are  *)
(* the version they were taken from.                                       *)
(***************************************************************************)
EXTENDS Naturals, FiniteSets

CONSTANTS
  MaxVersion,   \* bound: changes to project/ and to claude/
  MaxFailures   \* bound: pods of the Job that fail

ASSUME BoundAssumption == MaxVersion \in Nat \ {0} /\ MaxFailures \in Nat

(* Mutant: the Job does not try again.                                     *)
NoBackoff == 0

BackoffLimit == 2

Version == 0 .. MaxVersion

(* project/ is never empty, it starts with the scaffold; 0 stands for no   *)
(* object, no row, or the empty claude/ for which nothing is uploaded.     *)
Capture == [work : Version, chat : Version]
Nothing == [work |-> 0, chat |-> 0]

VARIABLES
  volume,     \* what project/ and claude/ hold
  wiped,      \* the volume has been deleted by a later provision
  editing,    \* the pod runs and the student's websocket to it is open
  attempt,    \* exam.attempts.status
  handedIn,   \* the volume as it was when the submission committed
  slot,       \* hosted.slots.state of the row with this attempt_id
  caller,     \* the web process between the commit and its triggerPackaging
  job,        \* the packaging Job: its pod's step and /out, pods used so far
  store,      \* the two objects of the attempt in MinIO
  calls,      \* reports that web has received or will receive
  files       \* the rows of exam.submission_files, all of an accepted submission

studentVars == <<volume, editing>>
webVars == <<attempt, handedIn, slot, caller>>
vars == <<studentVars, wiped, webVars, job, store, calls, files>>

PodStep == {"packWork", "packChat", "uploadWork", "uploadChat", "report", "answer"}
JobPc == {"none", "complete", "failed", "deleted"} \cup PodStep

Job == [pc : JobPc, pod : 0 .. BackoffLimit, out : Capture]

TypeOK ==
  /\ volume \in Capture
  /\ wiped \in BOOLEAN
  /\ editing \in BOOLEAN
  /\ attempt \in {"running", "submitted"}
  /\ handedIn \in Capture
  /\ slot \in {"assigned", "submitting", "recycling", "down"}
  /\ caller \in {"none", "committed", "done", "dead"}
  /\ job \in Job
  /\ store \in Capture
  /\ calls \in SUBSET [pod : 0 .. BackoffLimit, out : Capture]
  /\ files \in Capture

(* A student at work in an assigned slot, nothing typed yet.               *)
Init ==
  /\ volume = [work |-> 1, chat |-> 0]
  /\ wiped = FALSE
  /\ editing = TRUE
  /\ attempt = "running"
  /\ handedIn = Nothing
  /\ slot = "assigned"
  /\ caller = "none"
  /\ job = [pc |-> "none", pod |-> 0, out |-> Nothing]
  /\ store = Nothing
  /\ calls = {}
  /\ files = Nothing

-------------------------------------------------------------------------------
(* The student.  exam-authz refuses new requests once the attempt is       *)
(* submitted, but it is asked only when the websocket is opened: one that  *)
(* is open stays open, and so do the programs started in its terminal.     *)

EditWork ==
  /\ editing
  /\ volume.work < MaxVersion
  /\ volume' = [volume EXCEPT !.work = @ + 1]
  /\ UNCHANGED <<editing, wiped, webVars, job, store, calls, files>>

EditChat ==
  /\ editing
  /\ volume.chat < MaxVersion
  /\ volume' = [volume EXCEPT !.chat = @ + 1]
  /\ UNCHANGED <<editing, wiped, webVars, job, store, calls, files>>

Leave ==
  /\ editing
  /\ editing' = FALSE
  /\ UNCHANGED <<volume, wiped, webVars, job, store, calls, files>>

-------------------------------------------------------------------------------
(* Submission, whoever causes it, and the trigger that follows the commit. *)

(* Mutant: a second submission is taken like the first.                    *)
SubmitAgain ==
  /\ attempt' = "submitted"
  /\ handedIn' = volume
  /\ slot' = IF slot = "assigned" THEN "submitting" ELSE slot
  /\ caller' = "committed"
  /\ UNCHANGED <<studentVars, wiped, job, store, calls, files>>

Submit ==
  /\ attempt = "running"
  /\ attempt' = "submitted"
  /\ handedIn' = volume
  /\ slot' = IF slot = "assigned" THEN "submitting" ELSE slot
  /\ caller' = "committed"
  /\ UNCHANGED <<studentVars, wiped, job, store, calls, files>>

FirstPod == [pc |-> "packWork", pod |-> 0, out |-> Nothing]

(* Mutant: the Job is created before the submission commits.               *)
TriggerEarly ==
  /\ caller \in {"none", "committed"}
  /\ caller' = IF caller = "none" THEN "none" ELSE "done"
  /\ job.pc = "none"
  /\ job' = FirstPod
  /\ UNCHANGED <<studentVars, wiped, attempt, handedIn, slot, store, calls, files>>

(* packageAttempt, or a failure of it that is logged and forgotten.        *)
TriggerPackaging ==
  /\ caller = "committed"
  /\ caller' = "done"
  /\ job' = FirstPod
  /\ UNCHANGED <<studentVars, wiped, attempt, handedIn, slot, store, calls, files>>

TriggerFails ==
  /\ caller = "committed"
  /\ caller' = "dead"
  /\ UNCHANGED <<studentVars, wiped, attempt, handedIn, slot, job, store, calls, files>>

-------------------------------------------------------------------------------
(* One pod of the Job: two init containers and the main one, in order.     *)

PodStepTo(from, to) == job.pc = from /\ job' = [job EXCEPT !.pc = to]

PackWork ==
  /\ job.pc = "packWork"
  /\ ~wiped
  /\ job' = [job EXCEPT !.pc = "packChat", !.out.work = volume.work]
  /\ UNCHANGED <<studentVars, wiped, webVars, store, calls, files>>

PackChat ==
  /\ job.pc = "packChat"
  /\ ~wiped
  /\ job' = [job EXCEPT !.pc = "uploadWork", !.out.chat = volume.chat]
  /\ UNCHANGED <<studentVars, wiped, webVars, store, calls, files>>

(* Mutant: report runs beside the upload, not after it.                    *)
UploadUnawaited ==
  /\ PodStepTo("uploadWork", "report")
  /\ UNCHANGED <<studentVars, wiped, webVars, store, calls, files>>

(* Every pod of the Job uploads to the same two objects.                   *)
UploadWork ==
  /\ PodStepTo("uploadWork", "uploadChat")
  /\ store' = [store EXCEPT !.work = job.out.work]
  /\ UNCHANGED <<studentVars, wiped, webVars, calls, files>>

UploadChat ==
  /\ PodStepTo("uploadChat", "report")
  /\ store' = [store EXCEPT !.chat = IF job.out.chat = 0 THEN @ ELSE job.out.chat]
  /\ UNCHANGED <<studentVars, wiped, webVars, calls, files>>

Report ==
  /\ PodStepTo("report", "answer")
  /\ calls' = calls \cup {[pod |-> job.pod, out |-> job.out]}
  /\ UNCHANGED <<studentVars, wiped, webVars, store, files>>

Answered ==
  /\ PodStepTo("answer", "complete")
  /\ \A c \in calls : c.pod # job.pod
  /\ UNCHANGED <<studentVars, wiped, webVars, store, calls, files>>

(* A step fails, the answer is lost, or the pod does not survive: with     *)
(* restartPolicy Never the Job starts another pod, with an empty /out.     *)
PodFails ==
  /\ job.pc \in PodStep
  /\ job.pod < MaxFailures
  /\ job' = IF job.pod < BackoffLimit
              THEN [FirstPod EXCEPT !.pod = job.pod + 1]
              ELSE [job EXCEPT !.pc = "failed"]
  /\ UNCHANGED <<studentVars, wiped, webVars, store, calls, files>>

-------------------------------------------------------------------------------
(* The callback.                                                           *)

(* Mutant: the files of the submission are replaced as a whole.            *)
RegisterAll(c) == c

(* addPackagedFileTx replaces the row of its kind; without a chat in the   *)
(* report there is no second call.                                         *)
RegisterFiles(c) ==
  [work |-> c.work, chat |-> IF c.chat = 0 THEN files.chat ELSE c.chat]

(* One transaction, retried by nobody: the reports of failed pods may      *)
(* arrive late and in any order.                                           *)
PackageCallback(c) ==
  /\ c \in calls
  /\ calls' = calls \ {c}
  /\ \/ /\ attempt = "submitted"
        /\ files' = RegisterFiles(c.out)
        /\ slot' = IF slot \in {"assigned", "submitting"} THEN "recycling" ELSE slot
     \/ /\ attempt # "submitted"
        /\ UNCHANGED <<files, slot>>
  /\ UNCHANGED <<studentVars, wiped, attempt, handedIn, caller, job, store>>

-------------------------------------------------------------------------------
(* The pool operations that cut across.                                    *)

(* closeBatch takes the slot down whatever is still being packaged; the    *)
(* pod of the student stops some time later.                               *)
CloseBatch ==
  /\ slot # "down"
  /\ slot' = "down"
  /\ UNCHANGED <<studentVars, wiped, attempt, handedIn, caller, job, store, calls, files>>

(* The next provisionBatch, of whatever batch: nobody is busy, the pods go,*)
(* then the Jobs, then the volumes.                                        *)
ProvisionWipes ==
  /\ slot \notin {"assigned", "submitting"}
  /\ ~wiped
  /\ wiped' = TRUE
  /\ editing' = FALSE
  /\ job' = IF job.pc \in PodStep THEN [job EXCEPT !.pc = "deleted"] ELSE job
  /\ UNCHANGED <<volume, webVars, store, calls, files>>

-------------------------------------------------------------------------------
Student == EditWork \/ EditChat \/ Leave

Web ==
  \/ Submit
  \/ TriggerPackaging
  \/ TriggerFails
  \/ \E c \in calls : PackageCallback(c)

Pod == PackWork \/ PackChat \/ UploadWork \/ UploadChat \/ Report \/ Answered \/ PodFails

Operator == CloseBatch \/ ProvisionWipes

Next == Student \/ Web \/ Pod \/ Operator

Spec == Init /\ [][Next]_vars

-------------------------------------------------------------------------------
(* Safety.                                                                 *)

(* What the evaluation is told of can be fetched: a registered file has    *)
(* its object in the store, whichever pods failed or reported late.        *)
RegisteredIsStored ==
  /\ files.work # 0 => store.work # 0
  /\ files.chat # 0 => store.chat # 0

(* Nothing the student did before the submission is missing from what is   *)
(* registered, although the pods capture it at their own time and their    *)
(* reports overtake each other.                                            *)
CaptureIsComplete ==
  files.work # 0 => files.work >= handedIn.work /\ files.chat >= handedIn.chat

(* A late report of an earlier pod takes no file away from an accepted     *)
(* submission; SubmissionIsRecorded below contains this.                   *)
EvidenceIsKept ==
  [][/\ files.work # 0 => files'.work # 0
     /\ files.chat # 0 => files'.chat # 0]_vars

(* Why: a submission and its Job come in this order, what a pod carries    *)
(* was taken after the submission, and what it reports has been uploaded.  *)
AtLeast(c, d) == c.work >= d.work /\ c.chat >= d.chat

Uploaded(c) == (c.work # 0 => store.work # 0) /\ (c.chat # 0 => store.chat # 0)

Untouched ==
  attempt = "running" =>
    caller = "none" /\ job.pc = "none" /\ calls = {} /\ files = Nothing

PodCarries ==
  /\ job.pc \in PodStep \ {"packWork"} =>
       job.out.work # 0 /\ job.out.work >= handedIn.work
  /\ job.pc \in PodStep \ {"packWork", "packChat"} => job.out.chat >= handedIn.chat
  /\ job.pc \in {"uploadChat", "report"} => store.work # 0
  /\ job.pc = "report" => Uploaded(job.out)

ReportsCarry ==
  \A c \in calls : c.out.work # 0 /\ AtLeast(c.out, handedIn) /\ Uploaded(c.out)

PipelineInv ==
  /\ volume.work # 0
  /\ attempt = "submitted" => AtLeast(volume, handedIn)
  /\ Untouched
  /\ PodCarries
  /\ ReportsCarry
  /\ files.chat # 0 => files.work # 0
  /\ CaptureIsComplete
  /\ RegisteredIsStored

(* The pipeline keeps the promise of SubmissionRecord: submitExam takes    *)
(* one submission only, the volume goes on changing afterwards, and what   *)
(* the callbacks register lies between the two, whichever comes last.      *)
Record == INSTANCE SubmissionRecord WITH work <- volume, record <- files
SubmissionIsRecorded == Record!Spec

(* What that adds to PipelineInv: nothing is captured that is not written. *)
RecordInv ==
  /\ (attempt = "running") <=> (handedIn = Nothing)
  /\ AtLeast(volume, handedIn)
  /\ AtLeast(volume, job.out)
  /\ \A c \in calls : AtLeast(volume, c.out)
  /\ AtLeast(volume, files)

-------------------------------------------------------------------------------
(* Liveness.  web and the cluster go on working, and at most BackoffLimit  *)
(* pods of the Job fail.                                                   *)

Fairness ==
  /\ WF_vars(TriggerPackaging \/ TriggerFails)
  /\ WF_vars(PackWork)
  /\ WF_vars(PackChat)
  /\ WF_vars(UploadWork)
  /\ WF_vars(UploadChat)
  /\ WF_vars(Report)
  /\ WF_vars(\E c \in calls : PackageCallback(c))

FairSpec == Spec /\ Fairness

(* Every submission is registered, unless its trigger was lost or a later  *)
(* provision came first.                                                   *)
SubmissionsAreRegistered ==
  attempt = "submitted" ~> (files.work # 0 \/ caller = "dead" \/ wiped)

-------------------------------------------------------------------------------
(* What the repository's texts say and the code does not do.               *)

(* When the Job is over and no report is under way, the registered hash is *)
(* the seal of the object it names.                                        *)
SealFitsObject ==
  (job.pc \in {"complete", "failed"} /\ calls = {} /\ files.work # 0)
    => files.work = store.work

(* The volume of a submitted attempt is wiped only after its capture.      *)
CapturedBeforeWiped ==
  (wiped /\ attempt = "submitted" /\ caller # "dead") => files.work # 0
===============================================================================
