# catchup: a verification project

catchup runs coding exams in the browser. A student gets a pod of her own
(code-server plus an AI assistant) from a small pool, works against a deadline,
submits, and her volume is captured into the object store for evaluation. The
program is a Next.js application (`apps/web`, about 13,000 lines; the core is
`apps/web/lib`, about 5,200) in front of PostgreSQL, Redis, MinIO, LiteLLM and a
Kubernetes StatefulSet. It has no test suite; what its authors expect is written
in comments, migrations and `docs/`.

This directory holds TLA+ models of that core, the TLC runs that check them on
small instances, and TLAPS proofs of what can be proved for every size. The
sections are: the inventory of the system, the models and how they follow the
code, the runs, the proofs, the disagreements found, what is not modelled, and
the plan.

## 1. Inventory

| part | where | state it keeps | operations | what makes it hard |
|---|---|---|---|---|
| Exam runtime | `lib/services/examService.ts`, `lib/db/repositories/attempts.ts`, `app/api/exam/**` | `exam.attempts` (status, deadline_at, submitted_at), `attempt_events` | startExam, submitExam, expireExam, sweepDeadlines, triggerPackaging | a check before the transaction it is for; a list read once and worked off one transaction at a time; a clock |
| Operator actions | `lib/services/attemptService.ts` | the same rows | extendDeadline, forceSubmit, voidAttempt | they race with all of the above |
| Slot pool and queue | `lib/db/repositories/slots.ts`, `entryQueue.ts` | `hosted.slots`, `hosted.entry_queue` | assign, mark, sync, register, reset; enqueue, lock head, remove | two takers of one slot; FIFO under concurrent transactions |
| Reconciler | `examOpsService.reconcilePool` | an advisory lock | list pods, sync, assign, scale up | driven by the waiting room's polls, works on what it read earlier |
| Environment | `examOpsService.provisionBatch`, `closeBatch`; admin actions; internal routes | StatefulSet, ConfigMap, Secret, volumes, Jobs: one set for all batches | open, close, cancel a batch | a dozen steps over three systems, each may fail; the guard is one query |
| Virtual keys | `lib/litellm/keys.ts` | keys in LiteLLM, a copy in the slots' rows | generate, block | a key must be found again to be blocked |
| Submission pipeline | `triggerPackaging`, `lib/k8s/examResources.ts`, `app/api/internal/submissions/package` | a Job, two objects per attempt, `submission_files` | pack, upload, report, register | pods that fail and are retried while the student's websocket is open |
| Problems | `lib/services/problemService.ts`, `lib/storage`, `repositories/problems.ts` | `exam.problems`, `problem_versions`, bucket exam-scaffold | upload, overwrite, delete | rows and objects share no transaction |
| Scaffold archives | `lib/storage/scaffoldNormalize.ts`, `zipExtract.ts`, `tarPack.ts`, `tgzPreview.ts` | none | unpack, drop junk, take wrapping folders off, pack | which folder is a wrapper is guessed from names that the tool and the operating system have a part in |
| Batches and their pages | `lib/services/batchService.ts`, `repositories/batches.ts`, `app/(app)/admin/batches/**` | `exam.batches`; what a tab shows and waits for | create, change status, delete, open, close, cancel, import | every other part reads the status; a button follows rows read long ago |
| Lists and their cache | `lib/cache` | Redis | getOrSet, invalidate | a read that is set after the invalidation |
| Accounts and rosters | `batchService.importRoster`, `staffService`, `xlsxRoster.ts`, `repositories/users.ts`, `roster.ts`, `organizations.ts` | users, org_members, attempts, roster_imports | import, invite, delete students, batches, organizations | one transaction with a try/catch per row; look first, delete later |
| Session and roles | `lib/auth`, `authService.ts`, login, logout and password change | a signed cookie | log in, log out, change the password, read, check | a copy of the database nobody compares again; replies that overtake each other |
| Result pages and dashboards | `app/(app)/org`, `/my`, `/admin`, `dashboardService.ts`, `attemptService.ts` | none | which rows are shown to whom | they trust the cookie |
| Browser | `app/(exam)` | what a page shows, countdown, polls, calls under way | start, wait, count down, submit | its clock; calls that get lost or arrive late |
| Proxy and authorisation | `server.mjs`, `app/api/internal/exam-authz` | none | let a request through to a pod | an open websocket outlives its permission |
| UI packages, marketing pages, deployment | `packages/*`, `app/(marketing)`, `deploy`, `infra` | none | render, configure | none |

How they talk. The browser calls the exam runtime over HTTP; the waiting room's
poll of `slot-status` runs the reconciler, there is no background process. The
runtime and the reconciler meet in PostgreSQL, in `hosted.slots` and
`hosted.entry_queue`, and only row locks and one advisory lock order them. The
reconciler and the environment meet in the StatefulSet (`replicas`), without any
lock. A packaging Job is created after the commit of a submission and calls back
over HTTP; a Job retried by Kubernetes calls back again. The problems feed the
environment through one ConfigMap value, SCAFFOLD_REF, read at provision. The
administrators' pages change batches, accounts and organizations by server actions,
which a tab sends one after the other and several tabs side by side; the lists of
batches are read through Redis, everything else from PostgreSQL. Every page is
computed from the cookie that comes with the request.

What makes each part correct, informally: a student is in one slot or in the queue,
never in two and never in neither; the queue is first come, first served; an
attempt closed by the deadline was overdue; a submission is final; a closed batch
admits nobody; a pod serves one student, in a workspace seeded for her batch with
nobody else's work in it and with a key that will be blocked; what is registered is
stored, complete and unchanged; a version in use exists and its scaffold can be
fetched; students find a project's files where they are in the project; an import
enrols everybody it lists or nobody; an attempt has an account and survives what is
deleted; a page shows what its reader's organizations own; an overdue attempt is
collected by the browser of its student. `PROJECT.json` lists the hazards behind these at their lines.

## 2. The models

A database transaction is one action when it locks what it decides on. What a
handler does in more than one transaction, or reads before its transaction, is
several actions, with the values carried in a record of that request. A
definition whose comment begins with "Mutant:" is no part of a specification: it is a
plausible mistake in the definition that follows it, and shows that the
properties notice it.

**SlotsRepo** has no state: it is the statements of `slots.ts` as operators on two
columns (`state`, `owner`), used by ExamHall for one batch and by PoolOps per batch.

**ExamHall** is one open session from the end of provision to the end of the close.
`status`, `deadline`, `submittedAt`, `closedBy` are columns of the attempts,
`slotState`, `slotAttempt` of the slots, `enqueuedAt` of the queue. In flight:
`req` (startExam: `StartCheck` reads outside the transaction, `StartBegin` takes
the timestamp NOW() will have, `StartTx` is the transaction), `rec` (reconcilePool
under its advisory lock: `ReconcileLock`, `ListPods`, `SyncSlotsUp`,
`SyncSlotsDown`, `AssignHead`, `MeasurePool`, `Scale`), `sweep` (a list and one
transaction per id, for the operator's sweep and the close's), `closing`
(closeBatchEnvAction), `pkg` (what is left of the pipeline: due, Job,
callback). Kubernetes is `PodReady` and `PodLost`.

**SeatAllocation** is what the pool promises: a seat is taken by an attempt without one
and kept until the room is cleared; it is never passed on. ExamHall implements
it under the mapping `Holder` (the attempt of a row in a used state).

**AttemptRecord** is what the rows of `exam.attempts` promise, whoever writes them: an
attempt that has ended is not moved, a deadline moves only while the attempt is live, and
none gives more time than an exam and the minutes operators have granted. ExamHall
implements it for a roster, ExamClient for the one student in front of its browser, so
that the two models of the same handlers agree on what they do to a row.

**PoolOps** is the environment over its whole life: several batches, one after the
other or too close together, on one StatefulSet. provisionBatch and closeBatch
are one action per call that changes something, and may stop after any of them
(`OpFails`). A volume is a record of the batch that seeded it and of the attempts that
worked in it; a pod keeps the key it exported when it started. The hot path is
coarse here (no order in the queue, no clock), because ExamHall has it.

**Packaging** follows one submission: the student's two directories are version
numbers, an archive, its hash and its object are the version they were taken
from. `Submit` remembers the volume; the pods of the Job pack the two
directories one after the other while a websocket may still write to them,
upload, report and are answered, and may fail in each step (`PodFails`, up to
`BackoffLimit` retries). Reports stay in `calls` and are delivered in any order.

**SubmissionRecord** is what the pipeline promises: work is handed in once, and what is
on record afterwards, made once or several times over, lies between what was handed in
and what has been written since. Packaging implements it with the volume as the work
and the registered files as the record; pods, objects and reports disappear.

**ProblemStore** has the rows, the lock an upload's upsert holds on the problem, the
objects, and the requests of several administrators step by step: put before
insert, update before remove, commit before sweep. At the other end, provision reads
the ref once and pods seed their empty volumes from it whenever they start.

**Archive** follows a scaffold from the administrator's disk to the stored .tgz:
`Archived` is what a zip or tar tool makes of the project (wrapping folders, junk
of the operating system, links, headers for long names), `Extract`, `Unwrap` (one
wrapping folder per step) and `Pack` are normalizeScaffoldArchive with the readers and
the writer it calls, `Reupload` sends the stored archive through it again. A path is a
sequence of names and a name one unit of length; the content of a file is the
path it has in the project. Nothing on a disk is named "." or ".." (`OnDisk`).

**Accounts** has the tables `users`, `members`, `attempts`, `status`, `orgs` and `imports`,
and in `job` the open transactions, statement by statement: what each has written and
not committed, and the row of the sheet it is at. Transactions run at READ
COMMITTED: `UsersSeen` is what a statement sees, an INSERT waits while another open
transaction has written its unique key and aborts when that one has committed.
An import is a pasted roster, an .xlsx (`Column`, `XlsxRows` find its columns by their
headers) or a single student; an invitation of staff is the same steps without a
roster. Nothing on the way checks that the text in the e-mail column is an address, so
what a cell holds (`Cell`) may be anything a sheet holds, a student number or a name
included, or nothing. Deletions look (`LookAtStudent`, ...) and delete in a later step. `shown` and
`raced` are history: passwords somebody has read, accounts deleted while an import
was enrolling them.

**Access** has the cookie of each browser as a record (whose it is, the roles copied
at login, the reminder to change the password, its age) and the requests in flight in
`req`: a login checks, reads the roles and replies, a password change verifies, writes
and replies, and replies arrive in any order or not at all. Administrators enrol,
promote, deactivate and delete meanwhile. From the queries up to the guards, the
pages are operators that say which pairs <<organization, student>> they show to the
holder of a cookie. `granted` and `holder` are history.

**Console** is the administrators' tabs: `past` holds every row a batch has had, since
a page may be as old as its reader likes; `Offered` is what such a row's buttons are;
`job` is the server action a tab waits for, `modal`, `asked` and `result` are its roster
dialogue, a click not yet sent and the summary it keeps. `cache` and `load` are
the lists in Redis and on their way there, with their age. `env` is the batch the
environment was provisioned for; how provisioning goes is PoolOps.

**ExamClient** is one student's browser beside one attempt: `page` (what each tab shows,
the deadline it was rendered with, the question to submit on the screen, the call it
waits for), `calls` (start and submit on their way), `expiry` (the call
of the countdown), the server's row, and a clock of the browser that differs from the
server's by `skew`. A timer is not late by more than what blocks it: `Tick` waits
until the timers that are due have fired. A question on the screen stops them.

**MC modules** give the instances their symmetry, rosters, projects and clocks.
**ExamHallProofs**, **PoolOpsProofs**, **PackagingProofs**, **ProblemStoreProofs**,
**AccountsProofs**, **AccessProofs**, **ConsoleProofs** and **ExamClientProofs** hold
the proofs; ProblemStoreProofs also has those about Archive, which makes the files that
ProblemStore keeps.

Abstractions. Names, files, keys and archives are model values or numbers.
Wording, logging, sums and layout are left out. `positionOf`
and the heartbeat are read by no operation that changes anything. Transactions
that PostgreSQL aborts change nothing and so are not taken. The clock of
ExamHall ticks in units of which an exam lasts `Duration`; two events of one tick
are simultaneous.

### Rules the code does not enforce

Two models take a constant `Rules`, and Console has a history variable `calm` for
the same purpose. They restrict what operators do, not what the
code does, and the README of an operations team should say the same:

- PoolOps `"alone"`: one session at a time; nobody opens a batch while another is
  open, while another open or close is under way, or before the last reconcile
  has ended. `"close"`: an open batch is torn down only with the button that closes
  it first, not by cancelling it.
- ProblemStore `"alone"`: an overwrite or a deletion has the store to itself.
  `"frozen"`: the scaffold of a batch is not overwritten while the environment
  is up for it.

- Console `calm`: environments are opened and closed one at a time and with the
  buttons of the batch's own page, and no such action dies half-way.
  EnvFollowsStatus says what holds then, however old the pages are.

PoolOps_overlap and PoolOps_cancel.cfg show what happens when one of the PoolOps
rules is dropped. For ProblemStore the same instance was run by
hand with fewer rules: without `"frozen"`, RefIsStored and SessionSeedsAlike
fail; without `"alone"`, OnlyOverwriteChanges fails as well; TypeOK,
UploadsNeverCollide and UsedVersionsExist hold under every choice, which is also
what is proved.

## 3. The runs

Every bound is a CONSTANT of its module. `Events` and `Rules` choose what happens
at all: a run leaves out what its question does not need, and another run has it.

| run | instance | question |
|---|---|---|
| ExamHall_seats | 3 students, 1 start in flight, pool 2 of which 1 warm, 1 tick | is anybody lost, doubled or overtaken; does the hall implement SeatAllocation |
| ExamHall_deadlines | 2 students, pool 1, 2 ticks, 1 extension | sweep, extension, void and close against starts and a reconcile under way; does the hall implement AttemptRecord |
| ExamHall_live | 2 students, pool 2, 1 pod lost | is every waiting student seated in the end |
| PoolOps_session | 2 batches with one student each, pool 1, 2 keys | workspace and key, with failures at every step |
| Packaging_capture | 2 changes to each directory, 2 failing pods | what is registered is stored, complete and kept; does the pipeline implement SubmissionRecord; every submission is registered |
| ProblemStore_versions | 2 administrators, 2 file names, 2 pods, 4 files | numbers, refs and seeds under interleaved maintenance |
| Accounts_rosters | 2 requests, 2 e-mails, 2 account ids, 1 student number, 1 organization, 2 batches, 2 sheets | is an import all or nothing, does a password that was shown work, what do deletions leave behind |
| Access_sessions | 1 browser, 2 requests in flight, 2 users, 2 organizations, a cookie of 2 hours renewed once, 2 changes by administrators | what a stale cookie still shows, and to whom; which session a browser holds after replies overtake each other |
| Console_pages | 2 batches, 1 tab, TTL 1, queries within a tick, 2 changes | do the environment and the status ever part; can a list outlive a change; under which batch does a summary appear |
| ExamClient_page | 1 tab, 1 call at a time, a clock 1 ahead or behind, an exam of 1 tick, 2 ticks, 1 extension | is an overdue attempt collected, does a seat reach its student, which submissions come late; does the row keep AttemptRecord |
| Archive_scaffolds | all projects over two names (two levels with links and empty directories, three with files, some with a junk file of their own), 4 wrappings, every tool; names of 2, prefixes of 1, 9 entries, a guard of 2 | are files where they are in the project; is the stored archive a fixed point |
| PoolOps_overlap | 2 batches, 1 pod | a text of the repository against the code: TLC finds the violation (section 5) |

Five more configurations are kept beside them for the disagreements of section 5:
ExamHall_empty, PoolOps_cancel, PoolOps_stale, Packaging_seal and Packaging_wipe. In each
TLC finds the one property it names violated (`tlc -config PoolOps_cancel.cfg
MCPoolOps`, for instance).

Why these bounds are enough. Three students and two slots are the least for one
to be seated, one to wait and one to try to pass, with a scale-up between. Two
students suffice for deadlines, because each property there is about one attempt
and what happens around it; two ticks let a deadline be set, pass, and be
extended past. `req` has one slot per run: starts for different attempts
meet in the database, which the order of `StartTx` covers; two stale checks at once
only matter to deadlines (section 5). In PoolOps one student per batch is
enough to own a slot and one in the other batch to inherit it; `PoolOps_cancel` adds a
classmate. Two keys are two provisions that get as far as issuing one. In Packaging, a
version is only compared with others, and version 2 is "after the submission" for each
directory; BackoffLimit + 1 pods is what the Job allows. In ProblemStore four files
allow an upload, another one or an overwrite under the same or another name,
and something to follow; what three requests could do at once is, under
`"alone"`, uploads only, and those the lock puts in a row; the proofs have no bound.

In Accounts two open transactions are the least that can wait for each other or for
each other's keys, and the third party, who deletes, needs no transaction of her own
to be in the way; the sheets list one e-mail after the other and in the opposite order
(the order decides who waits), with a row without a name, an e-mail column twice, and
one student number twice (which aborts). In Access two
requests can overtake each other, two organizations are one that made the reader its
administrator and one that did not, and two changes are a promotion and what withdraws
it; one renewal shows what a second term means. In
Console one tab suffices, for its own pages may be as old as anybody's; the other tab's
changes are those the first one's pages do not show yet. Actions of several tabs at once, and
the ages of lists under longer TTLs, were checked in smaller instances by hand and are
what the proofs cover, which have no such bounds. In ExamClient the instance
has an instant before, at and after the deadline for either clock. In Archive
two names are the least for a folder that is a wrapper and one that is not, and
the limits are small so that names meet them.

`CHECK_DEADLOCK FALSE` is in every cfg whose system really stops: the exam
ends, the last file is sent, the archive is stored. ExamClient, whose run is about
liveness, is checked for deadlock too.

Every module but the three abstract ones and SlotsRepo, which has no state, has a TypeOK, and
it is proved for each; the runs check it in ExamHall and Accounts, where it says
something about the code (the pods asked for are within the pool, no loop runs past
the sheet). In ProblemStore it also says that the lock on the problem is held exactly
while an upload is under way.

The run PoolOps_session leaves out the event `"route"` (the internal routes of
`exam-ops.sh`, which provision and close without touching the batch's status) to
stay within minutes. The same properties were checked by hand, to the end, with
the events {submit, route, list, lose}, {route, fail} and {route, cancel}: 2 to
4 million states each, no violation.

### Fairness

*ExamHall* (`FairSpec`): weak fairness of `ReconcileLock` while a running student is
not seated, because `WaitingForSlot.tsx` polls for as long as its page is open and
every poll offers a reconcile. Strong fairness of each step of the reconcile: a
step may fail (`ReconcileFails`) and the next poll starts over, so it is
reached again and again, and we assume that the database and the Kubernetes API
do not fail every single time. Weak fairness of `PodReady`: a pod that is asked
for starts in the end. Nothing is assumed of students or operators.

*Packaging*: weak fairness of the trigger (it succeeds, fails or dies), of the
steps of a pod and of the delivery of a report. Failures are bounded by
`MaxFailures = 2`, that is: we assume Kubernetes does not exhaust the backoff
limit. With three failures the property is false, as it has to be.

*ExamClient*: weak fairness of the clock, of the countdown and of the poll of each page,
because intervals of a page go on firing; strong fairness of the arrival of the
expire call, of reading the runtime and of rendering, because they are tried again and again and
we assume that not every single try is lost. Nothing is assumed of the
student, who may leave the page, leave the question to submit on the screen or
do nothing at all, nor of her clicks' calls. OverdueIsCollected leans on the repetition: `Countdown.tsx:7`
says the callback runs once at zero, but the interval calls it every second,
and its mutant `CallsOnce` is what the comment says.

### Mutants

Every property of a passing run has a mutant in `PROJECT.json`, written above the
definition it replaces: a queue insert that is lost, a start that does not look at
the batch again inside its transaction, a sweep that trusts its list, a scale-up
that forgets who is seated, a ConfigMap that is only created and never replaced, a
submission that does not ask for the status, a Job without a second try, an upsert that locks nothing, an import that goes on in an aborted transaction, a
cookie that slides, a reply that sets it although the change was refused, a cache
key that is not invalidated, a countdown that calls once, and so on. TLC refutes
the property once the mutant is in place.

## 4. The proofs

TLC's instances are small; the theorems hold for any number of students, slots,
requests, administrators, names, pods, files, ticks and versions. They assume only
the named ASSUMEs of the modules: sizes are natural numbers, Null is nobody's
name, the warm count fits into the pool, a roster is finite, nothing on a disk is
named "." or ".." (`OnDisk`). One more is a result about data:
`RowsAssumption` in Accounts says that the rows read from a sheet have the fields of a
roster row. It follows from the type of the sheets, but by induction over the rows
(`XlsxRows` filters them), which the prover cannot do; TLC evaluates it for
the sheets of the run.

**ExamHall.** `TypeSafety` first. `SeatInv` (nobody has two slots, or a slot and
a place in the queue) is inductive with it; the step that could break it is the
assignment, `AssignKeepsSeats`. `HallAllocatesSeats` is the refinement: the
initial states map to initial states, every step to a `Take`, a `ClearRoom` or a
stutter. `RunningIsPlaced` and `ReleasedSlotsAreSubmitted` are not inductive:
`PlacementInv` adds that while the batch is open a row with an owner is in use, and
that the teardown begins with a closed batch.
`CollectedInv` adds that an attempt with a closer is submitted, without which
an extension could move the deadline of a collected attempt. `CloseProgress`
follows the close's sweep: a running attempt that is not on its list, or no longer,
has a deadline that had not passed when the list was read.
`DeadlineInv` bounds the deadlines in the rows, and those that starts carry, by a whole exam
and what was granted so far; with it every step is one of AttemptRecord's or a stutter
(`RowsAreKept`). The second half is needed because a start writes what it read before its
transaction. `Finality`,
`Admission` and `QueueOrder` are action properties; they need the types and a look
at each action.

**PoolOps.** `OwnWorkspace` and `RevocableKey` are proved with the rules "alone" and "close"
(`Disciplined`); without them they are false (section 5). The invariant is `SessionInv`,
in parts: an operation under way is the only one, and no batch is open beside it
(`OneOperation`); the ConfigMap names the batch that is open, that is being reconciled or
that has busy rows (`ConfigMapIsCurrent`), and every volume is seeded from it
(`VolumesAreCurrent`); no reconcile and no busy slot accompanies a provision
(`ProvisionsAreUndisturbed`); a batch that was never open has left no trace
(`ScheduledIsUntouched`); in an open batch only the holder of a row has worked in its
volume (`WorkIsTheHolders`) and the pods spend the key that its rows record
(`KeysAreRecorded`). The delicate stretch is the provision itself, where volumes, Secret,
ConfigMap and rows are changed one after the other and any call may fail: `StagesHold`
says what each step may rely on (no pods, no volumes, nobody's work, a key, the
ConfigMap, the Secret, rows without attempts), and the opening turns that into
the invariants of an open batch.

**Packaging.** `PipelineInv` ties the stages together: nothing exists before the
submission, what a pod carries was taken after it, what it reports has been
uploaded. `Stored`, `Complete` and `Kept` (no report takes a file away) follow; the run
checks the last one as a part of the refinement. `RecordInv` adds the other bound,
that nothing is captured, reported or registered which is not on the volume, and that
the status says whether something has been handed in. With it every step is a `Write`,
a `HandIn`, a `Store` or a stutter of SubmissionRecord (`RecordStep`), so the pipeline
implements it (`PipelineRecords`).

**ProblemStore.** `StoreInv` (whatever the rules): the lock goes with the upload, a
writer has its key and file, the number of an upload is above every row, the version in use
is never among those a delete has locked. `ScaffoldInv` (both rules kept)
has ten parts, each of which some step depends on: a maintainer is alone, files
are fresh, rows differ in id and number, an upload has put before it inserts, an
overwrite stays within its version and removes an object no row refers to, a sweep
comes after every row is gone, the environment's ref is that of a row in use,
that row is not being overwritten, every row's object is there, and a seeded
volume holds what the ref still holds. `RefsLead`, `SeedsAgree` and
`OnlyOverwrites` follow.

**Accounts.** TypeOK is inductive with two facts about what is under way: a request outside
a transaction has written nothing, one inside has the batch, the organization and the
results that fit its kind and its row (`RequestsFit`); a deletion that would orphan what it
saw is not asked for (`QuestionFits`). `RosterInv` has, besides WholeImport and
OrphanOnlyByRace, the progress of each import: a row it is through with is an error for
want of an e-mail, or has an account, a membership and an attempt, each committed or
written by the transaction itself, or its account was raced. What carries this
through the statements of the others is that nobody an import relies on disappears
uncounted: `raced` remembers the accounts deleted although they had been enrolled since
the look, or were being enrolled. `PasswordInv` says why a temporary password that was
shown opens its account until it is replaced: there is one account per e-mail among what is
committed and what is not, because an INSERT waits for the other transaction with its
key (`Inserts`); what a request will reply opens an account it has inserted itself
(`Replies`); only invitations forget the password they made (`InvitedOnly`).
`HistoryStays` needs the types and a look at each action.

**ExamClient.** `ClientInv` says with the types that no deadline is further away than the
extensions granted so far allow, that whoever runs has a deadline and so has every page
that shows the exam, and that the question to submit came up before the page's own
time was up. `Punctuality` (LateSubmissionsWereAskedInTime) follows from the last part
by arithmetic on the two clocks, `RowIsKept` (the refinement of AttemptRecord) from the
first one.

**Archive.** The model has no recursion over trees of files: normalizeScaffoldArchive takes
one folder off in each round of its loop, and so does `Unwrap`. While folders come off,
`Layout` relates the list to the project entry by entry: every file is one of the project's,
behind what is left of the wrapping folders (`Placed`), and nothing of the project is
missing (`Complete`). Extraction establishes it for either format (`ExtractLays`), each
round preserves it (`UnwrapLays`), and the loop stops exactly when the tool's folders are
off: as long as one is left it is seen (`WrapperSeen`), and what would be taken off
beyond them is a folder of the project's own (`OwnFolder`). These are the parts of `RootInv`,
from which `ArchiveKeepsTheRoot` (RootIsPreserved) follows. `NormalInv` adds for
`ArchiveIsNormalizedOnce` that no name on the list is one that reading would drop or
rewrite (`Cleared`), and that what is stored is tidy and has no wrapper (`Settled`).
Packing and reading are inverse (`PackedEntries`, `EntriesPacked`), so the second time
there is nothing to do. The specification's definitions carry the module's name
(`ArchiveSpec`, `ArchiveTypeOK`) because ProblemStoreProofs extends it beside ProblemStore.

**Access.** `SessionInv`: rights were granted once, a cookie or a request in flight lists
only such rights, was read at most its age and `MaxAge` for each renewal ago, and
carries the reminder unless the password was replaced or the account is gone. That a
reply finds all this as its request left it needs that the database only grows in these
respects (`DatabaseGrows`). Staleness, Reminder and Scope follow. `HolderInv` adds
that a password change under way belongs to the session the browser holds, or the
holder counts as disturbed; LastLogin is its first half.

**Console.** `ConsoleInv` has three parts. `Shape` is the types. `Lists`: a list on its
way is as old as its query, one in the cache loses a tick of its TTL with each it gets
older, and whatever is stale was late. `Orderly`, which is worth something while `calm`:
at most one action that operates on an environment is under way, `Between` says how
far it has got with status and environment, and every other batch is settled.
EnvFollowsStatus is `Orderly` with nothing under way. ResultsAreLabelled needs the
types and a look at each action.

Left to TLC: the liveness properties (WaitersAreSeated, SubmissionsAreRegistered,
OverdueIsCollected, SeatReachesPage; fairness is out of the prover's reach) and the
violations, which are counterexamples. Every other property of a passing run is stated by a
theorem.

## 5. Where the code and its texts disagree

With a configuration that shows it; the first is the run with a finding in
`PROJECT.json`:

1. PoolOps_overlap: the only guard of provisionBatch is hasBusySlots (`examOpsService.ts:83`),
   which sees assigned and submitting slots, not open batches; before the first start
   of the first batch a second one takes its pods over and two students share one.
   `docs/6-implementation-plan.md:26`: "동시 활성 회차 1개(provision 가드가 강제)".
2. ExamHall_empty: reconcilePool looks at the batch once (`examOpsService.ts:339`); one that
   passed before the close syncs a slot to ready and assigns it after markBatchDown. The
   assigned slot stays in the closed batch and blocks every later provision;
   `examOpsService.ts:220` says markBatchDown runs always so that no busy slot is left.
3. PoolOps_cancel: cancelBatchAction (`[id]/actions.ts:111`) tears an open batch down and sets
   the status afterwards; a poll in between syncs a slot that was taken down back to
   ready and assigns it, on the unwiped volume, to the next student.
   `docs/2-exam-environment.md:203`: always wipe and reseed before a slot is assigned again.
4. PoolOps_stale: resetBatchSlots (`slots.ts:230`) clears attempt_id only in the rows of the batch
   being provisioned; a late submission in a closed batch captures, as verified, the volume
   that now belongs to a student of the next batch. `slots.ts:236`: "다음 provision의 reset이
   정리".
5. Packaging_seal: all pods of a Job upload to one key (`examResources.ts:186`); when a report is
   registered but its answer lost, the next pod overwrites the object with a volume that has
   changed and may fail to report: the old sha256 beside the new object.
   `docs/5-storage-submission-pipeline.md:190`: "서버측 패키징 + sha256 봉인".
6. Packaging_wipe: closeBatch marks submitting slots down without waiting for their Jobs, so the
   next provision may delete them and their volumes (`examOpsService.ts:96`);
   `docs/6-implementation-plan.md:207` has the order "accepted, then close, then wipe".

Without a run, because they are certain as soon as one reads the code; the models
have them:

- A late submission is accepted. `intro/page.tsx:32` tells the student that the server
  refuses it, `0003_exam.sql:52` that the submit transaction judges the deadline
  again; `Submit` has only the status in its guard, because submitExam has.
- The deadline of a student who waits runs. `WaitingForSlot.tsx:93` says the time
  counts from entering; `examService.ts:81` sets the deadline at the start, before
  there is a seat. `AssignHead` starts it anew when the seat comes, but a student
  whose countdown ends before that is collected unseated.
- `examService.ts:80` keeps a deadline "so that a restart adds no time", but reads it
  before the transaction that writes it: of two starts in flight the later commit
  wins, and an extension granted in between is lost.
- An attempt that ends while it waits stays in the queue (`entryQueue.ts:17` speaks
  of removal on leaving) and is given a pod that nobody releases before the close.
- `voidAttempt` leaves the slot assigned, which blocks provisions until the close.
- An extension granted to a student who waits is lost at her admission:
  reconcilePool sets the deadline to now plus the full duration.
- `0008_slot_window_states.sql:8` describes recycling to ready; no statement does it.
- `examService.ts:135,235` promises packaging again by an operator; there is no such
  operation. Packaging's `caller = "dead"` is final.
- `openBatchEnvAction` opens a batch only after its provision, "so that nobody enters a
  batch without slots"; the button of the list page (`AdminBatchesClient.tsx:152`)
  sets the status alone.
- A close collects who is overdue; running attempts with time left stay running in
  the closed batch, where only submit, expire and force-submit reach them.
- Closing an old batch a second time from the command line scales the shared
  StatefulSet of the running one to 0.
- `problemService.ts:102` says an overwrite does not affect pods that are up. Pods of
  the same session that start or restart later fetch the new object, or, when the
  name changed, none: then `fetch-scaffold` fails and the pod does not start,
  although its volume is already seeded.

In the browser (ExamClient):

- `intro/page.tsx:32` promises that late submissions are refused. The question of
  window.confirm stops the page's timers, so the answer may come any time after the
  deadline and is accepted; `ExamRuntime.tsx:94` says the IDE is closed by the server's
  authorization as well, but exam-authz looks at no deadline.
- `expired` is never taken back: after an extension, a refresh shows a page that is locked;
  getRuntimeWithSlot reads deadline and slot one after the other (`examService.ts:33`), so a
  page can show the pod with the deadline of before the admission and lock itself early.
- A browser clock that is fast locks the student out early and stops its polls.
- The page "done" says that the submission is complete also for a void attempt; a lost
  reply makes the page report a failure of a start or submission that went through; the
  waiting room never leaves an attempt that has ended.

Accounts, sessions and pages:

- `batchService.ts:125` says a temporary password exists in the reply only and cannot be
  looked up; migration 0011 keeps it, and `AdminBatchRosterClient.tsx:473` shows it at any time.
- The list of organizations is filtered by is_active (`organizations.ts:72`): a
  deactivated one disappears with its label and the buttons to delete it, which
  `deleteOrgAction` recommends doing after deactivation.
- `guard.ts:43` says that queries for organizations must restrict by org_id; getStudentForOrg
  shows a student's attempts of other organizations too. OrgScope says exactly how far.
- A session is never compared with the database. A deactivated or demoted account keeps
  its pages for the cookie's term, and a password change renews the stale copy; its
  reply, coming after a logout, logs the browser in again.
- `guard.ts:25` says others are sent to their own home; the code sends them to /login.
- Sums on dashboards are over a list cut at 50 batches; the lists of students and of
  submissions are cut at 50 without paging.

The administrators' pages (Console):

- `batches.ts:205` calls closed and cancelled final; setStatus opens them again.
- `AdminBatchesClient.tsx:54` says the new batch was added to the list; the list may be one
  read before the change, for up to its TTL.
- After the list's button ends a batch, no button tears its environment down.
- deleteBatch looks at the status first and deletes later: a batch opened in between
  by another tab is deleted all the same.
- Buttons that are not disabled while a request is pending: a double click extends a
  deadline twice; a second import replaces the first one's summary, and with it the
  only view of the passwords in that dialogue.

Scaffolds (Archive, ProblemStore):

- `scaffoldNormalize.ts:9` promises the right root whatever tool packed the project. A
  project that is itself a single folder is flattened (`:28` says so), also when only
  a dropped link makes it look like one; names that need POSIX's pax header are cut
  (`tgzPreview.ts:74`); more than 17 folders stay wrapped. RootIsPreserved names
  these exceptions.
- overwriteScaffold does not look whether the version is in use, and the
  question before it is asked by a page that may be old; deleteProblem looks again.
- `problemService.ts:34` refers to a function submitByod that no longer exists.

## 6. What is not modelled

- `app/console/page.tsx` and `ReportDoc.tsx` (demonstrations with built-in data), the
  gallery, marketing pages, UI packages, styles: no state of the system.
- Migrations and seed (alone before the program), Helm charts, setup scripts, the spike
  in `experiments`: configuration.
- The limit on database connections: reconcilePool holds one for its advisory lock
  and its transaction takes another, so enough reconciles at once wait for each other until
  the timeout of 5 s. ExamHall's reconciles just come late then.
- Row locks one by one: startExam locks attempt and then queue row, the reconciler the
  other way round; PostgreSQL aborts one, and an aborted transaction changes
  nothing, which is a step not taken. Accounts has the waiting of transactions that insert.
- A half-extracted scaffold (`40-exam.yaml:68`): seeding is one step.
- The HTTP client, the text of manifests, spend and expiry of keys, compression,
  checksums and character sets of archives, sums and layout of pages.
- `server.mjs` and the `ide` route: nothing calls them since the page embeds the
  Ingress; what the Ingress lets through is `Seated` in PoolOps, `editing` in
  Packaging.
- cacheService's increment and del: no caller.

## 7. What could follow

1. Row locks and the connection pool as modules of their own, refining ExamHall's
   transactions.
2. Pod life cycle: init containers, a half-seeded volume, restarts.
