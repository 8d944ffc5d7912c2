------------------------------ MODULE ExamClient ------------------------------
(***************************************************************************)
(* A student's browser during one attempt: introduction, running exam,     *)
(* waiting room, countdown and end, beside the server's view of the        *)
(* attempt.  The browser has a clock of its own, its calls get lost or     *)
(* arrive after it gave up on them, what a page shows is what the server   *)
(* said when it was rendered, and a question to the student stops every    *)
(* timer of the page.  What happens inside a server's transaction is       *)
(* ExamHall's subject; here each is a step.                                *)
(***************************************************************************)
EXTENDS Integers, FiniteSets

CONSTANTS
  Pages,         \* tabs of the student's browser
  Calls,         \* start and submit requests that can be under way at once
  Skews,         \* by how much the browser's clock may be ahead of the server's
  Duration,      \* DEFAULT_DURATION_MIN
  Horizon,       \* the last instant of a run
  MaxExtensions, \* extensions an operator grants
  None

ASSUME ClientAssumption ==
  Skews \subseteq Int /\ {Duration, Horizon, MaxExtensions} \subseteq Nat /\ None \notin Int

VARIABLES
  now, skew,     \* the server's clock; the lead of the browser's
  batch,         \* status of the batch
  status, deadline, slot,   \* the attempt: its row, and the state of its slot
  extensions,
  calls,         \* each request: what it asks, how far it got, what it carries
  expiry,        \* each page: a call to the expire route is under way
  page           \* what each page shows and waits for

attempt == <<status, deadline, slot>>
vars == <<now, skew, batch, attempt, extensions, calls, expiry, page>>

Instants == 0 .. Horizon + Duration + MaxExtensions
Statuses == {"ready", "running", "submitted", "void"}
Urls == {"intro", "exam", "done"}
Runtime == [status : Statuses, deadline : Instants \cup {None}, open : BOOLEAN]
Load == [url : Urls, runtime : Runtime \cup {None}]
Call == [kind : {"start", "submit"}, pc : {"sent", "checked", "ok", "refused"},
         carry : Instants \cup {None}, shown : Instants \cup {None}, asked : Instants]
Page == [screen : {"away"} \cup Urls, startable : BOOLEAN, deadline : Instants \cup {None},
         slot : BOOLEAN, expired : BOOLEAN, asking : Instants \cup {None}, busy : BOOLEAN,
         call : Calls \cup {None}, load : Load \cup {None}]

TypeOK ==
  /\ now \in 0 .. Horizon /\ skew \in Skews
  /\ batch \in {"scheduled", "open", "closed"}
  /\ status \in Statuses /\ deadline \in Instants \cup {None}
  /\ slot \in {"none", "assigned", "used"}
  /\ extensions \in 0 .. MaxExtensions
  /\ calls \in [Calls -> Call \cup {None}]
  /\ expiry \in [Pages -> BOOLEAN]
  /\ page \in [Pages -> Page]

Away == [screen |-> "away", startable |-> FALSE, deadline |-> None, slot |-> FALSE,
         expired |-> FALSE, asking |-> None, busy |-> FALSE, call |-> None, load |-> None]

Init ==
  /\ now = 0 /\ skew \in Skews
  /\ batch \in {"scheduled", "open"}
  /\ status = "ready" /\ deadline = None /\ slot = "none" /\ extensions = 0
  /\ calls = [k \in Calls |-> None]
  /\ expiry = [p \in Pages |-> FALSE]
  /\ page = [p \in Pages |-> Away]

Live == status \in {"ready", "running"}
Overdue == status = "running" /\ deadline <= now
OnExam(p) == page[p].screen = "exam"
Asking(p) == page[p].asking # None
LocalTime == now + skew

Released == IF slot = "none" THEN slot ELSE "used"
EndAttempt == status' = "submitted" /\ slot' = Released /\ UNCHANGED deadline

-----------------------------------------------------------------------------
(* Pages: a page is asked for, the server reads the attempt and then the   *)
(* slot, and renders.                                                      *)

Ask(p, url) == page' = [page EXCEPT ![p].load = [url |-> url, runtime |-> None]]

Open(p) ==
  /\ page[p].screen = "away" /\ page[p].load = None
  /\ \E url \in Urls : Ask(p, url)
  /\ UNCHANGED <<now, skew, batch, attempt, extensions, calls, expiry>>

Leave(p) ==
  /\ page' = [page EXCEPT ![p] = Away]
  /\ UNCHANGED <<now, skew, batch, attempt, extensions, calls, expiry>>

ReadRuntime(p) ==
  /\ page[p].load # None /\ page[p].load.runtime = None
  /\ page' = [page EXCEPT ![p].load.runtime =
                [status |-> status, deadline |-> deadline, open |-> batch = "open"]]
  /\ UNCHANGED <<now, skew, batch, attempt, extensions, calls, expiry>>

(* Where each page sends who has no business on it.                        *)
IntroPage(s) == IF s = "running" THEN "exam" ELSE IF s = "ready" THEN "intro" ELSE "done"
ExamPage(s) == IF s = "ready" THEN "intro" ELSE IF s = "running" THEN "exam" ELSE "done"
DonePage(s) == "done"

Redirect(url, s) ==
  CASE url = "intro" -> IntroPage(s)
    [] url = "exam" -> ExamPage(s)
    [] url = "done" -> DonePage(s)

Startable(r) == r.open

(* The exam page keeps its client state when it is rendered again; a       *)
(* countdown that gets a deadline looks at the clock at once.              *)
Due(to, r) == to = "exam" /\ r.deadline <= LocalTime
Shown(p, to, r) ==
  LET before == IF OnExam(p) /\ to = "exam" THEN page[p] ELSE Away
  IN  [before EXCEPT !.screen = to, !.load = None,
                     !.startable = to = "intro" /\ Startable(r),
                     !.deadline = IF to = "exam" THEN r.deadline ELSE None,
                     !.slot = to = "exam" /\ slot # "none",
                     !.expired = before.expired \/ Due(to, r)]

Render(p) ==
  LET load == page[p].load
      r == load.runtime
      to == Redirect(load.url, r.status)
  IN  /\ load # None /\ r # None /\ ~ Asking(p)
      /\ \/ to # load.url /\ Ask(p, to) /\ UNCHANGED expiry
         \/ /\ to = load.url
            /\ page' = [page EXCEPT ![p] = Shown(p, to, r)]
            /\ expiry' = [expiry EXCEPT ![p] = expiry[p] \/ Due(to, r)]
      /\ UNCHANGED <<now, skew, batch, attempt, extensions, calls>>

LoadLost(p) ==
  /\ page[p].load # None
  /\ page' = [page EXCEPT ![p].load = None]
  /\ UNCHANGED <<now, skew, batch, attempt, extensions, calls, expiry>>

(* Waiting room: it polls on until a page with the slot replaces it; every *)
(* poll that hears of the slot refreshes the page.                         *)
(* Mutant: only the poll that takes part in the seating hears of it.       *)
HearsOfNewSeats == status = "running" /\ slot = "none"

HearsOfSlot == status = "running" /\ slot = "assigned"

Poll(p) ==
  /\ OnExam(p) /\ ~ page[p].expired /\ ~ page[p].slot /\ ~ Asking(p)
  /\ HearsOfSlot
  /\ page[p].load = None /\ Ask(p, "exam")
  /\ UNCHANGED <<now, skew, batch, attempt, extensions, calls, expiry>>

-----------------------------------------------------------------------------
(* Countdown                                                               *)

TimeIsUp(p) == OnExam(p) /\ page[p].deadline <= LocalTime
TimerDue(p) == TimeIsUp(p) /\ ~ page[p].expired /\ ~ Asking(p)

(* Mutant: as the comment of the component has it.                         *)
CallsOnce(p) == ~ page[p].expired

CallsExpire(p) == TRUE   \* the interval goes on after zero

CountdownFires(p) ==
  /\ TimeIsUp(p) /\ ~ Asking(p) /\ CallsExpire(p)
  /\ page' = [page EXCEPT ![p].expired = TRUE]
  /\ expiry' = [expiry EXCEPT ![p] = TRUE]
  /\ UNCHANGED <<now, skew, batch, attempt, extensions, calls>>

(* expireExam: the server judges by its own clock.                         *)
ExpireArrives(p) ==
  /\ expiry[p]
  /\ expiry' = [expiry EXCEPT ![p] = FALSE]
  /\ IF Overdue THEN EndAttempt ELSE UNCHANGED attempt
  /\ UNCHANGED <<now, skew, batch, extensions, calls, page>>

ExpireLost(p) ==
  /\ expiry[p]
  /\ expiry' = [expiry EXCEPT ![p] = FALSE]
  /\ UNCHANGED <<now, skew, batch, attempt, extensions, calls, page>>

-----------------------------------------------------------------------------
(* Start and submit                                                        *)

Send(p, kind, asked) ==
  \E k \in Calls :
    /\ calls[k] = None
    /\ calls' = [calls EXCEPT ![k] = [kind |-> kind, pc |-> "sent", carry |-> None,
                                       asked |-> asked, shown |-> page[p].deadline]]
    /\ page' = [page EXCEPT ![p].busy = TRUE, ![p].call = k, ![p].asking = None]

ClickStart(p) ==
  /\ page[p].screen = "intro" /\ page[p].startable /\ ~ page[p].busy
  /\ Send(p, "start", now)
  /\ UNCHANGED <<now, skew, batch, attempt, extensions, expiry>>

(* Mutant: the button does not look at the countdown.                      *)
SubmitAlways(p) == ~ page[p].busy

SubmitEnabled(p) == ~ page[p].busy /\ ~ page[p].expired

(* A timer that is due runs before the next click; confirm() blocks the    *)
(* page until it is answered.                                              *)
ClickSubmit(p) ==
  /\ OnExam(p) /\ ~ Asking(p) /\ ~ TimerDue(p) /\ SubmitEnabled(p)
  /\ page' = [page EXCEPT ![p].asking = now]
  /\ UNCHANGED <<now, skew, batch, attempt, extensions, calls, expiry>>

Confirm(p) ==
  /\ Asking(p)
  /\ Send(p, "submit", page[p].asking)
  /\ UNCHANGED <<now, skew, batch, attempt, extensions, expiry>>

Cancel(p) ==
  /\ Asking(p)
  /\ page' = [page EXCEPT ![p].asking = None]
  /\ UNCHANGED <<now, skew, batch, attempt, extensions, calls, expiry>>

At(k, kind, pc) == calls[k] # None /\ calls[k].kind = kind /\ calls[k].pc = pc
Answer(k, ok) == calls' = [calls EXCEPT ![k].pc = IF ok THEN "ok" ELSE "refused"]

(* Mutant: an attempt that has ended is not refused.                       *)
AdmitsEnded == batch = "open"

Admits == Live /\ batch = "open"

(* startExam reads outside its transaction ...                             *)
StartCheck(k) ==
  /\ At(k, "start", "sent")
  /\ IF Admits
     THEN calls' = [calls EXCEPT ![k].pc = "checked",
                      ![k].carry = IF deadline = None THEN now + Duration ELSE deadline]
     ELSE Answer(k, FALSE)
  /\ UNCHANGED <<now, skew, batch, attempt, extensions, expiry, page>>

(* ... and writes what it read.  Without a ready slot the student waits.   *)
StartTx(k) ==
  /\ At(k, "start", "checked")
  /\ Answer(k, Admits)
  /\ IF Admits
     THEN /\ status' = "running" /\ deadline' = calls[k].carry
          /\ slot' \in IF slot = "none" THEN {"none", "assigned"} ELSE {slot}
     ELSE UNCHANGED attempt
  /\ UNCHANGED <<now, skew, batch, extensions, expiry, page>>

(* submitExam: the status decides, not the clock.                          *)
Submit(k) ==
  /\ At(k, "submit", "sent")
  /\ Answer(k, status = "running")
  /\ IF status = "running" THEN EndAttempt ELSE UNCHANGED attempt
  /\ UNCHANGED <<now, skew, batch, extensions, expiry, page>>

Reply(p) ==
  LET k == page[p].call
  IN  /\ k # None /\ calls[k].pc \in {"ok", "refused"}
      /\ page' = [page EXCEPT ![p].call = None, ![p].busy = calls[k].pc = "ok",
           ![p].load = IF calls[k].pc = "refused" THEN @
                       ELSE [runtime |-> None,
                             url |-> IF calls[k].kind = "start" THEN "exam" ELSE "done"]]
      /\ calls' = [calls EXCEPT ![k] = None]
      /\ UNCHANGED <<now, skew, batch, attempt, extensions, expiry>>

(* A network error for the page; the request may still be under way.       *)
GiveUp(p) ==
  /\ page[p].call # None
  /\ page' = [page EXCEPT ![p].call = None, ![p].busy = FALSE]
  /\ UNCHANGED <<now, skew, batch, attempt, extensions, calls, expiry>>

Forgotten(k) ==
  /\ calls[k] # None /\ calls[k].pc # "checked" /\ \A p \in Pages : page[p].call # k
  /\ calls' = [calls EXCEPT ![k] = None]
  /\ UNCHANGED <<now, skew, batch, attempt, extensions, expiry, page>>

-----------------------------------------------------------------------------
(* The rest of the exam: operators, the queue, the clock                   *)

OpenBatch ==
  /\ batch = "scheduled" /\ batch' = "open"
  /\ UNCHANGED <<now, skew, attempt, extensions, calls, expiry, page>>

(* reconcilePool seats the student and counts the time from then.          *)
Seat ==
  /\ batch = "open" /\ status = "running" /\ slot = "none"
  /\ slot' = "assigned" /\ deadline' = now + Duration
  /\ UNCHANGED <<now, skew, batch, status, extensions, calls, expiry, page>>

(* closeBatch collects who is overdue and takes the slots down.            *)
CloseBatch ==
  /\ batch = "open" /\ batch' = "closed"
  /\ IF Overdue THEN EndAttempt
     ELSE slot' = Released /\ UNCHANGED <<status, deadline>>
  /\ UNCHANGED <<now, skew, extensions, calls, expiry, page>>

ForceSubmit ==
  /\ Live /\ EndAttempt
  /\ UNCHANGED <<now, skew, batch, extensions, calls, expiry, page>>

VoidAttempt ==
  /\ Live
  /\ status' = "void"
  /\ UNCHANGED <<now, skew, batch, deadline, slot, extensions, calls, expiry, page>>

ExtendDeadline ==
  /\ Live /\ extensions < MaxExtensions
  /\ extensions' = extensions + 1
  /\ deadline' = 1 + (IF deadline # None /\ deadline > now THEN deadline ELSE now)
  /\ UNCHANGED <<now, skew, batch, status, slot, calls, expiry, page>>

(* Nor is it late by a tick of the clock.                                  *)
Tick ==
  /\ now < Horizon
  /\ \A p \in Pages : ~ TimerDue(p)
  /\ now' = now + 1
  /\ UNCHANGED <<skew, batch, attempt, extensions, calls, expiry, page>>

Next ==
  \/ \E p \in Pages :
       \/ Open(p) \/ Leave(p) \/ ReadRuntime(p) \/ Render(p) \/ LoadLost(p) \/ Poll(p)
       \/ CountdownFires(p) \/ ExpireArrives(p) \/ ExpireLost(p)
       \/ ClickStart(p) \/ ClickSubmit(p) \/ Confirm(p) \/ Cancel(p)
       \/ Reply(p) \/ GiveUp(p)
  \/ \E k \in Calls : StartCheck(k) \/ StartTx(k) \/ Submit(k) \/ Forgotten(k)
  \/ OpenBatch \/ Seat \/ CloseBatch \/ ForceSubmit \/ VoidAttempt \/ ExtendDeadline
  \/ Tick

Spec == Init /\ [][Next]_vars

(* Clocks run; an interval that goes on calling gets through in the end,   *)
(* and so does a page that is asked for again and again.                   *)
Fairness ==
  /\ WF_vars(Tick)
  /\ \A p \in Pages :
       /\ SF_vars(ReadRuntime(p)) 
       /\ WF_vars(CountdownFires(p)) /\ SF_vars(ExpireArrives(p))
       /\ WF_vars(Poll(p)) /\ SF_vars(Render(p))

FairSpec == Spec /\ Fairness

-----------------------------------------------------------------------------
(* An attempt whose time is up is collected as long as one page shows the  *)
(* exam, whatever the browser's clock says, however often the deadline was *)
(* moved behind the page's back and however many calls get lost.  Only the *)
(* question whether to submit, left on the screen, keeps the page silent.  *)
(* (Countdown, handleExpire)                                               *)
PastHorizon(p) == page[p].deadline - skew > Horizon
OverdueIsCollected ==
  \A p \in Pages :
    Overdue /\ OnExam(p)
      ~> ~ Overdue \/ ~ OnExam(p) \/ Asking(p) \/ PastHorizon(p)

(* A student in the waiting room who was given a pod gets to see it, unless *)
(* the countdown of the old deadline or the end of the attempt comes first. *)
(* (WaitingForSlot, ExamRuntimePage)                                        *)
SeatReachesPage ==
  \A p \in Pages :
    OnExam(p) /\ ~ page[p].slot /\ slot = "assigned" /\ status = "running"
      ~> page[p].slot \/ page[p].expired \/ Asking(p) \/ ~ OnExam(p)
           \/ slot # "assigned" \/ status # "running"

(* Whatever pages ask for, twice or late, and whatever deadline a start    *)
(* carries: the student's row keeps the promise that the rows of the hall  *)
(* keep, so the two models agree on what the server does to it.            *)
(* (startExam, submitExam, expireExam)                                     *)
Hers == {"her"}
Row == INSTANCE AttemptRecord WITH
  Attempt <- Hers, Full <- Duration, granted <- extensions,
  status <- [a \in Hers |-> status], deadline <- [a \in Hers |-> deadline]
HerRowIsKept == Row!Spec

(* A submission that is accepted after the deadline had its question on    *)
(* the screen in time, or came from a page whose clock is slow or that     *)
(* shows more time than the attempt has.                                   *)
(* (submitExam, the submit button of ExamRuntime)                          *)
InTime(k) == calls[k].asked < deadline \/ skew < 0 \/ calls[k].shown > deadline
LateSubmissionsWereAskedInTime ==
  [][\A k \in Calls : At(k, "submit", "sent") /\ Overdue /\ calls'[k] # None /\ calls'[k].pc = "ok"
       => InTime(k)]_vars
=============================================================================
