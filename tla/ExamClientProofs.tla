---------------------------- MODULE ExamClientProofs ----------------------------
(***************************************************************************)
(* For any number of tabs, requests and extensions, and any clock of the   *)
(* browser: what a page shows is well formed, and a submission accepted    *)
(* after the deadline began before the deadline its page showed.           *)
(***************************************************************************)
EXTENDS ExamClient, TLAPS

(* No deadline, and none that a start carries, is further away than a      *)
(* whole exam and the extensions granted so far.                           *)
Bounded ==
  /\ deadline # None => deadline <= now + Duration + extensions
  /\ \A k \in Calls :
       calls[k] # None /\ calls[k].carry # None
         => calls[k].carry <= now + Duration + extensions

(* Who runs has a deadline, and so has every page that shows the exam.     *)
HasDeadline(r) == r.status = "running" => r.deadline \in Instants
Dated ==
  /\ status = "running" => deadline \in Instants
  /\ \A k \in Calls :
       calls[k] # None /\ calls[k].pc = "checked" => calls[k].carry \in Instants
  /\ \A p \in Pages :
       /\ OnExam(p) => page[p].deadline \in Instants
       /\ page[p].load # None /\ page[p].load.runtime # None
            => HasDeadline(page[p].load.runtime)

(* The question to submit came up, and is answered, before the page's time *)
(* is up by the page's own clock.                                          *)
AskedInTime ==
  /\ \A p \in Pages :
       Asking(p) => OnExam(p) /\ page[p].asking + skew < page[p].deadline
  /\ \A k \in Calls :
       calls[k] # None /\ calls[k].kind = "submit"
         => calls[k].shown \in Instants /\ calls[k].asked + skew < calls[k].shown

ClientInv == TypeOK /\ Bounded /\ Dated /\ AskedInTime

LEMMA Initially == Init => ClientInv
<1> SUFFICES ASSUME Init PROVE ClientInv
  OBVIOUS
<1> USE ClientAssumption DEF Init, Away
<1>1. TypeOK
  BY DEF TypeOK, Page, Instants, Statuses
<1> QED
  BY <1>1 DEF ClientInv, Bounded, Dated, AskedInTime, OnExam, Asking

(* A step changes one page: the page it makes of it is all there is to see.*)
LEMMA OnePage ==
  ASSUME TypeOK, NEW p \in Pages, NEW r \in Page, page' = [page EXCEPT ![p] = r]
  PROVE  page' \in [Pages -> Page]
BY DEF TypeOK

(* Steps of the pages that touch nothing but what one of them shows.       *)
LEMMA PageSteps ==
  ASSUME ClientInv, NEW p \in Pages,
         Open(p) \/ Leave(p) \/ ReadRuntime(p) \/ LoadLost(p) \/ Poll(p)
           \/ Cancel(p) \/ GiveUp(p)
  PROVE  ClientInv'
<1> USE ClientAssumption DEF ClientInv, attempt
<1> DEFINE old == page[p]
<1>1. TypeOK'
  <2>1. old \in Page /\ Away \in Page
    BY DEF TypeOK, Page, Away
  <2>2. ASSUME NEW load \in Load \cup {None}
        PROVE  [old EXCEPT !.load = load] \in Page
    BY <2>1 DEF Page
  <2>3. [url |-> "exam", runtime |-> None] \in Load
        /\ \A url \in Urls : [url |-> url, runtime |-> None] \in Load
    BY DEF Load, Urls
  <2>4. CASE Open(p)
    BY <2>2, <2>3, <2>4, OnePage DEF TypeOK, Open, Ask
  <2>5. CASE Leave(p)
    BY <2>1, <2>5, OnePage DEF TypeOK, Leave
  <2>6. CASE ReadRuntime(p)
    <3> DEFINE read == [status |-> status, deadline |-> deadline, open |-> batch = "open"]
    <3>1. read \in Runtime
      BY DEF TypeOK, Runtime
    <3>2. old.load \in Load
      BY <2>1, <2>6 DEF Page, ReadRuntime
    <3>3. [old.load EXCEPT !.runtime = read] \in Load
      BY <3>1, <3>2 DEF Load
    <3>4. page' = [page EXCEPT ![p] = [old EXCEPT !.load = [old.load EXCEPT !.runtime = read]]]
      BY <2>1, <2>6 DEF ReadRuntime, TypeOK, Page
    <3> QED
      BY <2>2, <2>6, <3>3, <3>4, OnePage DEF TypeOK, ReadRuntime
  <2>7. CASE LoadLost(p)
    BY <2>2, <2>7, OnePage DEF TypeOK, LoadLost
  <2>8. CASE Poll(p)
    BY <2>2, <2>3, <2>8, OnePage DEF TypeOK, Poll, Ask
  <2>9. CASE Cancel(p)
    BY <2>1, <2>9 DEF TypeOK, Page, Cancel
  <2>10. CASE GiveUp(p)
    <3>1. [old EXCEPT !.call = None, !.busy = FALSE] \in Page
      BY <2>1 DEF Page
    <3> QED
      BY <2>10, <3>1, OnePage DEF TypeOK, GiveUp
  <2> QED
    BY <2>4, <2>5, <2>6, <2>7, <2>8, <2>9, <2>10
<1>2. Bounded'
  BY DEF Bounded, Open, Leave, ReadRuntime, LoadLost, Poll, Cancel, GiveUp
<1>3. Dated'
  BY DEF TypeOK, Dated, HasDeadline, OnExam, Page, Load, Open, Leave, ReadRuntime,
         LoadLost, Poll, Cancel, GiveUp, Ask, Away
<1>4. AskedInTime'
  BY DEF TypeOK, AskedInTime, Asking, OnExam, Page, Open, Leave, ReadRuntime, LoadLost,
         Poll, Cancel, GiveUp, Ask, Away
<1> QED
  BY <1>1, <1>2, <1>3, <1>4

(* The server's answer to a request for a page, which the page may show.   *)
LEMMA RenderStep ==
  ASSUME ClientInv, NEW p \in Pages, Render(p)
  PROVE  ClientInv'
<1> USE ClientAssumption DEF ClientInv, attempt
<1> DEFINE old == page[p]
           r == old.load.runtime
           to == Redirect(old.load.url, r.status)
           due == Due(to, r)
           shown == Shown(p, to, r)
           asked == [old EXCEPT !.load = [url |-> to, runtime |-> None]]
<1>1. /\ old \in Page /\ Away \in Page
      /\ old.load \in Load /\ old.load.runtime \in Runtime /\ old.load.url \in Urls
  BY DEF TypeOK, Page, Load, Away, Render
<1>2. to \in Urls /\ (to = "exam" => old.load.runtime.status = "running")
  BY <1>1 DEF Redirect, IntroPage, ExamPage, DonePage, Urls, Runtime, Statuses
<1>3. to = "exam" => old.load.runtime.deadline \in Instants
  BY <1>1, <1>2 DEF Dated, HasDeadline, Render
<1>4. /\ ~ Asking(p)
      /\ \/ page' = [page EXCEPT ![p] = asked] /\ expiry' = expiry
         \/ /\ page' = [page EXCEPT ![p] = shown]
            /\ expiry' = [expiry EXCEPT ![p] = expiry[p] \/ due]
      /\ UNCHANGED <<now, skew, batch, status, deadline, slot, extensions, calls>>
  BY DEF Render, Ask
<1>5. shown \in Page /\ asked \in Page
  <2>1. asked \in Page
    BY <1>1, <1>2 DEF Page, Load
  <2>2. shown \in Page
    <3> DEFINE before == IF OnExam(p) /\ to = "exam" THEN old ELSE Away
    <3>1. before \in Page
      BY <1>1
    <3>2. to = "exam" => r.deadline \in Instants \cup {None}
      BY <1>3
    <3>3. ASSUME NEW a \in BOOLEAN, NEW d \in Instants \cup {None}, NEW b \in BOOLEAN,
                 NEW c \in BOOLEAN
          PROVE  [before EXCEPT !.screen = to, !.load = None, !.startable = a,
                    !.deadline = d, !.slot = b, !.expired = c] \in Page
      <4> HIDE DEF before, to
      <4> QED
        BY <1>2, <3>1 DEF Page
    <3>4. due \in BOOLEAN /\ before.expired \in BOOLEAN /\ r.open \in BOOLEAN
      BY <1>1, <3>1 DEF Due, Page, Runtime
    <3> QED
      BY <3>2, <3>3, <3>4 DEF Shown, Startable
  <2> QED
    BY <2>1, <2>2
<1>6. TypeOK'
  <2>1. page' \in [Pages -> Page]
    BY <1>4, <1>5, OnePage
  <2>2. expiry' \in [Pages -> BOOLEAN]
    BY <1>4 DEF TypeOK
  <2> QED
    BY <1>4, <2>1, <2>2 DEF TypeOK
<1>7. Bounded'
  BY <1>4 DEF Bounded
<1>8. Dated' /\ AskedInTime'
  <2>1. CASE page' = [page EXCEPT ![p] = asked]
    BY <1>1, <1>4, <2>1 DEF TypeOK, Dated, AskedInTime, OnExam, Asking, Page
  <2>2. CASE page' = [page EXCEPT ![p] = shown]
    <3>1. /\ shown.screen = to /\ shown.load = None
          /\ shown.asking = None
          /\ to = "exam" => shown.deadline = old.load.runtime.deadline
      BY <1>1, <1>4 DEF Page, Asking, Away, Shown
    <3> HIDE DEF shown
    <3>2. \A q \in Pages : page'[q] = IF q = p THEN shown ELSE page[q]
      BY <2>2 DEF TypeOK
    <3> QED
      BY <1>3, <1>4, <3>1, <3>2 DEF Dated, AskedInTime, OnExam, Asking
  <2> QED
    BY <1>4, <2>1, <2>2
<1> QED
  BY <1>6, <1>7, <1>8

(* The countdown locks the page and calls the server.                      *)
LEMMA CountdownStep ==
  ASSUME ClientInv, NEW p \in Pages, CountdownFires(p)
  PROVE  ClientInv'
<1> USE ClientAssumption DEF ClientInv, attempt, CountdownFires
<1>1. [page[p] EXCEPT !.expired = TRUE] \in Page
  BY DEF TypeOK, Page
<1>2. TypeOK'
  BY <1>1, OnePage DEF TypeOK
<1>3. Bounded'
  BY DEF Bounded
<1>4. Dated' /\ AskedInTime'
  BY DEF TypeOK, Dated, AskedInTime, OnExam, Asking, Page
<1> QED
  BY <1>2, <1>3, <1>4

(* A click on submit finds a page whose time is not up.                    *)
LEMMA AskStep ==
  ASSUME ClientInv, NEW p \in Pages, ClickSubmit(p)
  PROVE  ClientInv'
<1> USE ClientAssumption DEF ClientInv, attempt, ClickSubmit
<1>1. [page[p] EXCEPT !.asking = now] \in Page
  BY DEF TypeOK, Page, Instants
<1>2. TypeOK'
  BY <1>1, OnePage DEF TypeOK
<1>3. Bounded' /\ Dated'
  BY DEF TypeOK, Bounded, Dated, OnExam, Page
<1>4. page[p].deadline \in Int /\ now \in Int /\ skew \in Int
  BY DEF TypeOK, Dated, Instants
<1>5. now + skew < page[p].deadline
  BY <1>4 DEF TimerDue, TimeIsUp, SubmitEnabled, LocalTime
<1>6. AskedInTime'
  BY <1>5 DEF TypeOK, AskedInTime, OnExam, Asking, Page
<1> QED
  BY <1>2, <1>3, <1>6

(* A request takes with it what the page showed, and since when.           *)
LEMMA SendSteps ==
  ASSUME ClientInv, NEW p \in Pages, ClickStart(p) \/ Confirm(p)
  PROVE  ClientInv'
<1> USE ClientAssumption DEF ClientInv, attempt
<1>1. PICK k \in Calls, kind \in {"start", "submit"}, asked \in Instants :
        LET call == [kind |-> kind, pc |-> "sent", carry |-> None,
                     asked |-> asked, shown |-> page[p].deadline]
        IN  /\ calls[k] = None
            /\ calls' = [calls EXCEPT ![k] = call]
            /\ page' = [page EXCEPT ![p].busy = TRUE, ![p].call = k, ![p].asking = None]
            /\ kind = "submit" => Confirm(p) /\ asked = page[p].asking
  <2>1. CASE ClickStart(p)
    <3>1. now \in Instants
      BY DEF TypeOK, Instants
    <3> QED
      BY <2>1, <3>1 DEF ClickStart, Send
  <2>2. CASE Confirm(p)
    <3>1. page[p].asking \in Instants
      BY <2>2 DEF TypeOK, Page, Confirm, Asking
    <3> QED
      BY <2>2, <3>1 DEF Confirm, Send
  <2> QED
    BY <2>1, <2>2
<1> DEFINE call == [kind |-> kind, pc |-> "sent", carry |-> None,
                    asked |-> asked, shown |-> page[p].deadline]
           after == [page[p] EXCEPT !.busy = TRUE, !.call = k, !.asking = None]
<1>2. call \in Call /\ after \in Page
  BY DEF TypeOK, Call, Page
<1>3. page' = [page EXCEPT ![p] = after]
  BY <1>1
<1>4. UNCHANGED <<now, skew, batch, status, deadline, slot, extensions, expiry>>
  BY DEF ClickStart, Confirm
<1>5. TypeOK'
  BY <1>1, <1>2, <1>3, <1>4, OnePage DEF TypeOK
<1>6. Bounded'
  BY <1>1, <1>4 DEF TypeOK, Bounded
<1>7. Dated'
  BY <1>1, <1>3, <1>4 DEF TypeOK, Dated, OnExam, Page
<1>8. kind = "submit"
        => page[p].deadline \in Instants /\ asked + skew < page[p].deadline
  BY <1>1 DEF Confirm, AskedInTime, Dated
<1>9. AskedInTime'
  BY <1>1, <1>3, <1>4, <1>8 DEF TypeOK, AskedInTime, OnExam, Asking, Page
<1> QED
  BY <1>5, <1>6, <1>7, <1>9

(* The end of a call, for the page or for nobody.                          *)
LEMMA AnswerSteps ==
  ASSUME ClientInv,
         (\E p \in Pages : Reply(p)) \/ (\E k \in Calls : Forgotten(k))
  PROVE  ClientInv'
<1> USE ClientAssumption DEF ClientInv, attempt
<1>1. ASSUME NEW p \in Pages, Reply(p)
      PROVE  ClientInv'
  <2> DEFINE k == page[p].call
             next == IF calls[k].pc = "refused" THEN page[p].load
                     ELSE [runtime |-> None,
                           url |-> IF calls[k].kind = "start" THEN "exam" ELSE "done"]
             after == [page[p] EXCEPT !.call = None, !.busy = calls[k].pc = "ok", !.load = next]
  <2>1. page[p] \in Page
    BY DEF TypeOK
  <2>2. k \in Calls
    BY <1>1, <2>1 DEF Reply, Page
  <2>3. next \in Load \cup {None}
    BY <2>1 DEF Page, Load, Urls
  <2>4. after \in Page
    <3> HIDE DEF next
    <3> QED
      BY <2>1, <2>3 DEF Page
  <2>5. page' = [page EXCEPT ![p] = after] /\ calls' = [calls EXCEPT ![k] = None]
        /\ UNCHANGED <<now, skew, batch, status, deadline, slot, extensions, expiry>>
    BY <1>1 DEF Reply
  <2>6. TypeOK'
    BY <2>2, <2>4, <2>5, OnePage DEF TypeOK
  <2>7. Bounded'
    BY <2>2, <2>5 DEF TypeOK, Bounded
  <2>8. after.load # None /\ after.load.runtime # None => after.load = page[p].load
    BY <2>1 DEF Page
  <2>9. after.screen = page[p].screen /\ after.deadline = page[p].deadline
        /\ after.asking = page[p].asking
    BY <2>1 DEF Page
  <2> HIDE DEF after
  <2>10. \A q \in Pages : page'[q] = IF q = p THEN after ELSE page[q]
    BY <2>5 DEF TypeOK
  <2>11. Dated' /\ AskedInTime'
    BY <2>2, <2>5, <2>8, <2>9, <2>10 DEF TypeOK, Dated, AskedInTime, OnExam, Asking
  <2> QED
    BY <2>6, <2>7, <2>11
<1>2. ASSUME NEW k \in Calls, Forgotten(k)
      PROVE  ClientInv'
  BY <1>2 DEF Forgotten, TypeOK, Bounded, Dated, AskedInTime, OnExam, Asking
<1> QED
  BY <1>1, <1>2

(* What the server does with requests, and everybody else with the attempt.*)
LEMMA ServerSteps ==
  ASSUME ClientInv,
         \/ \E k \in Calls : StartCheck(k) \/ StartTx(k) \/ Submit(k)
         \/ \E p \in Pages : ExpireArrives(p) \/ ExpireLost(p)
         \/ OpenBatch \/ Seat \/ CloseBatch \/ ForceSubmit \/ VoidAttempt \/ ExtendDeadline
         \/ Tick
  PROVE  ClientInv'
<1> USE ClientAssumption DEF ClientInv, attempt, Live, At, Answer, EndAttempt, Released
<1>1. ASSUME NEW k \in Calls, StartCheck(k) \/ StartTx(k) \/ Submit(k)
      PROVE  ClientInv'
  <2> USE <1>1 DEF StartCheck, StartTx, Submit
  <2>1. page' = page /\ skew' = skew /\ extensions' = extensions /\ now' = now
    OBVIOUS
  <2>2. calls[k] \in Call
    BY DEF TypeOK
  <2>3. calls[k].pc = "checked" => calls[k].carry \in Instants
    BY <2>2 DEF Dated
  <2>4. PICK pc \in {"checked", "ok", "refused"}, carry \in Instants \cup {None} :
          /\ calls' = [calls EXCEPT ![k].pc = pc, ![k].carry = carry]
          /\ pc = "checked" => carry \in Instants
          /\ carry # None => carry <= now + Duration + extensions
    <3>1. calls' = [calls EXCEPT ![k].pc = calls'[k].pc, ![k].carry = calls'[k].carry]
      BY <2>2 DEF TypeOK, Call
    <3>2. calls'[k].pc \in {"checked", "ok", "refused"}
      BY <2>2 DEF TypeOK, Call
    <3>3. StartCheck(k) /\ calls'[k].pc = "checked"
            => /\ calls'[k].carry \in Instants
               /\ calls'[k].carry <= now + Duration + extensions
      BY <2>2 DEF TypeOK, Call, Instants, Bounded
    <3>4. ~ (StartCheck(k) /\ calls'[k].pc = "checked")
            => calls'[k].carry = calls[k].carry /\ calls'[k].pc # "checked"
      BY <2>2 DEF TypeOK, Call
    <3> QED
      BY <2>2, <3>1, <3>2, <3>3, <3>4 DEF Call, Bounded
  <2>5. /\ status' \in Statuses /\ slot' \in {"none", "assigned", "used"}
        /\ \/ deadline' = deadline
           \/ deadline' = calls[k].carry /\ calls[k].pc = "checked"
        /\ status' = "running" => deadline' = calls[k].carry \/ status = "running"
    BY DEF TypeOK, Statuses
  <2>6. deadline' \in Instants \cup {None} /\ (status' = "running" => deadline' \in Instants)
    BY <2>3, <2>5 DEF TypeOK, Dated
  <2>7. calls' \in [Calls -> Call \cup {None}]
    BY <2>2, <2>4 DEF TypeOK, Call
  <2>8. TypeOK'
    BY <2>1, <2>5, <2>6, <2>7 DEF TypeOK
  <2>9. Bounded'
    BY <2>1, <2>2, <2>4, <2>5 DEF TypeOK, Bounded, Call
  <2>10. Dated'
    BY <2>1, <2>2, <2>4, <2>6 DEF TypeOK, Dated, OnExam, Call
  <2>11. AskedInTime'
    BY <2>1, <2>2, <2>4 DEF TypeOK, AskedInTime, OnExam, Asking, Call
  <2> QED
    BY <2>8, <2>9, <2>10, <2>11
<1>2. ASSUME \/ \E p \in Pages : ExpireArrives(p) \/ ExpireLost(p)
             \/ OpenBatch \/ CloseBatch \/ ForceSubmit \/ VoidAttempt \/ Tick
      PROVE  ClientInv'
  <2>1. TypeOK'
    <3> USE DEF TypeOK
    <3>1. ASSUME NEW p \in Pages, ExpireArrives(p) \/ ExpireLost(p)
          PROVE  TypeOK'
      BY <3>1 DEF Statuses, ExpireArrives, ExpireLost
    <3>2. CASE OpenBatch
      BY <3>2 DEF OpenBatch
    <3>3. CASE CloseBatch
      BY <3>3 DEF CloseBatch, Statuses
    <3>4. CASE ForceSubmit \/ VoidAttempt
      BY <3>4 DEF ForceSubmit, VoidAttempt, Statuses
    <3>5. CASE Tick
      BY <3>5 DEF Tick
    <3> QED
      BY <1>2, <3>1, <3>2, <3>3, <3>4, <3>5
  <2>2. Dated' /\ AskedInTime'
    BY <1>2 DEF TypeOK, Dated, AskedInTime, OnExam, Asking, ExpireArrives,
                ExpireLost, OpenBatch, CloseBatch, ForceSubmit, VoidAttempt, Tick
  <2>3. /\ deadline' = deadline /\ calls' = calls /\ extensions' = extensions
        /\ now' = now \/ now' = now + 1
    BY <1>2 DEF ExpireArrives, ExpireLost, OpenBatch, CloseBatch, ForceSubmit, VoidAttempt, Tick
  <2>4. ASSUME NEW t \in Nat, t <= now + Duration + extensions
        PROVE  t <= now' + Duration + extensions
    <3>1. now \in Nat /\ extensions \in Nat /\ Duration \in Nat
      BY ClientAssumption DEF TypeOK
    <3> QED
      BY <2>3, <2>4, <3>1
  <2>5. deadline # None => deadline \in Nat
    BY DEF TypeOK, Instants
  <2>6. ASSUME NEW k \in Calls, calls[k] # None, calls[k].carry # None
        PROVE  calls[k].carry \in Nat
    BY <2>6 DEF TypeOK, Call, Instants
  <2>7. Bounded'
    BY <2>3, <2>4, <2>5, <2>6 DEF Bounded
  <2> QED
    BY <2>1, <2>2, <2>7
<1>3. ASSUME Seat \/ ExtendDeadline
      PROVE  ClientInv'
  <2>1. /\ deadline' \in Instants /\ deadline' <= now + Duration + extensions'
        /\ extensions' \in {extensions, extensions + 1} /\ extensions' \in 0 .. MaxExtensions
        /\ UNCHANGED <<now, skew, batch, status, calls, expiry, page>>
        /\ slot' \in {"none", "assigned", "used"}
    BY <1>3 DEF TypeOK, Bounded, Instants, Seat, ExtendDeadline
  <2>2. TypeOK' /\ Dated' /\ AskedInTime'
    BY <2>1 DEF TypeOK, Dated, AskedInTime, OnExam, Asking
  <2>3. Bounded'
    <3>1. ASSUME NEW k \in Calls, calls[k] # None, calls[k].carry # None
          PROVE  calls[k].carry <= now + Duration + extensions'
      <4>1. calls[k].carry \in Instants
        BY <3>1 DEF TypeOK, Call
      <4> QED
        BY <2>1, <3>1, <4>1 DEF TypeOK, Bounded, Instants
    <3> QED
      BY <2>1, <3>1 DEF Bounded
  <2> QED
    BY <2>2, <2>3
<1> QED
  BY <1>1, <1>2, <1>3

LEMMA Inductive == ClientInv /\ [Next]_vars => ClientInv'
<1> SUFFICES ASSUME ClientInv, [Next]_vars PROVE ClientInv'
  OBVIOUS
<1>1. CASE UNCHANGED vars
  BY <1>1 DEF vars, attempt, ClientInv, TypeOK, Bounded, Dated, AskedInTime, OnExam, Asking
<1>2. ASSUME NEW p \in Pages,
             \/ Open(p) \/ Leave(p) \/ ReadRuntime(p) \/ Render(p) \/ LoadLost(p) \/ Poll(p)
             \/ CountdownFires(p) \/ ClickStart(p) \/ ClickSubmit(p) \/ Confirm(p)
             \/ Cancel(p) \/ GiveUp(p)
      PROVE  ClientInv'
  BY <1>2, PageSteps, RenderStep, CountdownStep, AskStep, SendSteps
<1>3. ASSUME (\E p \in Pages : Reply(p)) \/ (\E k \in Calls : Forgotten(k))
      PROVE  ClientInv'
  BY <1>3, AnswerSteps
<1>4. ASSUME \/ \E k \in Calls : StartCheck(k) \/ StartTx(k) \/ Submit(k)
             \/ \E p \in Pages : ExpireArrives(p) \/ ExpireLost(p)
             \/ OpenBatch \/ Seat \/ CloseBatch \/ ForceSubmit \/ VoidAttempt
             \/ ExtendDeadline \/ Tick
      PROVE  ClientInv'
  BY <1>4, ServerSteps
<1> QED
  BY <1>1, <1>2, <1>3, <1>4 DEF Next

(* Whatever a browser does, pages, requests and the attempt stay well      *)
(* formed, and every deadline is within the extensions granted so far.     *)
THEOREM TypeSafety == Spec => []TypeOK
<1> QED
  BY Initially, Inductive, PTL DEF Spec, ClientInv

(* submitExam does not look at the clock, and a question may stay on the   *)
(* screen for ever; still nobody with an exact or fast clock can begin a   *)
(* submission after the deadline that counts, unless the page shows more   *)
(* time than the attempt has.                                              *)
THEOREM Punctuality == Spec => LateSubmissionsWereAskedInTime
<1>1. ASSUME ClientInv, NEW k \in Calls, At(k, "submit", "sent"), Overdue
      PROVE  InTime(k)
  <2>1. calls[k].shown \in Int /\ calls[k].asked \in Int /\ skew \in Int /\ deadline \in Int
    BY <1>1, ClientAssumption
       DEF ClientInv, TypeOK, AskedInTime, Dated, Call, Instants, At, Overdue
  <2>2. calls[k].asked + skew < calls[k].shown
    BY <1>1 DEF ClientInv, AskedInTime, At
  <2> QED
    BY <2>1, <2>2 DEF InTime
<1>2. ClientInv /\ [Next]_vars =>
        [\A k \in Calls : At(k, "submit", "sent") /\ Overdue /\ calls'[k] # None
                          /\ calls'[k].pc = "ok" => InTime(k)]_vars
  BY <1>1
<1> QED
  BY <1>2, Initially, Inductive, PTL DEF Spec, LateSubmissionsWereAskedInTime

-----------------------------------------------------------------------------
(* The server's row, as the hall keeps it.                                 *)

LEMMA RowStep ==
  ASSUME ClientInv, [Next]_vars
  PROVE  [Row!Next]_(Row!vars)
<1> USE ClientAssumption DEF ClientInv
<1> DEFINE her == "her"
<1>1. her \in Hers
  BY DEF Hers
<1>2. ASSUME UNCHANGED <<now, status, deadline, extensions>>
      PROVE  UNCHANGED Row!vars
  BY <1>2 DEF Row!vars
<1>3. ASSUME NEW k \in Calls, StartTx(k)
      PROVE  Row!Start(her) \/ UNCHANGED Row!vars
  <2>1. CASE ~ Admits
    BY <1>2, <1>3, <2>1 DEF StartTx, attempt
  <2>2. CASE Admits
    <3>1. /\ Live /\ status' = "running" /\ deadline' = calls[k].carry
          /\ now' = now /\ extensions' = extensions
      BY <1>3, <2>2 DEF StartTx, Admits
    <3>2. calls[k].carry \in 0 .. now + Duration + extensions
      BY <1>3 DEF StartTx, At, Dated, Bounded, TypeOK, Instants
    <3> QED BY <3>1, <3>2 DEF Row!Start, Row!Live, Row!Limit, Live, Hers
  <2> QED BY <2>1, <2>2
<1>4. ASSUME EndAttempt, Live, UNCHANGED <<now, extensions>>
      PROVE  Row!Submit(her)
  BY <1>4 DEF EndAttempt, Live, Row!Submit, Row!Live, Hers
<1>5. CASE VoidAttempt
  <2>1. Row!Void(her)
    BY <1>5 DEF VoidAttempt, Live, Row!Void, Hers
  <2> QED BY <1>1, <2>1 DEF Row!Next
<1>6. CASE ExtendDeadline
  <2>1. Row!Extend(her)
    BY <1>6 DEF ExtendDeadline, Live, Row!Extend, Row!Live, Hers
  <2> QED BY <1>1, <2>1 DEF Row!Next
<1>7. CASE Seat
  <2>1. Row!Seat(her)
    BY <1>7 DEF Seat, Live, Row!Seat, Row!Live, Hers
  <2> QED BY <1>1, <2>1 DEF Row!Next
<1>8. CASE Tick
  <2>1. Row!Tick
    BY <1>8 DEF Tick, attempt, Row!Tick
  <2> QED BY <2>1 DEF Row!Next
<1>9. ASSUME NEW k \in Calls, Submit(k)
      PROVE  [Row!Next]_(Row!vars)
  BY <1>1, <1>2, <1>4, <1>9 DEF Submit, attempt, Live, Row!Next
<1>10. ASSUME NEW p \in Pages, ExpireArrives(p)
       PROVE  [Row!Next]_(Row!vars)
  BY <1>1, <1>2, <1>4, <1>10 DEF ExpireArrives, Overdue, attempt, Live, Row!Next
<1>11. CASE CloseBatch
  BY <1>1, <1>2, <1>4, <1>11 DEF CloseBatch, Overdue, Live, Row!Next
<1>12. CASE ForceSubmit
  BY <1>1, <1>4, <1>12 DEF ForceSubmit, Row!Next
<1>13. ASSUME \/ UNCHANGED vars \/ OpenBatch
              \/ \E k \in Calls : StartCheck(k) \/ Forgotten(k)
              \/ \E p \in Pages :
                   \/ Open(p) \/ Leave(p) \/ ReadRuntime(p) \/ Render(p) \/ LoadLost(p)
                   \/ Poll(p) \/ CountdownFires(p) \/ ExpireLost(p) \/ ClickStart(p)
                   \/ ClickSubmit(p) \/ Confirm(p) \/ Cancel(p) \/ Reply(p) \/ GiveUp(p)
       PROVE  UNCHANGED Row!vars
  <2>1. UNCHANGED <<now, status, deadline, extensions>>
    BY <1>13 DEF vars, attempt, OpenBatch, StartCheck, Forgotten, Open, Leave, ReadRuntime,
                 Render, LoadLost, Poll, CountdownFires, ExpireLost, ClickStart, ClickSubmit,
                 Confirm, Cancel, Reply, GiveUp
  <2> QED BY <1>2, <2>1
<1>14. ASSUME NEW k \in Calls, StartTx(k)
       PROVE  [Row!Next]_(Row!vars)
  BY <1>1, <1>3, <1>14 DEF Row!Next
<1> QED
  BY <1>5, <1>6, <1>7, <1>8, <1>9, <1>10, <1>11, <1>12, <1>13, <1>14 DEF Next

(* Whatever a browser sends, her row is one that exam.attempts may hold.   *)
THEOREM RowIsKept == Spec => HerRowIsKept
<1>1. Init => Row!Init
  BY DEF Init, Row!Init
<1>2. ClientInv /\ [Next]_vars => [Row!Next]_(Row!vars)
  BY RowStep
<1> QED
  BY <1>1, <1>2, Initially, Inductive, PTL DEF Spec, HerRowIsKept, Row!Spec
=============================================================================
