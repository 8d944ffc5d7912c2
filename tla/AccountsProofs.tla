---------------------------- MODULE AccountsProofs ----------------------------
(***************************************************************************)
(* Imports, invitations and deletions side by side, for any number of      *)
(* requests, accounts, batches and sheets: what an import that went        *)
(* through leaves behind, and which password opens an account.             *)
(***************************************************************************)
EXTENDS Accounts, TLAPS

(* A request without a transaction has written nothing; an import is of a  *)
(* batch and has a result for each row it has gone through; an invitation  *)
(* is one row and enrols nobody.                                           *)
Fits(r) ==
  /\ r.pc \notin Open => r = Closed(r.pc)
  /\ r.pc \in Open =>
       /\ r.i \in 1 .. Len(r.rows) /\ r.org \in Orgs
       /\ r.pc \in {"insert", "join", "enrol"} => r.rows[r.i].email # None
       /\ r.pc \in {"join", "enrol"} => r.id \in Uids
       /\ IF r.staff
          THEN /\ Len(r.rows) = 1 /\ r.rows[1].email # None
               /\ r.pc # "enrol" /\ r.attempts = {}
          ELSE /\ r.batch \in Batches /\ r.org = OrgOf[r.batch]
               /\ Len(r.log) = IF r.pc = "commit" THEN Len(r.rows) ELSE r.i - 1

RequestsFit == \A j \in Jobs : Fits(job[j])

(* Nobody is asked about a deletion that would orphan something.           *)
QuestionFits ==
  /\ deletion.seen = {}
  /\ deletion.kind = "user" => deletion.target \in Uids
  /\ deletion.kind = "batch" => deletion.target \in Batches

-------------------------------------------------------------------------------
(* Rosters. *)

HasAccount(U, id, email) == id \in raced \/ \E u \in U : u.id = id /\ u.email = email
HasMember(M, o, id) == id \in raced \/ \E m \in M : SameMember(m, o, id)

(* Row n of a list of rows has led to what its result says.                *)
RowDone(rows, log, n, b, U, M, A) ==
  IF rows[n].email = None THEN log[n] = "error"
  ELSE /\ log[n] \in {"created", "skipped"}
       /\ \E a \in A : /\ a[1] = b
                       /\ HasAccount(U, a[2], rows[n].email)
                       /\ HasMember(M, OrgOf[b], a[2])

(* The account a row is about, and its membership, are there when the      *)
(* statements that refer to them run, or a deletion came between.          *)
Progress(j) ==
  ~ job[j].staff =>
    /\ job[j].pc \in {"join", "enrol"} => HasAccount(UsersSeen(j), job[j].id, Row(j).email)
    /\ job[j].pc = "enrol" => HasMember(MembersSeen(j), job[j].org, job[j].id)
    /\ \A n \in 1 .. Len(job[j].log) :
         RowDone(job[j].rows, job[j].log, n, job[j].batch,
                 UsersSeen(j), MembersSeen(j), AttemptsSeen(j))
    /\ \A a \in job[j].attempts : a[2] \in Ids(UsersSeen(j)) \cup raced

RosterInv == (\A j \in Jobs : Progress(j)) /\ WholeImport /\ OrphanOnlyByRace

-------------------------------------------------------------------------------
(* Passwords. *)

(* auth.users.email is unique, among what is committed and what is not.    *)
OneAccountPerEmail == \A u, v \in users : u.email = v.email => u = v
Inserts(j) ==
  /\ \A u \in users, v \in job[j].users : u.email # v.email
  /\ \A k \in Jobs : \A u \in job[j].users, v \in job[k].users : u.email = v.email => j = k /\ u = v
  /\ job[j].pc = "insert" => \A u \in job[j].users : u.email # Row(j).email

(* What a request has inserted has the password of one of its rows, and    *)
(* what it will reply opens an account it has inserted.                    *)
Opens(j, s) == \E u \in job[j].users : u.email = s[1] /\ u.hash = s[2]
Replies(j) ==
  /\ \A u \in job[j].users : u.hash \in {j} \X Nat /\ u.temp = IF job[j].staff THEN None ELSE u.hash
  /\ \A s \in job[j].issued : Opens(j, s)
  /\ job[j].created /\ (job[j].pc \in {"join", "enrol"} \/ (job[j].staff /\ job[j].pc = "commit")) =>
       Opens(j, <<Row(j).email, TempPassword(j)>>)

ShownIsOfAnAccount == \A s \in shown : \E u \in users : u.email = s[1]

(* A password nobody keeps was made for an invitation.                     *)
InvitedOnly ==
  /\ \A m \in imports : job[m.job].pc = "done"
  /\ \A u \in users : u.hash # Chosen /\ u.temp = None =>
       u.hash[1] \in Jobs /\ job[u.hash[1]].pc = "done"

PasswordInv == /\ OneAccountPerEmail /\ \A j \in Jobs : Inserts(j) /\ Replies(j)
               /\ ShownIsOfAnAccount /\ InvitedOnly /\ KnownPassword

-------------------------------------------------------------------------------
(* What a statement makes of the request that runs it. *)

(* Whose import it is does not change under way.                           *)
SameRequest(n, r) == n.staff = r.staff /\ n.batch = r.batch /\ n.org = r.org /\ n.rows = r.rows

LEMMA ToPc ==
  ASSUME NEW r \in Request, NEW p \in Open
  PROVE  LET n == [r EXCEPT !.pc = p]
         IN  /\ n \in Request /\ SameRequest(n, r) /\ n.pc = p
             /\ n.i = r.i /\ n.id = r.id /\ n.created = r.created
             /\ n.users = r.users /\ n.members = r.members /\ n.promoted = r.promoted
             /\ n.attempts = r.attempts /\ n.log = r.log /\ n.issued = r.issued
BY DEF Request, SameRequest

LEMMA ToFound ==
  ASSUME NEW r \in Request, NEW id \in Uids
  PROVE  LET n == [r EXCEPT !.pc = "join", !.id = id, !.created = FALSE]
         IN  /\ n \in Request /\ SameRequest(n, r) /\ n.pc = "join"
             /\ n.i = r.i /\ n.id = id /\ n.created = FALSE
             /\ n.users = r.users /\ n.members = r.members /\ n.promoted = r.promoted
             /\ n.attempts = r.attempts /\ n.log = r.log /\ n.issued = r.issued
BY DEF Request, SameRequest, Open

LEMMA ToLog ==
  ASSUME NEW r \in Request, NEW L \in Seq(Result)
  PROVE  LET n == [r EXCEPT !.log = L]
         IN  /\ n \in Request /\ SameRequest(n, r) /\ n.pc = r.pc
             /\ n.i = r.i /\ n.id = r.id /\ n.created = r.created
             /\ n.users = r.users /\ n.members = r.members /\ n.promoted = r.promoted
             /\ n.attempts = r.attempts /\ n.log = L /\ n.issued = r.issued
BY DEF Request, SameRequest

LEMMA ToNextRow ==
  ASSUME NEW r \in Request, NEW i \in Nat
  PROVE  LET n == [r EXCEPT !.pc = "find", !.i = i]
         IN  /\ n \in Request /\ SameRequest(n, r) /\ n.pc = "find" /\ n.i = i
             /\ n.users = r.users /\ n.members = r.members /\ n.promoted = r.promoted
             /\ n.attempts = r.attempts /\ n.log = r.log /\ n.issued = r.issued
BY DEF Request, SameRequest, Open

(* The loop records the row and goes on, or has done the last one.         *)
LEMMA ToLogged ==
  ASSUME NEW r \in Request, r.i \in 1 .. Len(r.rows), NEW x \in Result
  PROVE  LET n == Logged(r, x)
         IN  /\ n \in Request /\ SameRequest(n, r)
             /\ IF r.i = Len(r.rows) THEN n.pc = "commit" /\ n.i = r.i
                                     ELSE n.pc = "find" /\ n.i = r.i + 1
             /\ n.i \in 1 .. Len(n.rows)
             /\ n.users = r.users /\ n.members = r.members /\ n.promoted = r.promoted
             /\ n.attempts = r.attempts /\ n.issued = r.issued
             /\ n.log = Append(r.log, x)
<1> DEFINE L == Append(r.log, x)
           l == [r EXCEPT !.log = L]
<1>t. L \in Seq(Result) /\ r.rows \in Seq(RosterRow)
  BY DEF Request
<1> HIDE DEF L
<1>1. /\ l \in Request /\ SameRequest(l, r) /\ l.pc = r.pc /\ l.i = r.i
      /\ l.users = r.users /\ l.members = r.members /\ l.promoted = r.promoted
      /\ l.attempts = r.attempts /\ l.issued = r.issued /\ l.log = L
  BY <1>t, ToLog
<1>n. Logged(r, x) = NextRow(l)
  BY DEF Logged, L
<1>r. l.rows = r.rows
  BY <1>1 DEF SameRequest
<1> HIDE DEF l
<1>2. CASE r.i = Len(r.rows)
  <2> DEFINE n == [l EXCEPT !.pc = "commit"]
  <2>1. Logged(r, x) = n
    BY <1>1, <1>2, <1>n, <1>r DEF NextRow
  <2>2. /\ n \in Request /\ SameRequest(n, l) /\ n.pc = "commit" /\ n.i = l.i
        /\ n.users = l.users /\ n.members = l.members /\ n.promoted = l.promoted
        /\ n.attempts = l.attempts /\ n.issued = l.issued /\ n.log = l.log
    BY <1>1, ToPc DEF Open
  <2> HIDE DEF n
  <2> QED BY <1>1, <1>2, <2>1, <2>2 DEF SameRequest, L
<1>3. CASE r.i # Len(r.rows)
  <2> DEFINE i == l.i + 1
             n == [l EXCEPT !.pc = "find", !.i = i]
  <2>1. Logged(r, x) = n
    BY <1>1, <1>3, <1>n, <1>r DEF NextRow
  <2>2. i \in Nat
    BY <1>1
  <2> HIDE DEF i
  <2>3. /\ n \in Request /\ SameRequest(n, l) /\ n.pc = "find" /\ n.i = i
        /\ n.users = l.users /\ n.members = l.members /\ n.promoted = l.promoted
        /\ n.attempts = l.attempts /\ n.issued = l.issued /\ n.log = l.log
    BY <1>1, <2>2, ToNextRow
  <2> HIDE DEF n
  <2>4. n.i \in 1 .. Len(n.rows) /\ n.i = r.i + 1
    BY <1>1, <1>3, <1>t, <1>r, <2>3 DEF SameRequest, i
  <2> QED BY <1>1, <1>3, <2>1, <2>3, <2>4 DEF SameRequest, L
<1> QED BY <1>2, <1>3

LEMMA ToClosed ==
  ASSUME NEW p \in {"fresh", "done"}
  PROVE  LET n == Closed(p)
         IN  /\ n \in Request /\ n.pc = p /\ n = Closed(n.pc) /\ n.staff = FALSE
             /\ n.users = {} /\ n.members = {} /\ n.promoted = {} /\ n.attempts = {}
             /\ n.log = <<>> /\ n.issued = {} /\ n.created = FALSE
<1>1. <<>> \in Seq(Result) /\ <<>> \in Seq(RosterRow)
  OBVIOUS
<1> QED BY <1>1 DEF Closed, Unwritten, Request, Open

LEMMA ToInvitation ==
  ASSUME NEW o \in Orgs, NEW R \in Seq(RosterRow)
  PROVE  LET n == Unwritten("find", TRUE, None, o, R, 1)
         IN  /\ n \in Request /\ n.pc = "find" /\ n.i = 1 /\ n.staff = TRUE
             /\ n.org = o /\ n.rows = R
             /\ n.users = {} /\ n.members = {} /\ n.promoted = {} /\ n.attempts = {}
             /\ n.log = <<>> /\ n.issued = {} /\ n.created = FALSE
<1>1. <<>> \in Seq(Result)
  OBVIOUS
<1> QED BY <1>1 DEF Closed, Unwritten, Request, Open

-------------------------------------------------------------------------------
(* What the statements do. *)

LEMMA RowFacts ==
  ASSUME TypeOK, RequestsFit, NEW j \in Jobs, job[j].pc \in Open
  PROVE  /\ job[j] \in Request /\ job[j].i \in 1 .. Len(job[j].rows)
         /\ Row(j) \in RosterRow /\ Row(j) = job[j].rows[job[j].i]
         /\ TempPassword(j) \in {j} \X Nat /\ TempPassword(j) \in Password /\ TempPassword(j) # None
         /\ Row(j).email # None => Row(j).email \in Written
<1>1. job[j] \in Request /\ job[j].i \in 1 .. Len(job[j].rows)
  BY DEF TypeOK, RequestsFit, Fits
<1>2. job[j].rows \in Seq(RosterRow) /\ job[j].i \in Nat
  BY <1>1 DEF Request
<1>3. Row(j) \in RosterRow
  BY <1>1, <1>2 DEF Row
<1>4. TempPassword(j) \in {j} \X Nat /\ TempPassword(j) \in Password
  BY <1>2 DEF TempPassword, Password
<1> QED BY <1>1, <1>3, <1>4, NoneAssumption DEF Row, RosterRow, Cell

LEMMA JobStep ==
  ASSUME TypeOK, NEW j \in Jobs, NEW r \in Request, Step(j, r)
  PROVE  /\ job' \in [Jobs -> Request] /\ job'[j] = r
         /\ \A k \in Jobs \ {j} : job'[k] = job[k]
BY DEF TypeOK, Step

(* The rest of the tables while a transaction runs.                        *)
Kept(j) == /\ UNCHANGED <<tables, deletion, shown, raced>>
           /\ job' \in [Jobs -> Request]
           /\ \A k \in Jobs \ {j} : job'[k] = job[k]

SameWrites(n, r) == /\ n.users = r.users /\ n.members = r.members
                    /\ n.promoted = r.promoted /\ n.attempts = r.attempts

LEMMA AbortEffect ==
  ASSUME TypeOK, NEW j \in Jobs, Step(j, Aborted(j)), UNCHANGED <<tables, deletion, shown, raced>>
  PROVE  Kept(j) /\ job'[j] = Closed("done")
BY JobStep, ToClosed DEF Kept, Aborted

Begun(j) ==
  /\ Kept(j) /\ job[j] = Fresh /\ job'[j].pc = "find" /\ job'[j].i = 1
  /\ job'[j].users = {} /\ job'[j].members = {} /\ job'[j].promoted = {} /\ job'[j].attempts = {}
  /\ job'[j].log = <<>> /\ job'[j].issued = {} /\ job'[j].created = FALSE
  /\ Fits(job'[j])

LEMMA BeginEffect ==
  ASSUME TypeOK, NEW j \in Jobs, NEW b \in Batches, NEW R \in Seq(RosterRow), R # <<>>,
         BeginImport(j, b, R)
  PROVE  Begun(j)
<1> DEFINE o == OrgOf[b]
           n == Unwritten("find", FALSE, b, o, R, 1)
<1>1. o \in Orgs /\ o = OrgOf[b]
  BY OrgOfAssumption
<1> HIDE DEF o
<1>t. <<>> \in Seq(Result)
  OBVIOUS
<1>2. /\ n \in Request /\ n.pc = "find" /\ n.i = 1 /\ n.staff = FALSE
      /\ n.batch = b /\ n.org = o /\ n.rows = R
      /\ n.users = {} /\ n.members = {} /\ n.promoted = {} /\ n.attempts = {}
      /\ n.log = <<>> /\ n.issued = {} /\ n.created = FALSE
  BY <1>1, <1>t DEF Unwritten, Request, Open
<1>3. Step(j, n) /\ job[j] = Fresh /\ UNCHANGED <<tables, deletion, shown, raced>>
  BY DEF BeginImport, o
<1> HIDE DEF n
<1>4. Kept(j) /\ job'[j] = n
  BY <1>2, <1>3, JobStep DEF Kept
<1>5. Len(R) \in Nat /\ Len(R) >= 1
  OBVIOUS
<1>6. Fits(n)
  BY <1>1, <1>2, <1>5 DEF Fits, Open
<1> QED BY <1>2, <1>3, <1>4, <1>6 DEF Begun

LEMMA InviteEffect ==
  ASSUME TypeOK, NEW j \in Jobs, NEW o \in Orgs, NEW e \in Emails, IssueOrgAdmin(j, o, e)
  PROVE  Begun(j)
<1> DEFINE x == [email |-> e, ext |-> None]
           R == <<x>>
           n == Unwritten("find", TRUE, None, o, R, 1)
<1>1. e # None /\ x \in RosterRow /\ x.email = e
  BY NoneAssumption DEF RosterRow, Cell, Written
<1> HIDE DEF x
<1>2. R \in Seq(RosterRow) /\ Len(R) = 1 /\ R[1] = x
  BY <1>1
<1> HIDE DEF R
<1>3. /\ n \in Request /\ n.pc = "find" /\ n.i = 1 /\ n.staff = TRUE
      /\ n.org = o /\ n.rows = R
      /\ n.users = {} /\ n.members = {} /\ n.promoted = {} /\ n.attempts = {}
      /\ n.log = <<>> /\ n.issued = {} /\ n.created = FALSE
  BY <1>2, ToInvitation
<1>4. Step(j, n) /\ job[j] = Fresh /\ UNCHANGED <<tables, deletion, shown, raced>>
  BY DEF IssueOrgAdmin, R, x
<1> HIDE DEF n
<1>5. Kept(j) /\ job'[j] = n
  BY <1>3, <1>4, JobStep DEF Kept
<1>6. /\ n.pc \in Open /\ n.i \in 1 .. Len(n.rows) /\ n.org \in Orgs
      /\ Len(n.rows) = 1 /\ n.rows[1].email # None
  BY <1>1, <1>2, <1>3 DEF Open
<1>7. Fits(n)
  BY <1>3, <1>6 DEF Fits
<1> QED BY <1>3, <1>4, <1>5, <1>7 DEF Begun

(* The row is recorded and the loop goes on.                               *)
LogsRow(j, x) ==
  /\ SameRequest(job'[j], job[j])
  /\ IF job[j].i = Len(job[j].rows) THEN job'[j].pc = "commit" /\ job'[j].i = job[j].i
                                    ELSE job'[j].pc = "find" /\ job'[j].i = job[j].i + 1
  /\ job'[j].i \in 1 .. Len(job'[j].rows)
  /\ job'[j].log = Append(job[j].log, x)

LEMMA SkipEffect ==
  ASSUME TypeOK, RequestsFit, NEW j \in Jobs, SkipBlank(j)
  PROVE  /\ Kept(j) /\ job[j].pc = "find" /\ Row(j).email = None
         /\ LogsRow(j, "error") /\ SameWrites(job'[j], job[j]) /\ job'[j].issued = job[j].issued
<1> DEFINE r == job[j]
           n == Logged(r, "error")
<1>1. r.pc = "find" /\ Row(j).email = None /\ Step(j, n) /\ UNCHANGED <<tables, deletion, shown, raced>>
  BY DEF SkipBlank
<1>2. r \in Request /\ r.i \in 1 .. Len(r.rows) /\ "error" \in Result
  BY <1>1, RowFacts DEF Open, Result
<1> HIDE DEF r
<1>3. /\ n \in Request /\ SameRequest(n, r)
      /\ IF r.i = Len(r.rows) THEN n.pc = "commit" /\ n.i = r.i
                              ELSE n.pc = "find" /\ n.i = r.i + 1
      /\ n.i \in 1 .. Len(n.rows) /\ SameWrites(n, r) /\ n.issued = r.issued
      /\ n.log = Append(r.log, "error")
  BY <1>2, ToLogged DEF SameWrites
<1> HIDE DEF n
<1>4. Kept(j) /\ job'[j] = n
  BY <1>1, <1>3, JobStep DEF Kept
<1> QED BY <1>1, <1>3, <1>4 DEF LogsRow, r

LEMMA FindEffect ==
  ASSUME TypeOK, RequestsFit, NEW j \in Jobs, FindUser(j)
  PROVE  /\ Kept(j) /\ job[j].pc = "find" /\ Row(j).email # None
         /\ SameRequest(job'[j], job[j]) /\ SameWrites(job'[j], job[j])
         /\ job'[j].i = job[j].i /\ job'[j].log = job[j].log /\ job'[j].issued = job[j].issued
         /\ \/ /\ job'[j].pc = "insert" /\ job'[j].created = job[j].created
               /\ \A u \in UsersSeen(j) : u.email # Row(j).email
            \/ /\ job'[j].pc = "join" /\ job'[j].created = FALSE /\ job'[j].id \in Uids
               /\ \E u \in UsersSeen(j) : u.email = Row(j).email /\ u.id = job'[j].id
<1> DEFINE r == job[j]
           found == {u \in UsersSeen(j) : u.email = Row(j).email}
<1>1. r.pc = "find" /\ Row(j).email # None /\ UNCHANGED <<tables, deletion, shown, raced>>
  BY DEF FindUser
<1>2. r \in Request
  BY <1>1, RowFacts DEF Open
<1>3. CASE found = {} /\ Step(j, [r EXCEPT !.pc = "insert"])
  <2> DEFINE n == [r EXCEPT !.pc = "insert"]
  <2>1. /\ n \in Request /\ SameRequest(n, r) /\ SameWrites(n, r) /\ n.pc = "insert"
        /\ n.i = r.i /\ n.log = r.log /\ n.issued = r.issued /\ n.created = r.created
    BY <1>2, ToPc DEF Open, SameWrites
  <2>2. Step(j, n) /\ found = {}
    BY <1>3
  <2> HIDE DEF n
  <2>3. Kept(j) /\ job'[j] = n
    BY <1>1, <2>1, <2>2, JobStep DEF Kept
  <2> QED BY <1>1, <2>1, <2>2, <2>3
<1>4. ASSUME NEW u \in found, Step(j, [r EXCEPT !.pc = "join", !.id = u.id, !.created = FALSE])
      PROVE  /\ Kept(j) /\ SameRequest(job'[j], job[j]) /\ SameWrites(job'[j], job[j])
             /\ job'[j].i = job[j].i /\ job'[j].log = job[j].log /\ job'[j].issued = job[j].issued
             /\ job'[j].pc = "join" /\ job'[j].created = FALSE /\ job'[j].id = u.id /\ u.id \in Uids
  <2> DEFINE id == u.id
             n == [r EXCEPT !.pc = "join", !.id = id, !.created = FALSE]
  <2>1. id \in Uids /\ Step(j, n)
    BY <1>2, <1>4 DEF UsersSeen, TypeOK, Request, User
  <2> HIDE DEF id
  <2>2. /\ n \in Request /\ SameRequest(n, r) /\ SameWrites(n, r) /\ n.pc = "join"
        /\ n.i = r.i /\ n.log = r.log /\ n.issued = r.issued /\ n.created = FALSE /\ n.id = id
    BY <1>2, <2>1, ToFound DEF SameWrites
  <2> HIDE DEF n
  <2>3. Kept(j) /\ job'[j] = n
    BY <1>1, <2>1, <2>2, JobStep DEF Kept
  <2> QED BY <2>1, <2>2, <2>3 DEF id
<1>5. \/ found = {} /\ Step(j, [r EXCEPT !.pc = "insert"])
      \/ \E u \in found : Step(j, [r EXCEPT !.pc = "join", !.id = u.id, !.created = FALSE])
  BY DEF FindUser
<1> QED BY <1>1, <1>3, <1>4, <1>5

LEMMA InsertEffect ==
  ASSUME TypeOK, RequestsFit, NEW j \in Jobs, InsertUser(j)
  PROVE  /\ Kept(j) /\ job[j].pc = "insert"
         /\ \A k \in Others(j) : \A u \in job[k].users : u.email # Row(j).email
         /\ \/ job'[j] = Closed("done")
            \/ /\ SameRequest(job'[j], job[j]) /\ job'[j].pc = "join" /\ job'[j].created = TRUE
               /\ job'[j].i = job[j].i /\ job'[j].log = job[j].log /\ job'[j].issued = job[j].issued
               /\ job'[j].members = job[j].members /\ job'[j].promoted = job[j].promoted
               /\ job'[j].attempts = job[j].attempts
               /\ \A u \in users : u.email # Row(j).email
               /\ \E v \in User : /\ job'[j].users = job[j].users \cup {v}
                                  /\ v.id = job'[j].id /\ v.email = Row(j).email
                                  /\ v.hash = TempPassword(j) /\ v.temp = KeptPlain(j)
<1> DEFINE r == job[j]
<1>1. /\ r.pc = "insert" /\ UNCHANGED <<tables, deletion, shown, raced>>
      /\ \A k \in Others(j) : \A u \in job[k].users : u.email # Row(j).email
  BY DEF InsertUser
<1>2. r \in Request /\ Row(j).email \in Written /\ TempPassword(j) \in Password
  BY <1>1, RowFacts DEF Open, RequestsFit, Fits, Row
<1>3. KeptPlain(j) \in Password \cup {None}
  BY <1>2 DEF KeptPlain
<1>4. ASSUME \A u \in users : u.email # Row(j).email, NEW id \in Uids,
             Step(j, [r EXCEPT
               !.pc = "join", !.id = id, !.created = TRUE,
               !.users = @ \cup {[id |-> id, email |-> Row(j).email,
                                  hash |-> TempPassword(j), temp |-> KeptPlain(j)]}])
      PROVE  /\ Kept(j) /\ SameRequest(job'[j], job[j]) /\ job'[j].pc = "join" /\ job'[j].created = TRUE
             /\ job'[j].i = job[j].i /\ job'[j].log = job[j].log /\ job'[j].issued = job[j].issued
             /\ job'[j].members = job[j].members /\ job'[j].promoted = job[j].promoted
             /\ job'[j].attempts = job[j].attempts
             /\ \E v \in User : /\ job'[j].users = job[j].users \cup {v}
                                /\ v.id = job'[j].id /\ v.email = Row(j).email
                                /\ v.hash = TempPassword(j) /\ v.temp = KeptPlain(j)
  <2> DEFINE v == [id |-> id, email |-> Row(j).email, hash |-> TempPassword(j), temp |-> KeptPlain(j)]
             U == r.users \cup {v}
             n == [r EXCEPT !.pc = "join", !.id = id, !.created = TRUE, !.users = U]
  <2>1. /\ v \in User /\ v.id = id /\ v.email = Row(j).email
        /\ v.hash = TempPassword(j) /\ v.temp = KeptPlain(j)
    BY <1>2, <1>3 DEF User
  <2>2. Step(j, n)
    BY <1>4
  <2>r. r \in Request /\ U \in SUBSET User
    BY <1>2, <2>1 DEF Request
  <2> HIDE DEF v, r, U
  <2>3. /\ n \in Request /\ SameRequest(n, r) /\ n.pc = "join"
        /\ n.i = r.i /\ n.id = id /\ n.created = TRUE
        /\ n.users = U /\ n.members = r.members /\ n.promoted = r.promoted
        /\ n.attempts = r.attempts /\ n.log = r.log /\ n.issued = r.issued
    BY ONLY <2>r, id \in Uids DEF Request, SameRequest, Open
  <2> HIDE DEF n
  <2>4. Kept(j) /\ job'[j] = n
    BY <1>1, <2>2, <2>3, JobStep DEF Kept
  <2> QED BY <2>1, <2>3, <2>4 DEF r, U
<1>5. CASE \E u \in users : u.email = Row(j).email
  <2>1. Step(j, Aborted(j))
    BY <1>5 DEF InsertUser
  <2> QED BY <1>1, <2>1, AbortEffect
<1>6. CASE \A u \in users : u.email # Row(j).email
  <2>1. \E id \in Uids :
          Step(j, [r EXCEPT
               !.pc = "join", !.id = id, !.created = TRUE,
               !.users = @ \cup {[id |-> id, email |-> Row(j).email,
                                  hash |-> TempPassword(j), temp |-> KeptPlain(j)]}])
    BY <1>6 DEF InsertUser
  <2> QED BY <1>1, <1>4, <1>6, <2>1
<1> QED BY <1>5, <1>6

LEMMA JoinEffect ==
  ASSUME TypeOK, RequestsFit, NEW j \in Jobs, JoinOrg(j)
  PROVE  /\ Kept(j) /\ job[j].pc = "join"
         /\ \/ job'[j] = Closed("done")
            \/ /\ SameRequest(job'[j], job[j])
               /\ job'[j].pc = IF job[j].staff THEN "commit" ELSE "enrol"
               /\ job'[j].i = job[j].i /\ job'[j].id = job[j].id /\ job'[j].created = job[j].created
               /\ job'[j].users = job[j].users /\ job'[j].attempts = job[j].attempts
               /\ job'[j].log = job[j].log /\ job'[j].issued = job[j].issued
               /\ \/ /\ job'[j].members = job[j].members
                     /\ \E m \in MembersSeen(j) : SameMember(m, job[j].org, job[j].id)
                  \/ \E m \in Member : /\ job'[j].members = job[j].members \cup {m}
                                      /\ SameMember(m, job[j].org, job[j].id)
                                      /\ job[j].id \in Ids(UsersSeen(j))
<1> DEFINE r == job[j]
           p == IF r.staff THEN "commit" ELSE "enrol"
           joined == [r EXCEPT !.pc = p]
           m == [org |-> r.org, id |-> r.id, ext |-> Row(j).ext,
                 role |-> IF r.staff THEN "org_admin" ELSE "examinee"]
           M == r.members \cup {m}
           q == <<r.org, r.id>>
           Q == r.promoted \cup {q}
           there == \E k \in MembersSeen(j) : SameMember(k, r.org, r.id)
<1>1. r.pc = "join" /\ UNCHANGED <<tables, deletion, shown, raced>>
  BY DEF JoinOrg
<1>2. r \in Request /\ Row(j) \in RosterRow /\ r.id \in Uids /\ r.org \in Orgs
  BY <1>1, RowFacts DEF Open, RequestsFit, Fits
<1>3. m \in Member /\ SameMember(m, r.org, r.id)
  BY <1>2 DEF Member, RosterRow, SameMember
<1>4. M \in SUBSET Member /\ Q \in SUBSET (Orgs \X Uids)
  BY <1>2, <1>3 DEF Request
<1>5. /\ joined \in Request /\ SameRequest(joined, r) /\ joined.pc = p
      /\ joined.i = r.i /\ joined.id = r.id /\ joined.created = r.created
      /\ joined.users = r.users /\ joined.members = r.members /\ joined.promoted = r.promoted
      /\ joined.attempts = r.attempts /\ joined.log = r.log /\ joined.issued = r.issued
  <2>1. p \in Open
    BY DEF Open
  <2> HIDE DEF p, r
  <2> QED BY <1>2, <2>1, ToPc
<1>6. joined = IF r.staff THEN [r EXCEPT !.pc = "commit"] ELSE [r EXCEPT !.pc = "enrol"]
  OBVIOUS
<1>7. \/ Step(j, Aborted(j))
      \/ Step(j, joined) /\ there
      \/ Step(j, [joined EXCEPT !.promoted = Q]) /\ there
      \/ Step(j, [joined EXCEPT !.members = M]) /\ r.id \in Ids(UsersSeen(j))
  <2> DEFINE J == IF r.staff THEN [r EXCEPT !.pc = "commit"] ELSE [r EXCEPT !.pc = "enrol"]
  <2>1. IF there
        THEN Step(j, IF r.staff THEN [J EXCEPT !.promoted = @ \cup {q}] ELSE J)
        ELSE \/ Step(j, Aborted(j))
             \/ Step(j, [J EXCEPT !.members = @ \cup {m}]) /\ r.id \in Ids(UsersSeen(j))
    BY DEF JoinOrg
  <2>2. J = joined
    BY <1>6
  <2> HIDE DEF J, joined, there, q, m
  <2> QED BY <1>5, <2>1, <2>2
<1>8. CASE Step(j, Aborted(j))
  BY <1>1, <1>8, AbortEffect
<1>9. CASE Step(j, joined) /\ there
  <2> HIDE DEF joined
  <2>1. Kept(j) /\ job'[j] = joined
    BY <1>1, <1>5, <1>9, JobStep DEF Kept
  <2> QED BY <1>1, <1>5, <1>9, <2>1
<1>10. CASE Step(j, [joined EXCEPT !.promoted = Q]) /\ there
  <2> DEFINE n == [joined EXCEPT !.promoted = Q]
  <2> HIDE DEF joined, Q, p
  <2>1. /\ n \in Request /\ SameRequest(n, joined) /\ n.pc = joined.pc
        /\ n.i = joined.i /\ n.id = joined.id /\ n.created = joined.created
        /\ n.users = joined.users /\ n.members = joined.members
        /\ n.attempts = joined.attempts /\ n.log = joined.log /\ n.issued = joined.issued
    BY <1>4, <1>5 DEF Request, SameRequest
  <2> HIDE DEF n
  <2>2. Kept(j) /\ job'[j] = n
    BY <1>1, <1>10, <2>1, JobStep DEF Kept, n
  <2> QED BY <1>1, <1>5, <1>10, <2>1, <2>2 DEF SameRequest, p
<1>11. CASE Step(j, [joined EXCEPT !.members = M]) /\ r.id \in Ids(UsersSeen(j))
  <2> DEFINE n == [joined EXCEPT !.members = M]
  <2> HIDE DEF joined, M, p, m
  <2>1. /\ n \in Request /\ SameRequest(n, joined) /\ n.pc = joined.pc
        /\ n.i = joined.i /\ n.id = joined.id /\ n.created = joined.created
        /\ n.users = joined.users /\ n.members = M
        /\ n.attempts = joined.attempts /\ n.log = joined.log /\ n.issued = joined.issued
    BY <1>4, <1>5 DEF Request, SameRequest
  <2> HIDE DEF n
  <2>2. Kept(j) /\ job'[j] = n
    BY <1>1, <1>11, <2>1, JobStep DEF Kept, n
  <2>3. SameRequest(n, r) /\ n.pc = p /\ n.members = r.members \cup {m}
    BY <1>5, <2>1 DEF SameRequest, M
  <2> QED BY <1>1, <1>3, <1>5, <1>11, <2>1, <2>2, <2>3 DEF p
<1> QED BY <1>7, <1>8, <1>9, <1>10, <1>11

LEMMA EnrolEffect ==
  ASSUME TypeOK, RequestsFit, NEW j \in Jobs, EnsureAttempt(j)
  PROVE  LET a == <<job[j].batch, job[j].id>>
         IN  /\ Kept(j) /\ job[j].pc = "enrol" /\ ~ job[j].staff
             /\ \E x \in {"created", "skipped"} : LogsRow(j, x)
             /\ job'[j].users = job[j].users /\ job'[j].members = job[j].members
             /\ job'[j].promoted = job[j].promoted /\ job'[j].issued = IssuedIfCreated(j)
             /\ \/ job'[j].attempts = job[j].attempts /\ a \in AttemptsSeen(j)
                \/ job'[j].attempts = job[j].attempts \cup {a}
<1> DEFINE r == job[j]
           a == <<r.batch, r.id>>
           S == IssuedIfCreated(j)
           l == [r EXCEPT !.issued = S]
<1>1. r.pc = "enrol" /\ UNCHANGED <<tables, deletion, shown, raced>>
  BY DEF EnsureAttempt
<1>2. /\ r \in Request /\ r.i \in 1 .. Len(r.rows) /\ ~ r.staff /\ r.batch \in Batches /\ r.id \in Uids
      /\ Row(j).email \in Written /\ TempPassword(j) \in Password
  BY <1>1, RowFacts DEF Open, RequestsFit, Fits, Row
<1>3. S \in SUBSET ShownPassword /\ a \in Batches \X Uids
  BY <1>2 DEF Request, IssuedIfCreated, Issue, ShownPassword
<1>4. \/ a \in AttemptsSeen(j) /\ Step(j, Logged(l, "skipped"))
      \/ Step(j, Logged([l EXCEPT !.attempts = @ \cup {a}], "created"))
  BY DEF EnsureAttempt
<1>5. ASSUME NEW n \in Request, NEW A \in SUBSET (Batches \X Uids), NEW x \in {"created", "skipped"},
             n.issued = S, n.attempts = A, SameRequest(n, r), n.pc = r.pc, n.i = r.i, n.users = r.users,
             n.members = r.members, n.promoted = r.promoted, n.log = r.log, Step(j, Logged(n, x))
      PROVE  /\ Kept(j) /\ LogsRow(j, x)
             /\ job'[j].users = job[j].users /\ job'[j].members = job[j].members
             /\ job'[j].promoted = job[j].promoted /\ job'[j].issued = S
             /\ job'[j].attempts = A
  <2> DEFINE k == Logged(n, x)
  <2>1. n.i \in 1 .. Len(n.rows) /\ x \in Result
    BY <1>2, <1>5 DEF SameRequest, Result
  <2>2. /\ k \in Request /\ SameRequest(k, n)
        /\ IF n.i = Len(n.rows) THEN k.pc = "commit" /\ k.i = n.i
                                ELSE k.pc = "find" /\ k.i = n.i + 1
        /\ k.i \in 1 .. Len(k.rows)
        /\ k.users = n.users /\ k.members = n.members /\ k.promoted = n.promoted
        /\ k.attempts = n.attempts /\ k.issued = n.issued
        /\ k.log = Append(n.log, x)
    BY <2>1, ToLogged
  <2> HIDE DEF k, S
  <2>3. Kept(j) /\ job'[j] = k
    BY <1>1, <1>5, <2>2, JobStep DEF Kept, k
  <2> QED BY <1>5, <2>2, <2>3 DEF LogsRow, SameRequest
<1> HIDE DEF S
<1>6. CASE a \in AttemptsSeen(j) /\ Step(j, Logged(l, "skipped"))
  <2>1. /\ l \in Request /\ SameRequest(l, r) /\ l.pc = r.pc /\ l.i = r.i /\ l.users = r.users
        /\ l.members = r.members /\ l.promoted = r.promoted /\ l.log = r.log
        /\ l.issued = S /\ l.attempts = r.attempts
    <3> HIDE DEF r
    <3> QED BY <1>2, <1>3 DEF Request, SameRequest
  <2>2. r.attempts \in SUBSET (Batches \X Uids)
    BY <1>2 DEF Request
  <2> HIDE DEF l
  <2> QED BY <1>1, <1>2, <1>5, <1>6, <2>1, <2>2 DEF S
<1>7. CASE Step(j, Logged([l EXCEPT !.attempts = @ \cup {a}], "created"))
  <2> DEFINE A == r.attempts \cup {a}
             n == [l EXCEPT !.attempts = A]
  <2>1. A \in SUBSET (Batches \X Uids)
    BY <1>2, <1>3 DEF Request
  <2>2. l.attempts = r.attempts
    <3> HIDE DEF r
    <3> QED BY <1>2 DEF Request
  <2>3. n = [l EXCEPT !.attempts = @ \cup {a}]
    BY <2>2
  <2> HIDE DEF A
  <2>4. /\ n \in Request /\ SameRequest(n, r) /\ n.pc = r.pc /\ n.i = r.i /\ n.users = r.users
        /\ n.members = r.members /\ n.promoted = r.promoted /\ n.log = r.log
        /\ n.issued = S /\ n.attempts = A
    <3> HIDE DEF r
    <3> QED BY <1>2, <1>3, <2>1 DEF Request, SameRequest
  <2>5. Step(j, Logged(n, "created"))
    BY <1>7, <2>3
  <2> HIDE DEF n, l
  <2>6. /\ Kept(j) /\ LogsRow(j, "created")
        /\ job'[j].users = job[j].users /\ job'[j].members = job[j].members
        /\ job'[j].promoted = job[j].promoted /\ job'[j].issued = S
        /\ job'[j].attempts = A
    BY <1>5, <2>1, <2>4, <2>5
  <2> QED BY <1>1, <1>2, <2>6 DEF S, A
<1> QED BY <1>4, <1>6, <1>7

(* A statement that does not commit leaves a request that fits.            *)
LEMMA KeptFits ==
  ASSUME TypeOK, RequestsFit, QuestionFits, NEW j \in Jobs, Kept(j), Fits(job'[j])
  PROVE  TypeOK' /\ RequestsFit' /\ QuestionFits'
<1>1. \A k \in Jobs : Fits(job'[k])
  BY DEF Kept, RequestsFit
<1>2. job' \in [Jobs -> Request] /\ \A k \in Jobs : job'[k].pc \in Open => job'[k].i \in 1 .. Len(job'[k].rows)
  BY <1>1 DEF Kept, Fits
<1>3. TypeOK'
  BY <1>2 DEF TypeOK, Kept, tables
<1> QED BY <1>1, <1>3 DEF RequestsFit, QuestionFits, Kept

LEMMA LogFits ==
  ASSUME TypeOK, RequestsFit, NEW j \in Jobs, NEW x, LogsRow(j, x),
         (job[j].pc = "find" /\ Row(j).email = None) \/ job[j].pc = "enrol"
  PROVE  ~ job[j].staff /\ Fits(job'[j])
<1>1. /\ job[j] \in Request /\ job[j].i \in 1 .. Len(job[j].rows)
      /\ job[j].pc \in Open /\ Fits(job[j])
  BY RowFacts DEF Open, RequestsFit
<1>2. ~ job[j].staff
  <2>1. job[j].staff => job[j].i = 1 /\ Row(j).email # None /\ job[j].pc # "enrol"
    BY <1>1 DEF Fits, Row
  <2> QED BY <2>1
<1>3. Len(job[j].log) = job[j].i - 1 /\ job[j].log \in Seq(Result) /\ job[j].rows \in Seq(RosterRow)
  BY <1>1, <1>2 DEF Fits, Request
<1>4. Len(job'[j].log) = job[j].i
  BY <1>1, <1>3 DEF LogsRow
<1>5. job'[j].pc \in {"find", "commit"} /\ job'[j].pc \in Open
  BY DEF LogsRow, Open
<1> QED BY <1>1, <1>2, <1>4, <1>5 DEF Fits, LogsRow, SameRequest

LEMMA StatementsFit ==
  ASSUME TypeOK, RequestsFit, QuestionFits, NEW j \in Jobs,
         SkipBlank(j) \/ FindUser(j) \/ InsertUser(j) \/ JoinOrg(j) \/ EnsureAttempt(j) \/ RollBack(j)
  PROVE  Kept(j) /\ Fits(job'[j])
<1>0. Fits(Closed("done"))
  BY ToClosed DEF Fits, Open
<1>1. CASE SkipBlank(j)
  BY <1>1, SkipEffect, LogFits DEF Kept
<1>2. CASE FindUser(j)
  <2>1. /\ job[j].pc \in Open /\ job'[j].pc \in {"insert", "join"} /\ job'[j].pc \in Open
        /\ Fits(job[j]) /\ job[j].staff \in BOOLEAN
    BY <1>2, FindEffect DEF Open, RequestsFit, TypeOK, Request
  <2>2. /\ job'[j].i \in 1 .. Len(job'[j].rows) /\ job'[j].org \in Orgs
        /\ job'[j].rows[job'[j].i].email # None
        /\ job'[j].pc = "join" => job'[j].id \in Uids
    BY <1>2, <2>1, FindEffect DEF Fits, SameRequest, Row
  <2>3. CASE job[j].staff
    BY <1>2, <2>1, <2>2, <2>3, FindEffect DEF Fits, SameRequest, SameWrites
  <2>4. CASE ~ job[j].staff
    BY <1>2, <2>1, <2>2, <2>4, FindEffect DEF Fits, SameRequest
  <2> QED BY <2>3, <2>4
<1>3. CASE InsertUser(j)
  <2>1. job[j].pc \in Open /\ Fits(job[j]) /\ job[j].staff \in BOOLEAN
    BY <1>3, InsertEffect DEF Open, RequestsFit, TypeOK, Request
  <2>2. CASE job'[j].pc = "join"
    <3>1. job'[j] # Closed("done") /\ job'[j].pc \in Open
      BY <2>2, ToClosed DEF Open
    <3>2. /\ job'[j].id \in Uids /\ SameRequest(job'[j], job[j]) /\ job'[j].i = job[j].i
          /\ job'[j].log = job[j].log /\ job'[j].attempts = job[j].attempts
          /\ Kept(j) /\ job[j].pc = "insert"
      BY <1>3, <3>1, InsertEffect DEF User
    <3>3. CASE job[j].staff
      BY <2>1, <2>2, <3>1, <3>2, <3>3 DEF Fits, SameRequest
    <3>4. CASE ~ job[j].staff
      BY <2>1, <2>2, <3>1, <3>2, <3>4 DEF Fits, SameRequest
    <3> QED BY <2>1, <3>3, <3>4
  <2> QED BY <1>0, <1>3, <2>2, InsertEffect
<1>4. CASE JoinOrg(j)
  <2>1. job[j].pc \in Open /\ Fits(job[j]) /\ job[j].staff \in BOOLEAN
    BY <1>4, JoinEffect DEF Open, RequestsFit, TypeOK, Request
  <2>2. CASE job[j].staff
    BY <1>0, <1>4, <2>1, <2>2, JoinEffect DEF Fits, SameRequest, Open
  <2>3. CASE ~ job[j].staff
    BY <1>0, <1>4, <2>1, <2>3, JoinEffect DEF Fits, SameRequest, Open
  <2> QED BY <2>2, <2>3
<1>5. CASE EnsureAttempt(j)
  BY <1>5, EnrolEffect, LogFits DEF Kept
<1>6. CASE RollBack(j)
  BY <1>0, <1>6, AbortEffect DEF RollBack
<1> QED BY <1>1, <1>2, <1>3, <1>4, <1>5, <1>6

LEMMA StartEffect ==
  ASSUME TypeOK, NEW j \in Jobs, Start(j)
  PROVE  Begun(j)
<1>1. ASSUME NEW b \in Batches, NEW s \in Sheets, ImportRoster(j, b, s) PROVE Begun(j)
  <2> DEFINE R == RowsOf(s)
  <2>1. R \in Seq(RosterRow) /\ R # <<>> /\ BeginImport(j, b, R)
    BY <1>1, RowsAssumption DEF ImportRoster
  <2> HIDE DEF R
  <2> QED BY <2>1, BeginEffect
<1>2. ASSUME NEW b \in Batches, NEW r \in Entry, AddStudent(j, b, r) PROVE Begun(j)
  <2> DEFINE R == <<r>>
  <2>1. r \in RosterRow
    BY DEF Entry, RowOf, RosterRow, Cell, Written
  <2>2. R \in Seq(RosterRow) /\ R # <<>> /\ BeginImport(j, b, R)
    BY <1>2, <2>1 DEF AddStudent
  <2> HIDE DEF R
  <2> QED BY <2>2, BeginEffect
<1> QED BY <1>1, <1>2, InviteEffect DEF Start

LEMMA ClosedFits == Closed("done") \in Request /\ Fits(Closed("done")) /\ Closed("done").pc = "done"
BY ToClosed DEF Fits, Open

LEMMA CommitEffect ==
  ASSUME TypeOK, RequestsFit, NEW j \in Jobs, Commit(j)
  PROVE  /\ job[j].pc = "commit" /\ job[j].pc \in Open /\ Fits(job[j]) /\ job[j] \in Request
         /\ job' \in [Jobs -> Request] /\ job'[j] = Closed("done")
         /\ \A k \in Jobs \ {j} : job'[k] = job[k]
         /\ shown' = shown \/ shown' = shown \cup Issued(j)
<1>1. job[j].pc = "commit" /\ Step(j, Closed("done")) /\ (shown' = shown \/ shown' = shown \cup Issued(j))
  BY DEF Commit
<1>2. job[j].pc \in Open /\ Fits(job[j]) /\ job[j] \in Request
  BY <1>1, RowFacts DEF Open, RequestsFit
<1> QED BY <1>1, <1>2, ClosedFits, JobStep

LEMMA IssuedFits ==
  ASSUME TypeOK, RequestsFit, NEW j \in Jobs, job[j].pc = "commit"
  PROVE  Issued(j) \subseteq ShownPassword
<1>1. /\ job[j] \in Request /\ TempPassword(j) \in Password /\ Fits(job[j]) /\ job[j].pc \in Open
      /\ job[j].rows \in Seq(RosterRow) /\ job[j].issued \subseteq ShownPassword /\ job[j].staff \in BOOLEAN
  BY RowFacts DEF Open, Request, RequestsFit
<1>2. CASE job[j].staff
  <2>1. job[j].rows[1] \in RosterRow /\ job[j].rows[1].email # None
    BY <1>1, <1>2 DEF Fits
  <2>2. job[j].rows[1].email \in Written
    BY <2>1 DEF RosterRow, Cell
  <2> QED BY <1>1, <1>2, <2>2 DEF Issued, ShownPassword
<1> QED BY <1>1, <1>2 DEF Issued

LEMMA CommitFits ==
  ASSUME TypeOK, RequestsFit, QuestionFits, NEW j \in Jobs, Commit(j)
  PROVE  TypeOK' /\ RequestsFit' /\ QuestionFits'
<1> DEFINE r == job[j]
           x == [job |-> j, batch |-> r.batch, rows |-> r.rows, log |-> r.log]
<1>1. /\ r.pc = "commit" /\ r.pc \in Open /\ Fits(r) /\ r \in Request
      /\ job' \in [Jobs -> Request] /\ job'[j] = Closed("done")
      /\ \A k \in Jobs \ {j} : job'[k] = job[k]
      /\ shown' = shown \/ shown' = shown \cup Issued(j)
  BY CommitEffect
<1>2. /\ r.users \subseteq User /\ r.members \subseteq Member /\ r.attempts \subseteq Batches \X Uids
      /\ r.rows \in Seq(RosterRow) /\ r.log \in Seq(Result)
  BY <1>1 DEF Request
<1>3. \A k \in Jobs : Fits(job'[k])
  BY <1>1, ClosedFits DEF RequestsFit
<1>4. \A k \in Jobs : job'[k].pc \in Open => job'[k].i \in 1 .. Len(job'[k].rows)
  BY <1>3 DEF Fits
<1>5. members' \subseteq Member
  BY <1>2 DEF Commit, Promote, TypeOK, Member
<1>6. imports' \subseteq Import /\ \A m \in imports' : Len(m.log) = Len(m.rows)
  <2>1. CASE r.staff
    BY <2>1 DEF Commit, TypeOK
  <2>2. CASE ~ r.staff
    <3>1. r.batch \in Batches /\ Len(r.log) = Len(r.rows)
      BY <1>1, <2>2 DEF Fits
    <3>2. x \in Import /\ Len(x.log) = Len(x.rows)
      BY <1>2, <3>1 DEF Import
    <3>3. imports' = imports \cup {x}
      BY <2>2 DEF Commit
    <3> HIDE DEF x
    <3> QED BY <3>2, <3>3 DEF TypeOK
  <2> QED BY <2>1, <2>2
<1>7. shown' \subseteq ShownPassword
  BY <1>1, IssuedFits DEF TypeOK
<1>8. users' \subseteq User /\ attempts' \subseteq Batches \X Uids /\ UNCHANGED <<status, orgs, deletion, raced>>
  BY <1>2 DEF Commit, TypeOK
<1> QED BY <1>1, <1>3, <1>4, <1>5, <1>6, <1>7, <1>8 DEF TypeOK, RequestsFit, QuestionFits

LEMMA AdministrationFits ==
  ASSUME TypeOK, RequestsFit, QuestionFits, Administration
  PROVE  TypeOK' /\ RequestsFit' /\ QuestionFits'
<1> USE DEF TypeOK
<1>1. job' = job
  BY DEF Administration, SetPassword, LookAtStudent, LookAtBatch, LookAtOrg, Look, ViewRoster, CreateBatch,
         SetBatchStatus, DeleteStudent, DeleteBatch, DeleteOrg
<1>2. RequestsFit'
  BY <1>1 DEF RequestsFit
<1> DEFINE Tables == /\ users' \subseteq User /\ members' \subseteq Member /\ attempts' \subseteq attempts
                     /\ orgs' \subseteq orgs /\ imports' \subseteq imports /\ shown' \subseteq ShownPassword
                     /\ raced' \subseteq Uids /\ status' \in [Batches -> BatchStatus \cup {None}]
                     /\ deletion'.kind \in Deletion /\ QuestionFits'
<1>3. ASSUME NEW u \in users, SetPassword(u) PROVE Tables
  <2>1. ClearTemp(u) \in User
    BY DEF ClearTemp, User, Password
  <2> QED BY <1>3, <2>1 DEF SetPassword, QuestionFits
<1>4. ASSUME NEW u \in users, LookAtStudent(u.id) PROVE Tables
  BY <1>4 DEF LookAtStudent, Look, Deletion, tables, QuestionFits, User
<1>5. ASSUME NEW b \in Batches, LookAtBatch(b) PROVE Tables
  BY <1>5 DEF LookAtBatch, Look, Deletion, tables, QuestionFits
<1>6. ASSUME NEW o \in orgs, LookAtOrg(o) PROVE Tables
  BY <1>6 DEF LookAtOrg, Look, Deletion, tables, QuestionFits
<1>7. ASSUME NEW b \in Batches, ViewRoster(b) PROVE Tables
  <2>1. \A u \in users : u.temp # None => <<u.email, u.temp>> \in ShownPassword
    BY DEF User, ShownPassword
  <2> QED BY <1>7, <2>1 DEF ViewRoster, tables, QuestionFits
<1>8. ASSUME NEW b \in Batches, CreateBatch(b) \/ \E s \in BatchStatus : SetBatchStatus(b, s) PROVE Tables
  BY <1>8 DEF CreateBatch, SetBatchStatus, BatchStatus, QuestionFits
<1>9. ASSUME DeleteStudent PROVE Tables
  <2>1. raced' \subseteq Uids /\ QuestionFits' /\ deletion'.kind \in Deletion
    BY <1>9 DEF DeleteStudent, QuestionFits, Idle, Deletion
  <2> QED BY <1>9, <2>1 DEF DeleteStudent
<1>10. ASSUME DeleteBatch \/ DeleteOrg PROVE Tables
  BY <1>10 DEF DeleteBatch, DeleteOrg, Idle, Deletion, QuestionFits
<1> HIDE DEF Tables
<1>11. Tables
  BY <1>3, <1>4, <1>5, <1>6, <1>7, <1>8, <1>9, <1>10 DEF Administration
<1> QED BY <1>1, <1>2, <1>11 DEF Tables

(* Whatever the sheets say and however the transactions interleave, the    *)
(* rows of the tables, what each open transaction has written and the      *)
(* passwords on a screen stay of the kinds declared, an import records as  *)
(* many results as it has rows, and none reads past its last row.          *)
(* (batchService importRoster, xlsxRoster parseRosterXlsx)                 *)
THEOREM TypeSafety == Spec => [](TypeOK /\ RequestsFit /\ QuestionFits)
<1>1. Init => TypeOK /\ RequestsFit /\ QuestionFits
  <2> SUFFICES ASSUME Init PROVE TypeOK /\ RequestsFit /\ QuestionFits
    OBVIOUS
  <2>1. Fresh \in Request /\ Fits(Fresh) /\ Fresh.pc = "fresh" /\ "fresh" \notin Open
    BY ToClosed DEF Fits, Open, Fresh
  <2> QED BY <2>1 DEF Init, TypeOK, RequestsFit, QuestionFits, BatchStatus, Idle, Deletion
<1>2. TypeOK /\ RequestsFit /\ QuestionFits /\ [Next]_vars => (TypeOK /\ RequestsFit /\ QuestionFits)'
  <2> SUFFICES ASSUME TypeOK, RequestsFit, QuestionFits, [Next]_vars
               PROVE  TypeOK' /\ RequestsFit' /\ QuestionFits'
    OBVIOUS
  <2>1. ASSUME NEW j \in Jobs, Start(j)
        PROVE  TypeOK' /\ RequestsFit' /\ QuestionFits'
    BY <2>1, StartEffect, KeptFits DEF Begun
  <2>2. ASSUME NEW j \in Jobs, Transaction(j) PROVE TypeOK' /\ RequestsFit' /\ QuestionFits'
    BY <2>2, StatementsFit, KeptFits, CommitFits DEF Transaction
  <2>3. CASE UNCHANGED vars
    BY <2>3 DEF vars, tables, TypeOK, RequestsFit, QuestionFits
  <2> QED BY <2>1, <2>2, <2>3, AdministrationFits DEF Next
<1> QED BY <1>1, <1>2, PTL DEF Spec

-------------------------------------------------------------------------------
(* Passwords. *)

(* A statement that does not commit concerns its own request only.         *)
LEMMA KeptPasswords ==
  ASSUME TypeOK, PasswordInv, NEW j \in Jobs, Kept(j), job[j].pc # "done", Inserts(j)', Replies(j)'
  PROVE  PasswordInv'
<1> USE DEF PasswordInv
<1>1. UNCHANGED <<users, shown, imports>> /\ \A k \in Jobs \ {j} : job'[k] = job[k]
  BY DEF Kept, tables
<1>2. OneAccountPerEmail' /\ ShownIsOfAnAccount' /\ KnownPassword'
  BY <1>1 DEF OneAccountPerEmail, ShownIsOfAnAccount, KnownPassword
<1>3. InvitedOnly'
  <2>1. \A k \in Jobs : job[k].pc = "done" => job'[k].pc = "done"
    BY <1>1
  <2> QED BY <1>1, <2>1 DEF InvitedOnly, TypeOK, Import
<1>4. ASSUME NEW k \in Jobs PROVE Inserts(k)' /\ Replies(k)'
  <2>1. CASE k # j
    <3>1. job'[k] = job[k] /\ Inserts(k) /\ Replies(k)
      BY <1>1, <2>1
    <3>2. \A h \in Jobs : \A u \in job'[k].users, v \in job'[h].users : u.email = v.email => k = h /\ u = v
      BY <1>1, <2>1, <3>1 DEF Inserts
    <3>3. Row(k)' = Row(k) /\ TempPassword(k)' = TempPassword(k)
      BY <3>1 DEF Row, TempPassword
    <3> QED BY <1>1, <3>1, <3>2, <3>3 DEF Inserts, Replies, Opens
  <2> QED BY <2>1
<1> QED BY <1>2, <1>3, <1>4

LEMMA NothingToReply ==
  ASSUME NEW j \in Jobs, job'[j].users = {}, job'[j].issued = {}, job'[j].created = FALSE
  PROVE  Inserts(j)' /\ Replies(j)'
BY DEF Inserts, Replies

LEMMA StatementsKeepPasswords ==
  ASSUME TypeOK, RequestsFit, PasswordInv, NEW j \in Jobs,
         \/ Start(j) \/ SkipBlank(j) \/ FindUser(j) \/ InsertUser(j)
         \/ JoinOrg(j) \/ EnsureAttempt(j) \/ RollBack(j)
  PROVE  PasswordInv'
<1> USE DEF PasswordInv
<1>0. Inserts(j) /\ Replies(j)
  OBVIOUS
<1>c. ASSUME job'[j] = Closed("done") PROVE Inserts(j)' /\ Replies(j)'
  BY <1>c, ToClosed, NothingToReply
<1>1. CASE Start(j)
  <2>1. Kept(j) /\ job[j].pc # "done" /\ Inserts(j)' /\ Replies(j)'
    BY <1>1, StartEffect, NothingToReply, ToClosed DEF Begun, Fresh
  <2> QED BY <2>1, KeptPasswords
<1>2. CASE SkipBlank(j)
  <2>1. /\ Kept(j) /\ job[j].pc = "find" /\ job'[j].users = job[j].users /\ job'[j].issued = job[j].issued
        /\ job'[j].pc \in {"find", "commit"} /\ ~ job[j].staff /\ job'[j].staff = job[j].staff
    BY <1>2, SkipEffect, LogFits DEF LogsRow, SameWrites, SameRequest
  <2>2. Inserts(j)' /\ Replies(j)'
    BY <1>0, <2>1 DEF Inserts, Replies, Opens, Kept, tables
  <2> QED BY <2>1, <2>2, KeptPasswords
<1>3. CASE FindUser(j)
  <2>1. /\ Kept(j) /\ job[j].pc = "find" /\ job'[j].users = job[j].users /\ job'[j].issued = job[j].issued
        /\ Row(j)' = Row(j) /\ job'[j].staff = job[j].staff
        /\ \/ job'[j].pc = "insert" /\ \A u \in job[j].users : u.email # Row(j).email
           \/ job'[j].pc = "join" /\ job'[j].created = FALSE
    BY <1>3, FindEffect DEF SameWrites, SameRequest, Row, UsersSeen
  <2>2. Inserts(j)'
    BY <1>0, <2>1 DEF Inserts, Kept, tables
  <2>3. Replies(j)'
    BY <1>0, <2>1 DEF Replies, Opens
  <2> QED BY <2>1, <2>2, <2>3, KeptPasswords
<1>4. CASE InsertUser(j)
  <2>1. Kept(j) /\ job[j].pc = "insert"
    BY <1>4, InsertEffect
  <2>2. CASE job'[j] = Closed("done")
    BY <1>c, <2>1, <2>2, KeptPasswords
  <2>3. CASE job'[j] # Closed("done")
    <3>1. PICK v \in User : /\ job'[j].users = job[j].users \cup {v} /\ v.email = Row(j).email
                            /\ v.hash = TempPassword(j) /\ v.temp = KeptPlain(j)
      BY <1>4, <2>3, InsertEffect
    <3>2. /\ SameRequest(job'[j], job[j]) /\ job'[j].pc = "join" /\ job'[j].i = job[j].i
          /\ job'[j].issued = job[j].issued /\ \A u \in users : u.email # Row(j).email
          /\ \A k \in Others(j) : \A u \in job[k].users : u.email # Row(j).email
      BY <1>4, <2>3, InsertEffect
    <3>3. Row(j)' = Row(j) /\ TempPassword(j)' = TempPassword(j) /\ job'[j].staff = job[j].staff
      BY <3>2 DEF Row, TempPassword, SameRequest
    <3>4. TempPassword(j) \in {j} \X Nat
      BY <2>1, RowFacts DEF Open
    <3>5. /\ \A u \in users, w \in job'[j].users : u.email # w.email
          /\ \A u, w \in job'[j].users : u.email = w.email => u = w
      BY <1>0, <2>1, <3>1, <3>2 DEF Inserts
    <3>6. Inserts(j)'
      <4>1. ASSUME NEW k \in Jobs \ {j}, NEW u \in job'[j].users, NEW w \in job'[k].users PROVE u.email # w.email
        BY <1>0, <2>1, <3>1, <3>2 DEF Inserts, Kept, Others
      <4> QED BY <2>1, <3>2, <3>5, <4>1 DEF Inserts, Kept, tables
    <3>7. \A s : Opens(j, s) => Opens(j, s)'
      BY <3>1 DEF Opens
    <3>8. Opens(j, <<Row(j).email, TempPassword(j)>>)'
      BY <3>1, <3>3 DEF Opens
    <3>9. Replies(j)'
      BY <1>0, <3>1, <3>2, <3>3, <3>4, <3>7, <3>8 DEF Replies, KeptPlain
    <3> QED BY <2>1, <3>6, <3>9, KeptPasswords
  <2> QED BY <2>2, <2>3
<1>5. CASE JoinOrg(j)
  <2>1. Kept(j) /\ job[j].pc = "join"
    BY <1>5, JoinEffect
  <2>2. CASE job'[j] = Closed("done")
    BY <1>c, <2>1, <2>2, KeptPasswords
  <2>3. CASE job'[j] # Closed("done")
    <3>1. /\ SameRequest(job'[j], job[j]) /\ job'[j].pc \in {"commit", "enrol"} /\ job'[j].i = job[j].i
          /\ job'[j].created = job[j].created /\ job'[j].users = job[j].users /\ job'[j].issued = job[j].issued
      BY <1>5, <2>3, JoinEffect
    <3>2. Row(j)' = Row(j) /\ TempPassword(j)' = TempPassword(j) /\ job'[j].staff = job[j].staff
      BY <3>1 DEF Row, TempPassword, SameRequest
    <3>3. Inserts(j)' /\ Replies(j)'
      BY <1>0, <2>1, <3>1, <3>2 DEF Inserts, Replies, Opens, Kept, tables
    <3> QED BY <2>1, <3>3, KeptPasswords
  <2> QED BY <2>2, <2>3
<1>6. CASE EnsureAttempt(j)
  <2>1. /\ Kept(j) /\ job[j].pc = "enrol" /\ job'[j].users = job[j].users /\ job'[j].issued = IssuedIfCreated(j)
        /\ job'[j].pc \in {"find", "commit"} /\ ~ job[j].staff /\ job'[j].staff = job[j].staff
    BY <1>6, EnrolEffect DEF LogsRow, SameRequest
  <2>2. \A s \in IssuedIfCreated(j) : Opens(j, s)
    BY <1>0, <2>1 DEF Replies, IssuedIfCreated, Issue
  <2>3. Inserts(j)' /\ Replies(j)'
    BY <1>0, <2>1, <2>2 DEF Inserts, Replies, Opens, Kept, tables
  <2> QED BY <2>1, <2>3, KeptPasswords
<1>7. CASE RollBack(j)
  <2>1. Kept(j) /\ job[j].pc # "done" /\ job'[j] = Closed("done")
    BY <1>7, AbortEffect DEF RollBack, Open
  <2> QED BY <1>c, <2>1, KeptPasswords
<1> QED BY <1>1, <1>2, <1>3, <1>4, <1>5, <1>6, <1>7

LEMMA CommitKeepsPasswords ==
  ASSUME TypeOK, RequestsFit, PasswordInv, NEW j \in Jobs, Commit(j)
  PROVE  PasswordInv'
<1> USE DEF PasswordInv
<1> DEFINE r == job[j]
<1>1. /\ r.pc = "commit" /\ r.pc \in Open /\ Fits(r) /\ r \in Request
      /\ job' \in [Jobs -> Request] /\ job'[j] = Closed("done")
      /\ \A k \in Jobs \ {j} : job'[k] = job[k]
      /\ shown' = shown \/ shown' = shown \cup Issued(j)
  BY CommitEffect
<1>2. users' = users \cup r.users /\ r.staff \in BOOLEAN /\ Inserts(j) /\ Replies(j)
  BY <1>1 DEF Commit, Request
<1>3. job'[j].pc = "done" /\ job'[j].users = {} /\ job'[j].issued = {} /\ job'[j].created = FALSE
  BY <1>1, ToClosed
<1>4. \A s \in Issued(j) : Opens(j, s)
  <2>1. CASE r.staff
    <3>0. r.i \in 1 .. Len(r.rows) /\ Len(r.rows) = 1
      BY ONLY <1>1, <2>1 DEF Fits
    <3>1. r.i = 1
      BY <3>0
    <3>2. Row(j) = r.rows[1]
      BY <3>1 DEF Row
    <3> QED BY <1>1, <1>2, <2>1, <3>2 DEF Issued, Replies
  <2>2. CASE ~ r.staff
    BY <1>2, <2>2 DEF Issued, Replies
  <2> QED BY <1>2, <2>1, <2>2
<1>5. OneAccountPerEmail'
  BY <1>2 DEF OneAccountPerEmail, Inserts
<1>6. ASSUME NEW k \in Jobs PROVE Inserts(k)' /\ Replies(k)'
  <2>1. CASE k = j
    BY <1>3, <2>1, NothingToReply
  <2>2. CASE k # j
    <3>1. job'[k] = job[k] /\ Inserts(k) /\ Replies(k)
      BY <1>1, <2>2
    <3>2. \A h \in Jobs : \A u \in job'[k].users, v \in job'[h].users : u.email = v.email => k = h /\ u = v
      BY <1>1, <1>3, <3>1 DEF Inserts
    <3>3. Row(k)' = Row(k) /\ TempPassword(k)' = TempPassword(k)
      BY <3>1 DEF Row, TempPassword
    <3>4. \A u \in users', v \in job'[k].users : u.email # v.email
      BY <1>2, <2>2, <3>1 DEF Inserts
    <3> QED BY <3>1, <3>2, <3>3, <3>4 DEF Inserts, Replies, Opens
  <2> QED BY <2>1, <2>2
<1>7. ShownIsOfAnAccount'
  BY <1>1, <1>2, <1>4 DEF ShownIsOfAnAccount, Opens
<1>8. \A k \in Jobs : job[k].pc = "done" => job'[k].pc = "done"
  BY <1>1, <1>3
<1>9. \A m \in imports' : m \in imports \/ (m.job = j /\ ~ r.staff)
  BY DEF Commit
<1>10. \A u \in r.users : u.hash \in {j} \X Nat /\ u.temp = IF r.staff THEN None ELSE u.hash
  BY <1>2 DEF Replies
<1>11. InvitedOnly'
  <2>1. \A m \in imports : m.job \in Jobs
    BY DEF TypeOK, Import
  <2> QED BY <1>2, <1>3, <1>8, <1>9, <1>10, <2>1 DEF InvitedOnly
<1>12. KnownPassword'
  <2> SUFFICES ASSUME NEW u \in users'
               PROVE  /\ \A s \in shown' : s[1] = u.email => u.hash \in {s[2], Chosen}
                      /\ u.temp \in {None, u.hash}
                      /\ u.hash # Chosen /\ u.temp = None => \A m \in imports' : m.job # u.hash[1]
    BY DEF KnownPassword
  <2>1. CASE u \in users
    <3>1. \A s \in Issued(j) : s[1] # u.email
      BY <1>2, <1>4, <2>1 DEF Opens, Inserts
    <3>2. u.hash # Chosen /\ u.temp = None => u.hash[1] # j
      BY <1>1, <2>1 DEF InvitedOnly
    <3> QED BY <1>1, <1>9, <2>1, <3>1, <3>2 DEF KnownPassword
  <2>2. CASE u \in r.users
    <3>1. \A s \in shown : s[1] # u.email
      BY <1>2, <2>2 DEF ShownIsOfAnAccount, Inserts
    <3>2. \A s \in Issued(j) : s[1] = u.email => u.hash = s[2]
      BY <1>2, <1>4, <2>2 DEF Opens, Inserts
    <3>3. u.hash # None /\ u.hash[1] = j
      BY <1>10, <2>2, NoneAssumption DEF Password
    <3>4. \A m \in imports : m.job # j
      BY <1>1 DEF InvitedOnly
    <3> QED BY <1>1, <1>9, <1>10, <2>2, <3>1, <3>2, <3>3, <3>4
  <2> QED BY <1>2, <2>1, <2>2
<1> QED BY <1>5, <1>6, <1>7, <1>11, <1>12

LEMMA AdministrationKeepsPasswords ==
  ASSUME TypeOK, RequestsFit, PasswordInv, Administration
  PROVE  PasswordInv'
<1> USE DEF PasswordInv
<1>1. job' = job
  BY DEF Administration, SetPassword, LookAtStudent, LookAtBatch, LookAtOrg, Look, ViewRoster, CreateBatch,
         SetBatchStatus, DeleteStudent, DeleteBatch, DeleteOrg
<1>2. ASSUME \A u \in users' : \E v \in users : u.email = v.email
      PROVE  \A j \in Jobs : Inserts(j)' /\ Replies(j)'
  BY <1>1, <1>2 DEF Inserts, Replies, Opens, Row, TempPassword
<1>3. ASSUME UNCHANGED <<users, shown>>, imports' \subseteq imports PROVE PasswordInv'
  BY <1>1, <1>2, <1>3 DEF OneAccountPerEmail, ShownIsOfAnAccount, InvitedOnly, KnownPassword
<1>4. ASSUME NEW u \in users, SetPassword(u) PROVE PasswordInv'
  <2> DEFINE c == ClearTemp(u)
  <2>1. c.email = u.email /\ c.hash = Chosen /\ c.temp = None
    BY DEF ClearTemp, TypeOK, User
  <2>2. users' = (users \ {u}) \cup {c} /\ UNCHANGED <<shown, imports>>
    BY <1>4 DEF SetPassword
  <2> HIDE DEF c
  <2>3. \A v \in users' : (v \in users /\ v # u) \/ v = c
    BY <2>2
  <2>4. OneAccountPerEmail' /\ ShownIsOfAnAccount'
    BY <2>1, <2>2 DEF OneAccountPerEmail, ShownIsOfAnAccount
  <2>5. InvitedOnly' /\ KnownPassword'
    BY <1>1, <2>1, <2>2, <2>3 DEF InvitedOnly, KnownPassword
  <2> QED BY <1>2, <2>1, <2>3, <2>4, <2>5
<1>5. ASSUME NEW b \in Batches, ViewRoster(b) PROVE PasswordInv'
  <2>1. UNCHANGED <<users, imports>>
    BY <1>5 DEF ViewRoster, tables
  <2>2. \A s \in shown' : s \in shown \/ \E u \in users : s[1] = u.email /\ s[2] = u.hash
    <3> SUFFICES ASSUME NEW s \in shown', s \notin shown PROVE \E u \in users : s[1] = u.email /\ s[2] = u.hash
      OBVIOUS
    <3>1. PICK u \in users : u.temp # None /\ s = <<u.email, u.temp>>
      BY <1>5 DEF ViewRoster
    <3>2. u.temp = u.hash
      BY <3>1 DEF KnownPassword
    <3> QED BY <3>1, <3>2
  <2>3. ShownIsOfAnAccount' /\ OneAccountPerEmail' /\ InvitedOnly'
    BY <1>1, <2>1, <2>2 DEF ShownIsOfAnAccount, OneAccountPerEmail, InvitedOnly
  <2>4. KnownPassword'
    BY <2>1, <2>2 DEF KnownPassword, OneAccountPerEmail
  <2> QED BY <1>2, <2>1, <2>3, <2>4
<1>6. ASSUME DeleteStudent PROVE PasswordInv'
  <2>1. /\ users' = {u \in users : u.id # deletion.target} /\ imports' = imports
        /\ shown' = {s \in shown : \A u \in users : u.id = deletion.target => s[1] # u.email}
    BY <1>6 DEF DeleteStudent
  <2>2. ShownIsOfAnAccount' /\ OneAccountPerEmail' /\ InvitedOnly' /\ KnownPassword'
    BY <1>1, <2>1 DEF ShownIsOfAnAccount, OneAccountPerEmail, InvitedOnly, KnownPassword
  <2> QED BY <1>2, <2>1, <2>2
<1>7. ASSUME \/ \E u \in users : LookAtStudent(u.id)
             \/ \E b \in Batches : LookAtBatch(b) \/ CreateBatch(b) \/ \E s \in BatchStatus : SetBatchStatus(b, s)
             \/ \E o \in orgs : LookAtOrg(o)
             \/ DeleteBatch \/ DeleteOrg
      PROVE  UNCHANGED <<users, shown>> /\ imports' \subseteq imports
  BY <1>7 DEF LookAtStudent, LookAtBatch, LookAtOrg, Look, tables, CreateBatch, SetBatchStatus, DeleteBatch, DeleteOrg
<1> QED BY <1>3, <1>4, <1>5, <1>6, <1>7 DEF Administration

(* Which accounts a password opens, whatever is committed, lost or rolled  *)
(* back in between: no two accounts have one e-mail, what a transaction    *)
(* has inserted and will reply belongs to an account, and a password       *)
(* nobody keeps was made for an invitation.                                *)
(* (users.ts upsertByEmailTx, batchService importRoster, staffService)     *)
THEOREM Passwords == Spec => []PasswordInv
<1>1. Init => PasswordInv
  <2> SUFFICES ASSUME Init PROVE PasswordInv
    OBVIOUS
  <2>1. Fresh.users = {} /\ Fresh.issued = {} /\ Fresh.created = FALSE /\ Fresh.pc = "fresh"
    BY ToClosed DEF Fresh
  <2> QED BY <2>1 DEF Init, PasswordInv, OneAccountPerEmail, Inserts, Replies, ShownIsOfAnAccount,
                      InvitedOnly, KnownPassword
<1>2. TypeOK /\ RequestsFit /\ PasswordInv /\ [Next]_vars => PasswordInv'
  <2> SUFFICES ASSUME TypeOK, RequestsFit, PasswordInv, [Next]_vars PROVE PasswordInv'
    OBVIOUS
  <2>1. CASE UNCHANGED vars
    BY <2>1 DEF vars, tables, PasswordInv, OneAccountPerEmail, Inserts, Replies, Opens, Row, TempPassword,
                ShownIsOfAnAccount, InvitedOnly, KnownPassword
  <2> QED BY <2>1, StatementsKeepPasswords, CommitKeepsPasswords, AdministrationKeepsPasswords DEF Next, Transaction
<1> QED BY <1>1, <1>2, TypeSafety, PTL DEF Spec

(* Whatever replies get lost and however imports, invitations, deletions   *)
(* and password changes interleave: a password an administrator was shown  *)
(* opens the account until its owner chooses another, the plaintext an     *)
(* account keeps is the password it has, and no import leaves an account   *)
(* nobody can log in to.                                                   *)
THEOREM PasswordsWork == Spec => []KnownPassword
BY Passwords, PTL DEF PasswordInv

-------------------------------------------------------------------------------
(* Rosters. *)

(* What some attempt, or an import under way, refers to.                   *)
Referenced(id) == AttemptsOf(id) # {} \/ Enrolling(id)

(* No step takes away an account or a membership somebody refers to, or    *)
(* else the account is recorded as raced.                                  *)
Survives(id) ==
  /\ id \in raced => id \in raced'
  /\ \A u \in users : u.id = id => id \in raced' \/ \E v \in users' : v.id = id /\ v.email = u.email
  /\ \A m \in members : m.id = id => id \in raced' \/ \E k \in members' : k.id = id /\ k.org = m.org

LEMMA SurvivorIsSeen ==
  ASSUME NEW j \in Jobs, job'[j] = job[j], NEW id, Survives(id)
  PROVE  /\ \A e : HasAccount(UsersSeen(j), id, e) => HasAccount(UsersSeen(j), id, e)'
         /\ \A o : HasMember(MembersSeen(j), o, id) => HasMember(MembersSeen(j), o, id)'
         /\ id \in Ids(UsersSeen(j)) \cup raced => id \in (Ids(UsersSeen(j)) \cup raced)'
<1>1. ASSUME NEW e, HasAccount(UsersSeen(j), id, e) PROVE HasAccount(UsersSeen(j), id, e)'
  BY <1>1 DEF HasAccount, UsersSeen, Survives
<1>2. ASSUME NEW o, HasMember(MembersSeen(j), o, id) PROVE HasMember(MembersSeen(j), o, id)'
  BY <1>2 DEF HasMember, MembersSeen, Survives, SameMember
<1>3. ASSUME id \in Ids(UsersSeen(j)) PROVE id \in (Ids(UsersSeen(j)) \cup raced)'
  BY <1>3 DEF Ids, UsersSeen, Survives
<1> QED BY <1>1, <1>2, <1>3 DEF Survives

LEMMA ProgressKept ==
  ASSUME TypeOK, RequestsFit, NEW j \in Jobs, job'[j] = job[j], Progress(j), attempts \subseteq attempts',
         \A id \in Uids : Referenced(id) => Survives(id)
  PROVE  Progress(j)'
<1> SUFFICES ASSUME ~ job[j].staff
             PROVE  /\ job[j].pc \in {"join", "enrol"} => HasAccount(UsersSeen(j), job[j].id, Row(j).email)'
                    /\ job[j].pc = "enrol" => HasMember(MembersSeen(j), job[j].org, job[j].id)'
                    /\ \A n \in 1 .. Len(job[j].log) :
                         RowDone(job[j].rows, job[j].log, n, job[j].batch,
                                 UsersSeen(j), MembersSeen(j), AttemptsSeen(j))'
                    /\ \A a \in job[j].attempts : a[2] \in (Ids(UsersSeen(j)) \cup raced)'
  BY DEF Progress
<1>1. Fits(job[j]) /\ job[j] \in Request /\ Row(j)' = Row(j)
  BY DEF RequestsFit, TypeOK, Row
<1>2. ASSUME job[j].pc \in {"join", "enrol"} PROVE job[j].id \in Uids /\ Survives(job[j].id)
  <2>1. job[j].pc \in Open /\ job[j].id \in Uids
    BY <1>1, <1>2 DEF Fits, Open
  <2>2. Enrolling(job[j].id)
    BY <2>1 DEF Enrolling
  <2> QED BY <2>1, <2>2 DEF Referenced
<1>3. ASSUME NEW a \in AttemptsSeen(j) PROVE Survives(a[2])
  <2>1. a \in Batches \X Uids
    BY <1>1 DEF AttemptsSeen, TypeOK, Request
  <2>2. CASE a \in attempts
    <3>1. a \in AttemptsOf(a[2])
      BY <2>2 DEF AttemptsOf
    <3> QED BY <2>1, <3>1 DEF Referenced
  <2>3. CASE a \in job[j].attempts
    <3>1. job[j].pc \in Open
      <4> SUFFICES ASSUME job[j].pc \notin Open PROVE FALSE
        OBVIOUS
      <4>1. job[j] = Closed(job[j].pc) /\ job[j].pc \in {"fresh", "done"}
        BY <1>1 DEF Fits, Request
      <4> QED BY <2>3, <4>1, ToClosed
    <3>2. Enrolling(a[2])
      BY <2>3, <3>1 DEF Enrolling
    <3> QED BY <2>1, <3>2 DEF Referenced
  <2> QED BY <2>2, <2>3 DEF AttemptsSeen
<1>4. job[j].pc \in {"join", "enrol"} => HasAccount(UsersSeen(j), job[j].id, Row(j).email)'
  BY <1>1, <1>2, SurvivorIsSeen DEF Progress
<1>5. job[j].pc = "enrol" => HasMember(MembersSeen(j), job[j].org, job[j].id)'
  BY <1>1, <1>2, SurvivorIsSeen DEF Progress
<1>6. \A a \in job[j].attempts : a[2] \in (Ids(UsersSeen(j)) \cup raced)'
  BY <1>3, SurvivorIsSeen DEF Progress, AttemptsSeen
<1>7. ASSUME NEW n \in 1 .. Len(job[j].log)
      PROVE  RowDone(job[j].rows, job[j].log, n, job[j].batch,
                     UsersSeen(j), MembersSeen(j), AttemptsSeen(j))'
  <2>1. RowDone(job[j].rows, job[j].log, n, job[j].batch, UsersSeen(j), MembersSeen(j), AttemptsSeen(j))
    BY DEF Progress
  <2>2. AttemptsSeen(j) \subseteq AttemptsSeen(j)'
    BY DEF AttemptsSeen
  <2>3. CASE job[j].rows[n].email = None
    BY <2>1, <2>3 DEF RowDone
  <2>4. CASE job[j].rows[n].email # None
    <3>1. PICK a \in AttemptsSeen(j) : /\ a[1] = job[j].batch
                                       /\ HasAccount(UsersSeen(j), a[2], job[j].rows[n].email)
                                       /\ HasMember(MembersSeen(j), OrgOf[job[j].batch], a[2])
      BY <2>1, <2>4 DEF RowDone
    <3>2. /\ HasAccount(UsersSeen(j), a[2], job[j].rows[n].email)'
          /\ HasMember(MembersSeen(j), OrgOf[job[j].batch], a[2])'
      BY <1>3, <3>1, SurvivorIsSeen
    <3> QED BY <2>1, <2>2, <2>4, <3>1, <3>2 DEF RowDone
  <2> QED BY <2>3, <2>4
<1> QED BY <1>4, <1>5, <1>6, <1>7

LEMMA TablesKept ==
  ASSUME TypeOK, WholeImport, OrphanOnlyByRace, attempts \subseteq attempts',
         \A id \in Uids : Referenced(id) => Survives(id)
  PROVE  /\ \A m \in imports : \A i \in 1 .. Len(m.rows) :
               RowDone(m.rows, m.log, i, m.batch, users, members, attempts)'
         /\ \A a \in attempts : a[2] \in (Ids(users) \cup raced)'
<1>1. ASSUME NEW a \in attempts PROVE Survives(a[2])
  <2>1. a[2] \in Uids /\ a \in AttemptsOf(a[2])
    BY DEF TypeOK, AttemptsOf
  <2> QED BY <2>1 DEF Referenced
<1>2. ASSUME NEW a \in attempts PROVE a[2] \in (Ids(users) \cup raced)'
  BY <1>1 DEF OrphanOnlyByRace, Ids, Survives
<1>3. ASSUME NEW m \in imports, NEW i \in 1 .. Len(m.rows)
      PROVE  RowDone(m.rows, m.log, i, m.batch, users, members, attempts)'
  <2>1. CASE m.rows[i].email = None
    BY <2>1 DEF WholeImport, RowDone
  <2>2. CASE m.rows[i].email # None
    <3>1. m.log[i] \in {"created", "skipped"}
      BY <2>2 DEF WholeImport
    <3>2. PICK a \in AttemptsIn(m.batch) :
                  \/ a[2] \in raced
                  \/ /\ \E u \in users : u.id = a[2] /\ u.email = m.rows[i].email
                     /\ \E k \in members : SameMember(k, OrgOf[m.batch], a[2])
      BY <2>2 DEF WholeImport
    <3>3. a \in attempts /\ a[1] = m.batch /\ a \in attempts'
      BY DEF AttemptsIn
    <3>4. HasAccount(users, a[2], m.rows[i].email)'
      BY <1>1, <3>2, <3>3 DEF Survives, HasAccount
    <3>5. HasMember(members, OrgOf[m.batch], a[2])'
      BY <1>1, <3>2, <3>3 DEF Survives, HasMember, SameMember
    <3> QED BY <2>2, <3>1, <3>3, <3>4, <3>5 DEF RowDone
  <2> QED BY <2>1, <2>2
<1> QED BY <1>2, <1>3

(* Rows that are done make a whole import.                                 *)
LEMMA DoneIsWhole ==
  ASSUME \A m \in imports' : \A i \in 1 .. Len(m.rows) :
           RowDone(m.rows, m.log, i, m.batch, users, members, attempts)'
  PROVE  WholeImport'
<1> SUFFICES ASSUME NEW m \in imports', NEW i \in 1 .. Len(m.rows)
             PROVE  IF m.rows[i].email = None THEN m.log[i] = "error"
                    ELSE /\ m.log[i] \in {"created", "skipped"}
                         /\ \E a \in AttemptsIn(m.batch)' :
                              \/ a[2] \in raced'
                              \/ /\ \E u \in users' : u.id = a[2] /\ u.email = m.rows[i].email
                                 /\ \E k \in members' : SameMember(k, OrgOf[m.batch], a[2])
  BY DEF WholeImport
<1>1. RowDone(m.rows, m.log, i, m.batch, users, members, attempts)'
  OBVIOUS
<1> QED BY <1>1 DEF RowDone, AttemptsIn, HasAccount, HasMember

LEMMA KeptRoster ==
  ASSUME TypeOK, RequestsFit, RosterInv, NEW j \in Jobs, Kept(j), Progress(j)'
  PROVE  RosterInv'
<1> USE DEF RosterInv
<1>1. UNCHANGED <<users, members, attempts, imports, raced>>
  BY DEF Kept, tables
<1>2. \A id \in Uids : Survives(id)
  BY <1>1 DEF Survives
<1>3. ASSUME NEW k \in Jobs PROVE Progress(k)'
  <2>1. CASE k # j
    BY <1>1, <1>2, <2>1, ProgressKept DEF Kept
  <2> QED BY <2>1
<1>4. WholeImport' /\ OrphanOnlyByRace'
  BY <1>1 DEF WholeImport, OrphanOnlyByRace, AttemptsIn
<1> QED BY <1>3, <1>4

LEMMA NothingDone ==
  ASSUME NEW j \in Jobs, job'[j].pc \notin {"join", "enrol"}, job'[j].attempts = {}, job'[j].log = <<>>
  PROVE  Progress(j)'
BY DEF Progress

(* A row that is done is added to those that were.                         *)
LEMMA LogKeepsRoster ==
  ASSUME TypeOK, RequestsFit, NEW j \in Jobs, Kept(j), Progress(j), ~ job[j].staff, NEW x, LogsRow(j, x),
         job[j].pc \in Open, job[j].pc # "commit",
         job'[j].users = job[j].users, job'[j].members = job[j].members,
         job[j].attempts \subseteq job'[j].attempts,
         \A a \in job'[j].attempts \ job[j].attempts : a[2] \in Ids(UsersSeen(j)) \cup raced,
         IF Row(j).email = None THEN x = "error"
         ELSE /\ x \in {"created", "skipped"}
              /\ \E a \in AttemptsSeen(j)' : /\ a[1] = job[j].batch
                                            /\ HasAccount(UsersSeen(j), a[2], Row(j).email)
                                            /\ HasMember(MembersSeen(j), OrgOf[job[j].batch], a[2])
  PROVE  Progress(j)'
<1>1. /\ raced' = raced /\ UsersSeen(j)' = UsersSeen(j) /\ MembersSeen(j)' = MembersSeen(j)
      /\ AttemptsSeen(j) \subseteq AttemptsSeen(j)'
  BY DEF Kept, tables, UsersSeen, MembersSeen, AttemptsSeen
<1>2. /\ job'[j].rows = job[j].rows /\ job'[j].batch = job[j].batch /\ job'[j].staff = job[j].staff
      /\ job'[j].pc \in {"find", "commit"} /\ job'[j].log = Append(job[j].log, x)
  BY DEF LogsRow, SameRequest
<1>3. job[j].log \in Seq(Result) /\ job[j].i \in Nat /\ Len(job[j].log) = job[j].i - 1
  BY DEF TypeOK, Request, RequestsFit, Fits
<1>4. job[j].i = Len(job[j].log) + 1
  BY <1>3
<1>5. /\ Len(job'[j].log) = Len(job[j].log) + 1 /\ job'[j].log[job[j].i] = x
      /\ \A n \in 1 .. Len(job[j].log) : job'[j].log[n] = job[j].log[n]
  BY <1>2, <1>3, <1>4
<1>6. ASSUME NEW n \in 1 .. Len(job'[j].log)
      PROVE  RowDone(job[j].rows, job[j].log, n, job[j].batch, UsersSeen(j), MembersSeen(j), AttemptsSeen(j))'
  <2>1. CASE n \in 1 .. Len(job[j].log)
    <3>1. RowDone(job[j].rows, job[j].log, n, job[j].batch, UsersSeen(j), MembersSeen(j), AttemptsSeen(j))
      BY <2>1 DEF Progress
    <3> QED BY <1>1, <1>2, <1>5, <2>1, <3>1 DEF RowDone, HasAccount, HasMember
  <2>2. CASE n = job[j].i
    <3>1. job'[j].rows[n] = Row(j) /\ job'[j].log[n] = x
      BY <1>2, <1>5, <2>2 DEF Row
    <3>2. CASE Row(j).email = None
      BY <3>1, <3>2 DEF RowDone
    <3>3. CASE Row(j).email # None
      <4>1. PICK a \in AttemptsSeen(j)' : /\ a[1] = job[j].batch
                                          /\ HasAccount(UsersSeen(j), a[2], Row(j).email)
                                          /\ HasMember(MembersSeen(j), OrgOf[job[j].batch], a[2])
        BY <3>3
      <4>2. /\ a[1] = job'[j].batch
            /\ HasAccount(UsersSeen(j), a[2], job[j].rows[n].email)'
            /\ HasMember(MembersSeen(j), OrgOf[job[j].batch], a[2])'
        BY <1>1, <1>2, <3>1, <4>1 DEF HasAccount, HasMember
      <4> QED BY <3>1, <3>3, <4>2 DEF RowDone
    <3> QED BY <3>2, <3>3
  <2> QED BY <1>3, <1>4, <1>5, <2>1, <2>2
<1>7. \A a \in job'[j].attempts : a[2] \in Ids(UsersSeen(j)) \cup raced
  BY DEF Progress
<1> QED BY <1>1, <1>2, <1>6, <1>7 DEF Progress

LEMMA StatementsKeepRoster ==
  ASSUME TypeOK, RequestsFit, RosterInv, NEW j \in Jobs,
         \/ Start(j) \/ SkipBlank(j) \/ FindUser(j) \/ InsertUser(j)
         \/ JoinOrg(j) \/ EnsureAttempt(j) \/ RollBack(j)
  PROVE  RosterInv'
<1> USE DEF RosterInv
<1>0. Progress(j)
  OBVIOUS
<1>c. ASSUME job'[j] = Closed("done") PROVE Progress(j)'
  BY <1>c, ToClosed, NothingDone
<1>1. CASE Start(j)
  <2>1. Kept(j) /\ Progress(j)'
    BY <1>1, StartEffect, NothingDone DEF Begun
  <2> QED BY <2>1, KeptRoster
<1>2. CASE SkipBlank(j)
  <2>1. /\ Kept(j) /\ LogsRow(j, "error") /\ ~ job[j].staff /\ job[j].pc \in Open /\ job[j].pc # "commit"
        /\ Row(j).email = None /\ job'[j].users = job[j].users /\ job'[j].members = job[j].members
        /\ job'[j].attempts = job[j].attempts
    BY <1>2, SkipEffect, LogFits DEF SameWrites, Open
  <2>2. Progress(j)'
    BY <1>0, <2>1, LogKeepsRoster
  <2> QED BY <2>1, <2>2, KeptRoster
<1>3. CASE FindUser(j)
  <2>1. /\ Kept(j) /\ SameRequest(job'[j], job[j]) /\ SameWrites(job'[j], job[j]) /\ job'[j].log = job[j].log
        /\ Row(j)' = Row(j) /\ job'[j].pc \in {"insert", "join"} /\ raced' = raced
        /\ UsersSeen(j)' = UsersSeen(j) /\ MembersSeen(j)' = MembersSeen(j) /\ AttemptsSeen(j)' = AttemptsSeen(j)
    BY <1>3, FindEffect DEF SameWrites, SameRequest, Row, UsersSeen, MembersSeen, AttemptsSeen, Kept, tables
  <2>2. job'[j].pc = "join" => HasAccount(UsersSeen(j), job'[j].id, Row(j).email)
    BY <1>3, FindEffect DEF HasAccount
  <2>3. Progress(j)'
    BY <1>0, <2>1, <2>2 DEF Progress, SameRequest, SameWrites, RowDone, HasAccount, HasMember
  <2> QED BY <2>1, <2>3, KeptRoster
<1>4. CASE InsertUser(j)
  <2>1. Kept(j)
    BY <1>4, InsertEffect
  <2>2. CASE job'[j] = Closed("done")
    BY <1>c, <2>1, <2>2, KeptRoster
  <2>3. CASE job'[j] # Closed("done")
    <3>1. PICK v \in User : /\ job'[j].users = job[j].users \cup {v} /\ v.email = Row(j).email
                            /\ v.id = job'[j].id
      BY <1>4, <2>3, InsertEffect
    <3>2. /\ SameRequest(job'[j], job[j]) /\ job'[j].pc = "join" /\ job'[j].i = job[j].i
          /\ job'[j].log = job[j].log /\ job'[j].members = job[j].members /\ job'[j].attempts = job[j].attempts
      BY <1>4, <2>3, InsertEffect
    <3>3. /\ Row(j)' = Row(j) /\ raced' = raced /\ UsersSeen(j)' = UsersSeen(j) \cup {v}
          /\ MembersSeen(j)' = MembersSeen(j) /\ AttemptsSeen(j)' = AttemptsSeen(j)
      BY <2>1, <3>1, <3>2 DEF Row, SameRequest, UsersSeen, MembersSeen, AttemptsSeen, Kept, tables
    <3>4. HasAccount(UsersSeen(j), job[j].id, Row(j).email)'
      BY <3>1, <3>3 DEF HasAccount
    <3>5. \A id, e : HasAccount(UsersSeen(j), id, e) => HasAccount(UsersSeen(j)', id, e)
      BY <3>3 DEF HasAccount
    <3>6. ASSUME ~ job[j].staff, NEW n \in 1 .. Len(job[j].log)
          PROVE  RowDone(job[j].rows, job[j].log, n, job[j].batch, UsersSeen(j), MembersSeen(j), AttemptsSeen(j))'
      <4>1. RowDone(job[j].rows, job[j].log, n, job[j].batch, UsersSeen(j), MembersSeen(j), AttemptsSeen(j))
        BY <1>0, <3>6 DEF Progress
      <4> QED BY <3>2, <3>3, <3>5, <4>1 DEF RowDone, SameRequest, HasAccount, HasMember
    <3>7. Ids(UsersSeen(j)) \subseteq Ids(UsersSeen(j))'
      BY <3>3 DEF Ids
    <3>8. Progress(j)'
      BY <1>0, <3>2, <3>3, <3>4, <3>6, <3>7 DEF Progress, SameRequest
    <3> QED BY <2>1, <3>8, KeptRoster
  <2> QED BY <2>2, <2>3
<1>5. CASE JoinOrg(j)
  <2>1. Kept(j) /\ job[j].pc = "join"
    BY <1>5, JoinEffect
  <2>2. CASE job'[j] = Closed("done")
    BY <1>c, <2>1, <2>2, KeptRoster
  <2>3. CASE job'[j] # Closed("done")
    <3>1. /\ SameRequest(job'[j], job[j]) /\ job'[j].i = job[j].i /\ job'[j].id = job[j].id
          /\ job'[j].pc = (IF job[j].staff THEN "commit" ELSE "enrol")
          /\ job'[j].log = job[j].log /\ job'[j].users = job[j].users /\ job'[j].attempts = job[j].attempts
          /\ job[j].members \subseteq job'[j].members
          /\ \E m \in members \cup job'[j].members : SameMember(m, job[j].org, job[j].id)
      BY <1>5, <2>3, JoinEffect DEF MembersSeen
    <3>2. /\ Row(j)' = Row(j) /\ raced' = raced /\ UsersSeen(j)' = UsersSeen(j)
          /\ MembersSeen(j) \subseteq MembersSeen(j)' /\ AttemptsSeen(j)' = AttemptsSeen(j)
          /\ MembersSeen(j)' = members \cup job'[j].members
      BY <2>1, <3>1 DEF Row, SameRequest, UsersSeen, MembersSeen, AttemptsSeen, Kept, tables
    <3>3. HasMember(MembersSeen(j), job[j].org, job[j].id)'
      BY <3>1, <3>2 DEF HasMember, SameRequest
    <3>4. ASSUME ~ job[j].staff, NEW n \in 1 .. Len(job[j].log)
          PROVE  RowDone(job[j].rows, job[j].log, n, job[j].batch, UsersSeen(j), MembersSeen(j), AttemptsSeen(j))'
      <4>1. RowDone(job[j].rows, job[j].log, n, job[j].batch, UsersSeen(j), MembersSeen(j), AttemptsSeen(j))
        BY <1>0, <3>4 DEF Progress
      <4>2. \A o, id : HasMember(MembersSeen(j), o, id) => HasMember(MembersSeen(j)', o, id)
        BY <3>2 DEF HasMember
      <4> QED BY <3>1, <3>2, <4>1, <4>2 DEF RowDone, SameRequest, HasAccount, HasMember
    <3>5. ~ job[j].staff => HasAccount(UsersSeen(j), job[j].id, Row(j).email)'
      BY <1>0, <2>1, <3>1, <3>2 DEF Progress, HasAccount
    <3>6. ~ job[j].staff => \A a \in job'[j].attempts : a[2] \in (Ids(UsersSeen(j)) \cup raced)'
      BY <1>0, <3>1, <3>2 DEF Progress, Ids
    <3>7. Progress(j)'
      BY <3>1, <3>3, <3>4, <3>5, <3>6 DEF Progress, SameRequest
    <3> QED BY <2>1, <3>7, KeptRoster
  <2> QED BY <2>2, <2>3
<1>6. CASE EnsureAttempt(j)
  <2> DEFINE a == <<job[j].batch, job[j].id>>
  <2>1. /\ Kept(j) /\ job[j].pc = "enrol" /\ ~ job[j].staff
        /\ job'[j].users = job[j].users /\ job'[j].members = job[j].members
        /\ \/ job'[j].attempts = job[j].attempts /\ a \in AttemptsSeen(j)
           \/ job'[j].attempts = job[j].attempts \cup {a}
    BY <1>6, EnrolEffect
  <2>2. PICK x \in {"created", "skipped"} : LogsRow(j, x)
    BY <1>6, EnrolEffect
  <2>3. /\ job[j].pc \in Open /\ Row(j).email # None /\ job[j].org = OrgOf[job[j].batch]
        /\ a[1] = job[j].batch /\ a[2] = job[j].id
    BY <2>1 DEF RequestsFit, Fits, Open, Row
  <2>4. a \in AttemptsSeen(j)'
    BY <2>1 DEF AttemptsSeen, Kept, tables
  <2> HIDE DEF a
  <2>5. HasAccount(UsersSeen(j), a[2], Row(j).email) /\ HasMember(MembersSeen(j), OrgOf[job[j].batch], a[2])
    BY <1>0, <2>1, <2>3 DEF Progress
  <2>6. a[2] \in Ids(UsersSeen(j)) \cup raced
    BY <2>5 DEF HasAccount, Ids
  <2>7. Progress(j)'
    BY <1>0, <2>1, <2>2, <2>3, <2>4, <2>5, <2>6, LogKeepsRoster
  <2> QED BY <2>1, <2>7, KeptRoster
<1>7. CASE RollBack(j)
  <2>1. Kept(j) /\ job'[j] = Closed("done")
    BY <1>7, AbortEffect DEF RollBack
  <2> QED BY <1>c, <2>1, KeptRoster
<1> QED BY <1>1, <1>2, <1>3, <1>4, <1>5, <1>6, <1>7

(* A promotion changes nobody's membership.                                *)
LEMMA PromoteKeepsMembers ==
  ASSUME NEW r, members \subseteq Member, r.members \subseteq Member
  PROVE  \A m \in members \cup r.members :
           \E k \in Promote(r) : k.id = m.id /\ k.org = m.org /\ k.ext = m.ext
<1> SUFFICES ASSUME NEW m \in members \cup r.members
             PROVE  \E k \in Promote(r) : k.id = m.id /\ k.org = m.org /\ k.ext = m.ext
  OBVIOUS
<1> DEFINE k == IF <<m.org, m.id>> \in r.promoted THEN [m EXCEPT !.role = "org_admin"] ELSE m
<1>1. k.id = m.id /\ k.org = m.org /\ k.ext = m.ext
  BY DEF Member
<1>2. k \in Promote(r)
  BY DEF Promote
<1> HIDE DEF k
<1> QED BY <1>1, <1>2

LEMMA CommitKeepsRoster ==
  ASSUME TypeOK, RequestsFit, RosterInv, NEW j \in Jobs, Commit(j)
  PROVE  RosterInv'
<1> USE DEF RosterInv
<1> DEFINE r == job[j]
           x == [job |-> j, batch |-> r.batch, rows |-> r.rows, log |-> r.log]
<1>1. /\ r.pc = "commit" /\ r.pc \in Open /\ Fits(r) /\ r \in Request
      /\ job'[j] = Closed("done") /\ \A k \in Jobs \ {j} : job'[k] = job[k]
  BY CommitEffect
<1>2. /\ users' = UsersSeen(j) /\ attempts' = AttemptsSeen(j) /\ members' = Promote(r) /\ raced' = raced
      /\ r.members \subseteq Member /\ members \subseteq Member
      /\ users \subseteq users' /\ attempts \subseteq attempts'
  BY <1>1 DEF Commit, UsersSeen, AttemptsSeen, TypeOK, Request
<1>3. \A m \in MembersSeen(j) : \E k \in members' : k.id = m.id /\ k.org = m.org
  <2> HIDE DEF r
  <2> QED BY <1>2, PromoteKeepsMembers DEF MembersSeen, r
<1>4. \A id \in Uids : Survives(id)
  BY <1>2, <1>3 DEF Survives, MembersSeen
<1>5. ASSUME NEW k \in Jobs PROVE Progress(k)'
  <2>1. CASE k = j
    BY <1>1, <2>1, ToClosed, NothingDone
  <2>2. CASE k # j
    BY <1>1, <1>2, <1>4, <2>2, ProgressKept
  <2> QED BY <2>1, <2>2
<1>6. /\ \A m \in imports : \A i \in 1 .. Len(m.rows) :
            RowDone(m.rows, m.log, i, m.batch, users, members, attempts)'
      /\ \A a \in attempts : a[2] \in (Ids(users) \cup raced)'
  BY <1>2, <1>4, TablesKept
<1>7. ASSUME ~ r.staff, NEW i \in 1 .. Len(r.rows)
      PROVE  RowDone(r.rows, r.log, i, r.batch, users', members', attempts')
  <2>1. RowDone(r.rows, r.log, i, r.batch, UsersSeen(j), MembersSeen(j), AttemptsSeen(j))
    BY <1>1, <1>7 DEF Fits, Progress
  <2>2. \A o, id : HasMember(MembersSeen(j), o, id) => HasMember(members', o, id)
    BY <1>3 DEF HasMember, SameMember
  <2> QED BY <1>2, <2>1, <2>2 DEF RowDone
<1>8. \A m \in imports' : m \in imports \/ (m = x /\ ~ r.staff)
  BY DEF Commit
<1>9. WholeImport'
  <2> SUFFICES ASSUME NEW m \in imports', NEW i \in 1 .. Len(m.rows)
               PROVE  RowDone(m.rows, m.log, i, m.batch, users, members, attempts)'
    BY DoneIsWhole
  <2>1. CASE m \in imports
    BY <1>6, <2>1
  <2>2. CASE m = x /\ ~ r.staff
    <3>1. RowDone(r.rows, r.log, i, r.batch, users', members', attempts')
      BY <1>7, <2>2
    <3>2. m.rows = r.rows /\ m.log = r.log /\ m.batch = r.batch
      BY <2>2
    <3> QED BY <1>2, <3>1, <3>2 DEF RowDone, HasAccount, HasMember
  <2> QED BY <1>8, <2>1, <2>2
<1>10. OrphanOnlyByRace'
  <2>1. r.attempts = {} \/ \A a \in r.attempts : a[2] \in Ids(UsersSeen(j)) \cup raced
    BY <1>1 DEF Fits, Progress
  <2> QED BY <1>2, <1>6, <2>1 DEF OrphanOnlyByRace, AttemptsSeen, Ids
<1> QED BY <1>5, <1>9, <1>10

LEMMA AdministrationKeepsRoster ==
  ASSUME TypeOK, RequestsFit, QuestionFits, RosterInv, Administration
  PROVE  RosterInv'
<1> USE DEF RosterInv
<1>1. job' = job /\ imports' \subseteq imports
  BY DEF Administration, SetPassword, LookAtStudent, LookAtBatch, LookAtOrg, Look, ViewRoster, CreateBatch,
         SetBatchStatus, DeleteStudent, DeleteBatch, DeleteOrg, tables
<1>2. attempts' = attempts
  BY DEF Administration, SetPassword, LookAtStudent, LookAtBatch, LookAtOrg, Look, ViewRoster, CreateBatch,
         SetBatchStatus, DeleteStudent, DeleteBatch, DeleteOrg, tables, Restrict
<1>3. ASSUME NEW id \in Uids, Referenced(id) PROVE Survives(id)
  <2>1. ASSUME NEW u \in users, SetPassword(u) PROVE Survives(id)
    <3>1. ClearTemp(u).id = u.id /\ ClearTemp(u).email = u.email
      BY DEF ClearTemp, TypeOK, User
    <3>2. users' = (users \ {u}) \cup {ClearTemp(u)} /\ UNCHANGED <<members, raced>>
      BY <2>1 DEF SetPassword
    <3> QED BY <3>1, <3>2 DEF Survives
  <2>2. ASSUME DeleteStudent PROVE Survives(id)
    <3>1. /\ users' = {u \in users : u.id # deletion.target}
          /\ members' = {m \in members : m.id # deletion.target}
          /\ raced' = IF AttemptsOf(deletion.target) \ deletion.seen # {} \/ Enrolling(deletion.target)
                      THEN raced \cup {deletion.target} ELSE raced
      BY <2>2 DEF DeleteStudent
    <3>2. deletion.target = id => raced' = raced \cup {id}
      BY <1>3, <3>1 DEF Referenced, QuestionFits
    <3> QED BY <3>1, <3>2 DEF Survives
  <2>3. ASSUME UNCHANGED <<users, members, raced>> PROVE Survives(id)
    BY <2>3 DEF Survives
  <2>4. \/ \E u \in users : SetPassword(u)
        \/ DeleteStudent
        \/ UNCHANGED <<users, members, raced>>
    BY DEF Administration, LookAtStudent, LookAtBatch, LookAtOrg, Look, ViewRoster, CreateBatch,
           SetBatchStatus, DeleteBatch, DeleteOrg, tables
  <2> QED BY <2>1, <2>2, <2>3, <2>4
<1>4. ASSUME NEW j \in Jobs PROVE Progress(j)'
  BY <1>1, <1>2, <1>3, ProgressKept
<1>5. /\ \A m \in imports : \A i \in 1 .. Len(m.rows) :
            RowDone(m.rows, m.log, i, m.batch, users, members, attempts)'
      /\ \A a \in attempts : a[2] \in (Ids(users) \cup raced)'
  BY <1>2, <1>3, TablesKept
<1>6. WholeImport' /\ OrphanOnlyByRace'
  BY <1>1, <1>2, <1>5, DoneIsWhole DEF OrphanOnlyByRace
<1> QED BY <1>4, <1>6

(* What an import has gone through stays on the roster, and every attempt  *)
(* keeps its account, unless deleteStudentAction deleted an account that   *)
(* an import had enrolled, or was enrolling, since the count: the inductive *)
(* invariant behind the two theorems below.                                *)
THEOREM Rosters == Spec => []RosterInv
<1>1. Init => RosterInv
  <2> SUFFICES ASSUME Init PROVE RosterInv
    OBVIOUS
  <2>1. Fresh.attempts = {} /\ Fresh.log = <<>> /\ Fresh.pc = "fresh"
    BY ToClosed DEF Fresh
  <2> QED BY <2>1 DEF Init, RosterInv, Progress, WholeImport, OrphanOnlyByRace
<1>2. TypeOK /\ RequestsFit /\ QuestionFits /\ RosterInv /\ [Next]_vars => RosterInv'
  <2> SUFFICES ASSUME TypeOK, RequestsFit, QuestionFits, RosterInv, [Next]_vars PROVE RosterInv'
    OBVIOUS
  <2>1. CASE UNCHANGED vars
    <3>1. \A id \in Uids : Survives(id)
      BY <2>1 DEF vars, tables, Survives
    <3>2. \A j \in Jobs : Progress(j)'
      BY <2>1, <3>1, ProgressKept DEF RosterInv, vars, tables
    <3> QED BY <2>1, <3>2 DEF RosterInv, vars, tables, WholeImport, OrphanOnlyByRace, AttemptsIn
  <2> QED BY <2>1, StatementsKeepRoster, CommitKeepsRoster, AdministrationKeepsRoster DEF Next, Transaction
<1> QED BY <1>1, <1>2, TypeSafety, PTL DEF Spec

(* For any number of imports and invitations that interleave statement by  *)
(* statement, fail, wait and die: an import that went through has put      *)
(* every row with a name and an e-mail on the roster.                      *)
(* (batchService importRoster, users.ts, migrations 0002 and 0003)         *)
THEOREM ImportsAreWhole == Spec => []WholeImport
BY Rosters, PTL DEF RosterInv

(* Only a student deleted between the count and the DELETE of              *)
(* deleteStudentAction leaves an attempt without an account.               *)
THEOREM OrphansAreRaced == Spec => []OrphanOnlyByRace
BY Rosters, PTL DEF RosterInv

(* No deletion takes an attempt away, a membership without its account, or *)
(* the result of an import whose batch has attempts, whatever was enrolled *)
(* since the administrator was asked.  (deleteBatch, deleteOrg, deleteUser) *)
THEOREM HistoryStays == Spec => HistoryIsKept
<1>1. TypeOK /\ [Next]_vars =>
        [ /\ attempts \subseteq attempts'
          /\ \A m \in members : m.id \in Ids(users') =>
               \E k \in members' : SameMember(k, m.org, m.id) /\ k.ext = m.ext
          /\ \A m \in imports : m \in imports' \/ AttemptsIn(m.batch) = {} ]_vars
  <2> SUFFICES ASSUME TypeOK, Next
               PROVE  /\ attempts \subseteq attempts'
                      /\ \A m \in members : m.id \in Ids(users') =>
                           \E k \in members' : SameMember(k, m.org, m.id) /\ k.ext = m.ext
                      /\ \A m \in imports : m \in imports' \/ AttemptsIn(m.batch) = {}
    OBVIOUS
  <2>1. ASSUME NEW j \in Jobs, Commit(j)
        PROVE  /\ attempts \subseteq attempts' /\ imports \subseteq imports'
               /\ \A m \in members : \E k \in members' : SameMember(k, m.org, m.id) /\ k.ext = m.ext
    <3> DEFINE r == job[j]
    <3>1. /\ attempts' = attempts \cup r.attempts /\ imports \subseteq imports' /\ members' = Promote(r)
          /\ members \subseteq Member /\ r.members \subseteq Member
      BY <2>1 DEF Commit, TypeOK, Request
    <3> HIDE DEF r
    <3> QED BY <3>1, PromoteKeepsMembers DEF SameMember
  <2>2. CASE UNCHANGED <<members, attempts, imports>>
    BY <2>2 DEF SameMember
  <2>3. CASE DeleteStudent
    BY <2>3 DEF DeleteStudent, Ids, SameMember
  <2>4. CASE DeleteBatch
    <3> DEFINE b == deletion.target
    <3>1. /\ members' = members
          /\ IF AttemptsIn(b) = {}
             THEN imports' = {m \in imports : m.batch # b} /\ attempts' = attempts \ AttemptsIn(b)
             ELSE imports' = imports /\ attempts' = attempts
      BY <2>4 DEF DeleteBatch, Restrict
    <3> HIDE DEF b
    <3> QED BY <3>1 DEF SameMember
  <2>5. \/ \E j \in Jobs : Commit(j)
        \/ UNCHANGED <<members, attempts, imports>>
        \/ DeleteStudent \/ DeleteBatch
    BY DEF Next, Start, Transaction, Administration, ImportRoster, AddStudent, BeginImport, IssueOrgAdmin,
           SkipBlank, FindUser, InsertUser, JoinOrg, EnsureAttempt, RollBack, SetPassword, LookAtStudent,
           LookAtBatch, LookAtOrg, Look, ViewRoster, CreateBatch, SetBatchStatus, DeleteOrg, tables
  <2> QED BY <2>1, <2>2, <2>3, <2>4, <2>5
<1> QED BY <1>1, TypeSafety, PTL DEF Spec, HistoryIsKept
===============================================================================
