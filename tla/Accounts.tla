------------------------------- MODULE Accounts -------------------------------
(***************************************************************************)
(* Accounts, memberships and the rosters of batches: the imports and staff *)
(* invitations that create them, each one transaction of several           *)
(* statements, and the requests that remove them, which look first and     *)
(* delete later.                                                           *)
(*                                                                         *)
(* Transactions run at READ COMMITTED: a statement sees what is committed  *)
(* when it starts and what its own transaction wrote.  An INSERT whose     *)
(* unique key another transaction has written waits for that transaction;  *)
(* a violation aborts the whole transaction, whatever the code catches.    *)
(***************************************************************************)
EXTENDS Naturals, Sequences, FiniteSets

CONSTANTS
  Jobs,      \* requests that import a roster or invite staff; each runs once
  Uids,      \* values of auth.users.id
  Emails,
  ExtIds,    \* student numbers
  Orgs,
  Batches,
  OrgOf,     \* the organization a batch is created for
  Sheets,    \* what an administrator may paste (no header) or send as .xlsx
  None

ASSUME OrgOfAssumption == OrgOf \in [Batches -> Orgs]

(* A cell is an e-mail, a number, some other text, or empty.  Nobody looks *)
(* whether the text in the e-mail column is one.                           *)
Text == "text"
Written == Emails \cup ExtIds \cup {Text}
Cell == Written \cup {None}
Key == {"name", "email", "externalId"}
Sheet == [header : Seq(Key \cup {Text}), rows : Seq(Seq(Cell))]

ASSUME SheetsAssumption == \A s \in Sheets : s \in Sheet /\ s.rows # <<>>

VARIABLES
  users,      \* rows of auth.users
  members,    \* rows of auth.org_members
  attempts,   \* rows of exam.attempts: <<batch, id of the examinee>>
  status,     \* status of each batch, None when there is no such row
  orgs,       \* ids of the rows of auth.organizations
  imports,    \* committed rows of ops.roster_imports with their result rows
  job,        \* the requests: the transaction each has open
  deletion,   \* the deletion an administrator has under way
  shown,      \* temporary passwords some administrator has been shown
  raced       \* accounts deleted while an import was enrolling them

tables == <<users, members, attempts, status, orgs, imports>>
vars == <<tables, job, deletion, shown, raced>>

(* The password of an account: the temporary one made for row i of job j,  *)
(* or one its owner has chosen.                                            *)
Chosen == <<None, 0>>
Password == (Jobs \X Nat) \cup {Chosen}
User == [id : Uids, email : Written, hash : Password, temp : Password \cup {None}]
Member == [org : Orgs, id : Uids, role : {"examinee", "org_admin"}, ext : Cell]

ASSUME NoneAssumption ==
  /\ None \notin Written \cup Orgs \cup Batches \cup Uids \cup Jobs
  /\ None \notin Password

BatchStatus == {"scheduled", "open", "closed", "cancelled"}

(* What an open transaction has written, what it goes through, row i, and  *)
(* the account it has found or made for that row.                          *)
Open == {"find", "insert", "join", "enrol", "commit"}
Unwritten(pc, staff, batch, org, rows, i) ==
  [pc |-> pc, staff |-> staff, batch |-> batch, org |-> org, rows |-> rows, i |-> i,
   id |-> None, created |-> FALSE, users |-> {}, members |-> {}, promoted |-> {},
   attempts |-> {}, log |-> <<>>, issued |-> {}]
Closed(pc) == Unwritten(pc, FALSE, None, None, <<>>, 0)
Fresh == Closed("fresh")

(* The question an administrator has been asked before a deletion.         *)
Idle == [kind |-> "idle", target |-> None, seen |-> {}]
Deletion == {"idle", "user", "batch", "org"}

(* A temporary password on the screen, with the e-mail it is for.          *)
ShownPassword == Written \X Password

RosterRow == [email : Cell, ext : Cell]
Result == {"created", "skipped", "error"}
Import == [job : Jobs, batch : Batches, rows : Seq(RosterRow), log : Seq(Result)]
Request ==
  [pc : Open \cup {"fresh", "done"}, staff : BOOLEAN, batch : Batches \cup {None},
   org : Orgs \cup {None}, rows : Seq(RosterRow), i : Nat, id : Uids \cup {None},
   created : BOOLEAN, users : SUBSET User, members : SUBSET Member,
   promoted : SUBSET (Orgs \X Uids), attempts : SUBSET (Batches \X Uids),
   log : Seq(Result), issued : SUBSET ShownPassword]

TypeOK ==
  /\ users \subseteq User
  /\ members \subseteq Member
  /\ attempts \subseteq Batches \X Uids
  /\ status \in [Batches -> BatchStatus \cup {None}]
  /\ orgs \subseteq Orgs
  /\ imports \subseteq Import
  /\ \A m \in imports : Len(m.log) = Len(m.rows)
  /\ job \in [Jobs -> Request]
  /\ \A j \in Jobs : job[j].pc \in Open => job[j].i \in 1 .. Len(job[j].rows)
  /\ deletion.kind \in Deletion
  /\ shown \subseteq ShownPassword
  /\ raced \subseteq Uids

Init ==
  /\ users = {} /\ members = {} /\ attempts = {} /\ imports = {}
  /\ status = [b \in Batches |-> "scheduled"]
  /\ orgs = Orgs
  /\ job = [j \in Jobs |-> Fresh]
  /\ deletion = Idle /\ shown = {} /\ raced = {}

-----------------------------------------------------------------------------
(* Statements of an open transaction                                       *)

Row(j) == job[j].rows[job[j].i]
TempPassword(j) == <<j, job[j].i>>

(* A statement sees the committed rows and those of its own transaction.   *)
UsersSeen(j) == users \cup job[j].users
MembersSeen(j) == members \cup job[j].members
AttemptsSeen(j) == attempts \cup job[j].attempts
Others(j) == Jobs \ {j}

(* importRosterAction: name, e-mail and number in this order.              *)
RowOf(name, email, ext) == [email |-> IF name = None THEN None ELSE email, ext |-> ext]
CellOf(cells, n) == IF n \in DOMAIN cells THEN cells[n] ELSE None
CsvRows(s) == [n \in DOMAIN s.rows |->
                 LET c == s.rows[n] IN RowOf(CellOf(c, 1), CellOf(c, 2), CellOf(c, 3))]

(* parseRosterXlsx: the first column whose header is an alias of the key;  *)
(* empty and incomplete rows are left out, and without a name and an       *)
(* e-mail column there are no rows.                                        *)
Column(s, key) == LET cols == {c \in DOMAIN s.header : s.header[c] = key}
                  IN  IF cols = {} THEN 0 ELSE CHOOSE c \in cols : \A d \in cols : c <= d
XlsxRows(s) ==
  LET cell(c, key) == CellOf(c, Column(s, key))
      complete(c) == cell(c, "name") # None /\ cell(c, "email") # None
      kept == SelectSeq(s.rows, complete)
  IN  IF Column(s, "name") = 0 \/ Column(s, "email") = 0 THEN <<>>
      ELSE [n \in DOMAIN kept |->
              RowOf(Text, cell(kept[n], "email"), cell(kept[n], "externalId"))]

(* A row as importRoster gets it; one without name has lost its e-mail.    *)
RowsOf(s) == IF s.header = <<>> THEN CsvRows(s) ELSE XlsxRows(s)

ASSUME RowsAssumption == \A s \in Sheets : RowsOf(s) \in Seq(RosterRow)

Ids(rows) == {r.id : r \in rows}
Step(j, r) == job' = [job EXCEPT ![j] = r]

(* Mutant: the loop runs one row too far.                                  *)
NextRowPastEnd(r) == IF r.i > Len(r.rows) THEN [r EXCEPT !.pc = "commit"]
                                          ELSE [r EXCEPT !.pc = "find", !.i = @ + 1]

(* The loop goes on with the next row, or finishes the import.             *)
NextRow(r) == IF r.i = Len(r.rows) THEN [r EXCEPT !.pc = "commit"]
                                   ELSE [r EXCEPT !.pc = "find", !.i = @ + 1]
Logged(r, result) == NextRow([r EXCEPT !.log = Append(@, result)])

(* Mutant: what the catch inside the loop looks as if it did.              *)
RowRecorded(j) == Logged(job[j], "error")

(* ROLLBACK, and the error goes to the administrator: nothing is left.     *)
Aborted(j) == Closed("done")

-----------------------------------------------------------------------------
(* importRoster and issueOrgAdmin                                          *)

BeginImport(j, b, rows) ==
  /\ job[j] = Fresh
  /\ status[b] # None
  /\ Step(j, Unwritten("find", FALSE, b, OrgOf[b], rows, 1))
  /\ UNCHANGED <<tables, deletion, shown, raced>>

ImportRoster(j, b, sheet) == RowsOf(sheet) # <<>> /\ BeginImport(j, b, RowsOf(sheet))

(* The form for one student: an account picked from the list fills in what *)
(* could be typed as well; the name must not be empty.                     *)
Entry == {RowOf(Text, e, x) : e \in Emails, x \in ExtIds \cup {None}}
AddStudent(j, b, entry) == BeginImport(j, b, <<entry>>)

IssueOrgAdmin(j, o, e) ==
  /\ job[j] = Fresh
  /\ o \in orgs
  /\ Step(j, Unwritten("find", TRUE, None, o, <<[email |-> e, ext |-> None]>>, 1))
  /\ UNCHANGED <<tables, deletion, shown, raced>>

SkipBlank(j) ==
  /\ job[j].pc = "find"
  /\ Row(j).email = None
  /\ Step(j, Logged(job[j], "error"))
  /\ UNCHANGED <<tables, deletion, shown, raced>>

(* upsertByEmailTx: the SELECT.                                            *)
FindUser(j) ==
  /\ job[j].pc = "find"
  /\ Row(j).email # None
  /\ LET found == {u \in UsersSeen(j) : u.email = Row(j).email}
     IN  IF found = {}
         THEN Step(j, [job[j] EXCEPT !.pc = "insert"])
         ELSE \E u \in found :
                Step(j, [job[j] EXCEPT !.pc = "join", !.id = u.id, !.created = FALSE])
  /\ UNCHANGED <<tables, deletion, shown, raced>>

(* The plaintext is kept for an account of a roster only.                  *)
KeptPlain(j) == IF job[j].staff THEN None ELSE TempPassword(j)

(* upsertByEmailTx: the INSERT.                                            *)
InsertUser(j) ==
  /\ job[j].pc = "insert"
  /\ \A k \in Others(j) : \A u \in job[k].users : u.email # Row(j).email
  /\ IF \E u \in users : u.email = Row(j).email
     THEN Step(j, Aborted(j))
     ELSE \E id \in Uids \ (Ids(users) \cup {a[2] : a \in attempts}
                             \cup UNION {Ids(job[k].users) : k \in Jobs}) :
            Step(j, [job[j] EXCEPT
              !.pc = "join", !.id = id, !.created = TRUE,
              !.users = @ \cup {[id |-> id, email |-> Row(j).email,
                                 hash |-> TempPassword(j), temp |-> KeptPlain(j)]}])
  /\ UNCHANGED <<tables, deletion, shown, raced>>

SameMember(m, o, id) == m.org = o /\ m.id = id
SameNumber(m, o, ext) == m.org = o /\ m.ext = ext /\ ext # None

(* addExamineeMembershipTx and addOrgAdminMembershipTx: the primary key is *)
(* the one the ON CONFLICT names, the student number is not.               *)
JoinOrg(j) ==
  LET r == job[j]
      ext == Row(j).ext
      joined == IF r.staff THEN [r EXCEPT !.pc = "commit"] ELSE [r EXCEPT !.pc = "enrol"]
  IN  /\ r.pc = "join"
      /\ \A k \in Others(j) : \A m \in job[k].members : ~ SameMember(m, r.org, r.id)
      /\ IF \E m \in MembersSeen(j) : SameMember(m, r.org, r.id)
         THEN Step(j, IF r.staff
                      THEN [joined EXCEPT !.promoted = @ \cup {<<r.org, r.id>>}]
                      ELSE joined)
         ELSE /\ \A k \in Others(j) : \A m \in job[k].members : ~ SameNumber(m, r.org, ext)
              /\ IF \/ \E m \in MembersSeen(j) : SameNumber(m, r.org, ext)
                    \/ r.id \notin Ids(UsersSeen(j))
                    \/ r.org \notin orgs
                 THEN Step(j, Aborted(j))
                 ELSE Step(j, [joined EXCEPT !.members = @ \cup
                        {[org |-> r.org, id |-> r.id, ext |-> ext,
                          role |-> IF r.staff THEN "org_admin" ELSE "examinee"]}])
      /\ UNCHANGED <<tables, deletion, shown, raced>>

(* Temporary passwords that go back to the administrator.                  *)
Issue(j) == job[j].issued \cup {<<Row(j).email, TempPassword(j)>>}
IssuedIfCreated(j) == IF job[j].created THEN Issue(j) ELSE job[j].issued

(* ensureAttemptTx, and the row of the result.                             *)
EnsureAttempt(j) ==
  LET a == <<job[j].batch, job[j].id>>
      r == [job[j] EXCEPT !.issued = IssuedIfCreated(j)]
  IN  /\ job[j].pc = "enrol"
      /\ \A k \in Others(j) : a \notin job[k].attempts
      /\ Step(j, IF a \in AttemptsSeen(j)
                 THEN Logged(r, "skipped")
                 ELSE Logged([r EXCEPT !.attempts = @ \cup {a}], "created"))
      /\ UNCHANGED <<tables, deletion, shown, raced>>

(* What the reply shows: an invitation only the password of a new account. *)
Issued(j) == IF ~ job[j].staff THEN job[j].issued
             ELSE IF job[j].created THEN {<<job[j].rows[1].email, TempPassword(j)>>} ELSE {}

(* COMMIT; the reply with the passwords may never arrive.                  *)
Promote(r) == {IF <<m.org, m.id>> \in r.promoted THEN [m EXCEPT !.role = "org_admin"] ELSE m
                 : m \in members \cup r.members}

Commit(j) ==
  LET r == job[j]
  IN  /\ r.pc = "commit"
      /\ users' = users \cup r.users
      /\ members' = Promote(r)
      /\ attempts' = attempts \cup r.attempts
      /\ imports' = IF r.staff THEN imports
                    ELSE imports \cup {[job |-> j, batch |-> r.batch,
                                        rows |-> r.rows, log |-> r.log]}
      /\ Step(j, Closed("done"))
      /\ \/ shown' = shown \cup Issued(j)
         \/ shown' = shown
      /\ UNCHANGED <<status, orgs, deletion, raced>>

(* The process or its connection dies, or PostgreSQL chooses the           *)
(* transaction to break a deadlock.                                        *)
RollBack(j) ==
  /\ job[j].pc \in Open
  /\ Step(j, Aborted(j))
  /\ UNCHANGED <<tables, deletion, shown, raced>>

-----------------------------------------------------------------------------
(* The owner of an account, and the administrator's other requests         *)

(* Mutant: the plaintext is not cleared.                                   *)
KeepTemp(u) == [u EXCEPT !.hash = Chosen]

ClearTemp(u) == [u EXCEPT !.hash = Chosen, !.temp = None]

SetPassword(u) ==
  /\ users' = (users \ {u}) \cup {ClearTemp(u)}
  /\ UNCHANGED <<members, attempts, status, orgs, imports, job, deletion, shown, raced>>

(* The roster page shows the passwords its accounts keep, for copying.     *)
ViewRoster(b) ==
  /\ shown' = shown \cup {<<u.email, u.temp>> :
                 u \in {v \in users : v.temp # None /\ <<b, v.id>> \in attempts}}
  /\ UNCHANGED <<tables, job, deletion, raced>>

CreateBatch(b) ==
  /\ status[b] = None
  /\ OrgOf[b] \in orgs
  /\ status' = [status EXCEPT ![b] = "scheduled"]
  /\ UNCHANGED <<users, members, attempts, orgs, imports, job, deletion, shown, raced>>

SetBatchStatus(b, s) ==
  /\ status[b] \notin {None, s}
  /\ status' = [status EXCEPT ![b] = s]
  /\ UNCHANGED <<users, members, attempts, orgs, imports, job, deletion, shown, raced>>

AttemptsOf(id) == {a \in attempts : a[2] = id}
AttemptsIn(b) == {a \in attempts : a[1] = b}

(* Each deletion first counts what it would orphan ...                     *)
Look(kind, x, seen) ==
  /\ deletion = Idle
  /\ deletion' = [kind |-> kind, target |-> x, seen |-> seen]
  /\ UNCHANGED <<tables, job, shown, raced>>

(* Mutant: the attempts are not counted.                                   *)
LookAtStudentUncounted(id) == Look("user", id, AttemptsOf(id))

LookAtStudent(id) == AttemptsOf(id) = {} /\ Look("user", id, {})
LookAtBatch(b) == status[b] = "scheduled" /\ AttemptsIn(b) = {} /\ Look("batch", b, {})
LookAtOrg(o) ==
  /\ \A m \in members : m.org # o
  /\ \A b \in Batches : OrgOf[b] = o => status[b] = None
  /\ Look("org", o, {})

(* ... and deletes later.  The DELETE waits for transactions that hold a   *)
(* key lock on the row: those whose inserted rows refer to it.             *)
InUse(id) == \E j \in Jobs : id \in Ids(job[j].members) \cup {p[2] : p \in job[j].promoted}
Enrolling(id) == \E j \in Jobs : job[j].pc \in Open /\ ~ job[j].staff
                                 /\ (job[j].id = id \/ \E a \in job[j].attempts : a[2] = id)

(* attempts.examinee_id is no foreign key: nothing stops this DELETE.      *)
DeleteStudent ==
  LET id == deletion.target
  IN  /\ deletion.kind = "user"
      /\ ~ InUse(id)
      /\ users' = {u \in users : u.id # id}
      /\ members' = {m \in members : m.id # id}
      /\ shown' = {s \in shown : \A u \in users : u.id = id => s[1] # u.email}
      /\ raced' = IF AttemptsOf(id) \ deletion.seen # {} \/ Enrolling(id)
                  THEN raced \cup {id} ELSE raced
      /\ deletion' = Idle
      /\ UNCHANGED <<attempts, status, orgs, imports, job>>

(* Mutant: both references to a batch are ON DELETE CASCADE.               *)
Cascade(b) == b \in Batches

(* attempts.batch_id is RESTRICT, roster_imports.batch_id CASCADE.         *)
Restrict(b) == AttemptsIn(b) = {}

DeleteBatch ==
  LET b == deletion.target
  IN  /\ deletion.kind = "batch"
      /\ \A j \in Jobs : job[j].pc \in Open => job[j].batch # b
      /\ IF Restrict(b)
         THEN /\ status' = [status EXCEPT ![b] = None]
              /\ imports' = {m \in imports : m.batch # b}
              /\ attempts' = attempts \ AttemptsIn(b)
         ELSE UNCHANGED <<status, imports, attempts>>
      /\ deletion' = Idle
      /\ UNCHANGED <<users, members, orgs, job, shown, raced>>

DeleteOrg ==
  LET o == deletion.target
  IN  /\ deletion.kind = "org"
      /\ \A j \in Jobs : \A m \in job[j].members : m.org # o
      /\ IF \/ \E m \in members : m.org = o
            \/ \E b \in Batches : OrgOf[b] = o /\ status[b] # None
         THEN orgs' = orgs
         ELSE orgs' = orgs \ {o}
      /\ deletion' = Idle
      /\ UNCHANGED <<users, members, attempts, status, imports, job, shown, raced>>

-----------------------------------------------------------------------------
Start(j) ==
  \/ \E b \in Batches, s \in Sheets : ImportRoster(j, b, s)
  \/ \E b \in Batches, r \in Entry : AddStudent(j, b, r)
  \/ \E o \in Orgs, e \in Emails : IssueOrgAdmin(j, o, e)

Transaction(j) ==
  \/ SkipBlank(j) \/ FindUser(j) \/ InsertUser(j) \/ JoinOrg(j)
  \/ EnsureAttempt(j) \/ Commit(j) \/ RollBack(j)

Administration ==
  \/ \E u \in users : SetPassword(u) \/ LookAtStudent(u.id)
  \/ \E b \in Batches : \/ CreateBatch(b) \/ LookAtBatch(b) \/ ViewRoster(b)
                        \/ \E s \in BatchStatus : SetBatchStatus(b, s)
  \/ \E o \in orgs : LookAtOrg(o)
  \/ DeleteStudent \/ DeleteBatch \/ DeleteOrg

Next == (\E j \in Jobs : Start(j) \/ Transaction(j)) \/ Administration

Spec == Init /\ [][Next]_vars

-----------------------------------------------------------------------------
(* Every row of an import that went through is on the roster: its account  *)
(* is a member of the batch's organization and has an attempt.  Only rows  *)
(* without name or e-mail are recorded as errors.                          *)
(* (batchService importRoster)                                             *)
WholeImport ==
  \A m \in imports : \A i \in 1 .. Len(m.rows) :
    LET email == m.rows[i].email
    IN  IF email = None THEN m.log[i] = "error"
        ELSE /\ m.log[i] \in {"created", "skipped"}
             /\ \E a \in AttemptsIn(m.batch) :
                  \/ a[2] \in raced
                  \/ /\ \E u \in users : u.id = a[2] /\ u.email = email
                     /\ \E k \in members : SameMember(k, OrgOf[m.batch], a[2])

(* A password somebody was shown opens the account until its owner chooses *)
(* another; the plaintext a roster account keeps is the password it has,   *)
(* and an account on a roster nobody has logged in to can be let in even   *)
(* when the reply of the import was lost.                                  *)
(* (batchService importRoster, users.ts upsertByEmailTx and setPassword)   *)
KnownPassword ==
  \A u \in users :
    /\ \A s \in shown : s[1] = u.email => u.hash \in {s[2], Chosen}
    /\ u.temp \in {None, u.hash}
    /\ u.hash # Chosen /\ u.temp = None => \A m \in imports : m.job # u.hash[1]

(* An attempt has an account, unless an import was enrolling that account  *)
(* between the count and the DELETE of deleteStudentAction.                *)
OrphanOnlyByRace == \A a \in attempts : a[2] \in Ids(users) \cup raced

(* Whatever administrators delete, no attempt disappears, no membership    *)
(* goes without its account, and a result of an import only with a batch   *)
(* nobody is enrolled in.  (batchService deleteBatch, orgs, students)      *)
HistoryIsKept ==
  [][ /\ attempts \subseteq attempts'
      /\ \A m \in members : m.id \in Ids(users') =>
           \E k \in members' : SameMember(k, m.org, m.id) /\ k.ext = m.ext
      /\ \A m \in imports : m \in imports' \/ AttemptsIn(m.batch) = {} ]_vars
=============================================================================
