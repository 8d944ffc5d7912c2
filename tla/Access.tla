--------------------------------- MODULE Access ---------------------------------
(***************************************************************************)
(* Sessions.  A session is a signed cookie: a copy of what the database    *)
(* said about its holder at the login, which no later request compares     *)
(* with the database.  What a page shows is computed from the cookie the   *)
(* request brings and from the rows of that moment; requests of one        *)
(* browser run side by side and the cookie is set by whichever reply       *)
(* arrives last.                                                           *)
(***************************************************************************)
EXTENDS Naturals, FiniteSets

CONSTANTS
  Browsers,
  Requests,   \* logins and password changes in flight at the same time
  Users,
  Admins,     \* rows of auth.user_roles: nothing but the seed writes them
  Orgs,
  MaxAge,     \* the eight hours a cookie lives
  MaxRenewals,
  MaxChanges, \* changes of the database by administrators
  None

ASSUME NoneAssumption == None \notin {"examinee", "org_admin"}
ASSUME AdminsAssumption == Admins \subseteq Users
ASSUME MaxAgeAssumption == MaxAge \in Nat \ {0} /\ MaxRenewals \in Nat
ASSUME MaxChangesAssumption == MaxChanges \in Nat

VARIABLES
  account,   \* "active", "inactive" or "deleted"
  chosen,    \* users who replaced their temporary password
  role,      \* auth.org_members: role[o][u], None when there is no such row
  orgs,      \* active organizations
  attempts,  \* exam.attempts: <<organization of the batch, examinee>>
  cookie,    \* the session of each browser
  req,       \* requests in flight
  changes,   \* how many changes administrators made
  granted,   \* history: every <<o, u>> that was an org_admin membership
  holder     \* history: who logged in last in each browser, and is not disturbed

database == <<account, chosen, role, orgs, attempts, granted, changes>>
vars == <<database, cookie, req, holder>>

OrgRole == {"examinee", "org_admin"}
Account == {"active", "inactive", "deleted"}

(* A session; age, read and renewed are the hours since the cookie was set *)
(* and since the login, and how often it was set again in between.         *)
Session == [user : Users, admin : BOOLEAN, orgs : SUBSET (Orgs \X OrgRole),
            must : BOOLEAN, age : 0 .. MaxAge - 1, read : Nat, renewed : 0 .. MaxRenewals]

Idle == [pc |-> "idle"]

TypeOK ==
  /\ account \in [Users -> Account]
  /\ chosen \subseteq Users
  /\ role \in [Orgs -> [Users -> OrgRole \cup {None}]]
  /\ orgs \subseteq Orgs
  /\ attempts \subseteq Orgs \X Users
  /\ changes \in 0 .. MaxChanges
  /\ \A b \in Browsers : cookie[b] = None \/ cookie[b] \in Session
  /\ \A r \in Requests : /\ req[r].pc \in {"idle", "roles", "reply", "verify", "write", "reissue"}
                         /\ req[r] # Idle => req[r].session \in Session
  /\ \A o \in Orgs, u \in Users : role[o][u] = "org_admin" => <<o, u>> \in granted
  /\ \A b \in Browsers : holder[b] \in Users \cup {None, "disturbed"}

Init ==
  /\ account = [u \in Users |-> "active"]
  /\ chosen = {}
  /\ orgs = Orgs
  /\ \E students \in SUBSET Users :   \* already imported for every organization
       /\ role = [o \in Orgs |-> [u \in Users |-> IF u \in students THEN "examinee" ELSE None]]
       /\ attempts = Orgs \X students
  /\ cookie = [b \in Browsers |-> None]
  /\ req = [r \in Requests |-> Idle]
  /\ granted = {}
  /\ changes = 0
  /\ holder = [b \in Browsers |-> None]

-----------------------------------------------------------------------------
(* Login                                                                   *)

InFlight(b) == {r \in Requests : req[r] # Idle /\ req[r].browser = b}
Changing(b) == {r \in InFlight(b) : req[r].pc \in {"verify", "write", "reissue"}}

(* findCredentialByEmail and findCredentialById.                           *)
Credential(u) == account[u] # "deleted"

(* The credentials are read and the password is right.                     *)
LoginCheck(r, b, u) ==
  /\ req[r] = Idle
  /\ Credential(u) /\ account[u] = "active"
  /\ req' = [req EXCEPT ![r] =
       [pc |-> "roles", browser |-> b,
        session |-> [user |-> u, admin |-> FALSE, orgs |-> {}, must |-> u \notin chosen,
                     age |-> 0, read |-> 0, renewed |-> 0]]]
  /\ UNCHANGED <<database, cookie, holder>>

(* listOrgMemberships: organizations still active only.                    *)
EveryMembership(u) == {<<o, role[o][u]>> : o \in {p \in Orgs : role[p][u] # None}}
Memberships(u) == {m \in EveryMembership(u) : m[1] \in orgs}

LoginRoles(r) ==
  /\ req[r].pc = "roles"
  /\ LET u == req[r].session.user
     IN  req' = [req EXCEPT ![r].pc = "reply",
                            ![r].session.admin = u \in Admins /\ account[u] # "deleted",
                            ![r].session.orgs = Memberships(u)]
  /\ UNCHANGED <<database, cookie, holder>>

(* Replies that set a cookie while a password change of the browser is     *)
(* under way, whose own reply may set it again.                            *)
Holding(b, who) ==
  holder' = [holder EXCEPT ![b] = IF Changing(b) = {} THEN who ELSE "disturbed"]

LoginReply(r) ==
  LET b == req[r].browser
  IN  /\ req[r].pc = "reply"
      /\ cookie' = [cookie EXCEPT ![b] = req[r].session]
      /\ Holding(b, req[r].session.user)
      /\ req' = [req EXCEPT ![r] = Idle]
      /\ UNCHANGED database

(* The connection or the process goes away before the reply.               *)
ReplyLost(r) ==
  /\ req[r] # Idle
  /\ req' = [req EXCEPT ![r] = Idle]
  /\ UNCHANGED <<database, cookie, holder>>

(* Mutant: the cookie of a logout is not cleared.                          *)
KeepCookie(b) == cookie

DropCookie(b) == [cookie EXCEPT ![b] = None]

Logout(b) ==
  /\ cookie[b] # None
  /\ cookie' = DropCookie(b)
  /\ Holding(b, None)
  /\ UNCHANGED <<database, req>>

-----------------------------------------------------------------------------
(* Password change: the request keeps the session it came with             *)

ChangeBegin(r, b) ==
  /\ req[r] = Idle
  /\ cookie[b] # None
  /\ cookie[b].renewed < MaxRenewals
  /\ req' = [req EXCEPT ![r] = [pc |-> "verify", browser |-> b, session |-> cookie[b]]]
  /\ UNCHANGED <<database, cookie, holder>>

(* The account may be inactive.                                            *)
ChangeVerify(r) ==
  /\ req[r].pc = "verify"
  /\ Credential(req[r].session.user)
  /\ req' = [req EXCEPT ![r].pc = "write"]
  /\ UNCHANGED <<database, cookie, holder>>

(* Mutant: the session is signed anew before the password is changed.      *)
ReissueAnyway(r) == req[r].pc \in {"verify", "reissue"}

ReissueOnSuccess(r) == req[r].pc = "reissue"

ChangeRefused(r) ==
  /\ req[r].pc = "verify"
  /\ ~ ReissueOnSuccess(r)
  /\ req' = [req EXCEPT ![r] = Idle]
  /\ UNCHANGED <<database, cookie, holder>>

(* setPassword: an UPDATE, of no row when the account is gone.             *)
ChangeWrite(r) ==
  LET u == req[r].session.user
  IN  /\ req[r].pc = "write"
      /\ chosen' = IF account[u] = "deleted" THEN chosen ELSE chosen \cup {u}
      /\ req' = [req EXCEPT ![r].pc = "reissue"]
      /\ UNCHANGED <<account, role, orgs, attempts, granted, changes, cookie, holder>>

(* The session the request came with is signed again, for a full term.     *)
Renewed(s) == [s EXCEPT !.must = FALSE, !.age = 0, !.renewed = @ + 1]

ChangeReply(r) ==
  /\ ReissueOnSuccess(r)
  /\ cookie' = [cookie EXCEPT ![req[r].browser] = Renewed(req[r].session)]
  /\ req' = [req EXCEPT ![r] = Idle]
  /\ UNCHANGED <<database, holder>>

-----------------------------------------------------------------------------
(* What administrators change, and time                                    *)

Change ==
  /\ changes < MaxChanges
  /\ changes' = changes + 1
  /\ UNCHANGED <<cookie, req, holder>>

SetActive(u, a) ==
  /\ account[u] \notin {a, "deleted"}
  /\ account' = [account EXCEPT ![u] = a]
  /\ Change
  /\ UNCHANGED <<chosen, role, orgs, attempts, granted>>

(* deleteUser cascades to the memberships and not to the attempts.         *)
DeleteUser(u) ==
  /\ account[u] # "deleted"
  /\ \A a \in attempts : a[2] # u
  /\ account' = [account EXCEPT ![u] = "deleted"]
  /\ role' = [o \in Orgs |-> [role[o] EXCEPT ![u] = None]]
  /\ Change
  /\ UNCHANGED <<chosen, orgs, attempts, granted>>

(* importRoster: an existing membership keeps its role.                    *)
Enrol(o, u) ==
  /\ account[u] # "deleted"
  /\ role' = [role EXCEPT ![o][u] = IF @ = None THEN "examinee" ELSE @]
  /\ attempts' = attempts \cup {<<o, u>>}
  /\ Change
  /\ UNCHANGED <<account, chosen, orgs, granted>>

(* issueOrgAdmin: an examinee becomes org_admin and examinee no longer.    *)
Promote(o, u) ==
  /\ account[u] # "deleted"
  /\ o \in orgs
  /\ role' = [role EXCEPT ![o][u] = "org_admin"]
  /\ granted' = granted \cup {<<o, u>>}
  /\ Change
  /\ UNCHANGED <<account, chosen, orgs, attempts>>

DeactivateOrg(o) ==
  /\ orgs' = orgs \ {o}
  /\ Change
  /\ UNCHANGED <<account, chosen, role, attempts, granted>>

(* Mutant: the age of a cookie starts anew.                                *)
Sliding(c) == IF c.age + 1 >= MaxAge THEN [c EXCEPT !.age = 0, !.read = @ + 1]
              ELSE [c EXCEPT !.age = @ + 1, !.read = @ + 1]

(* An hour passes, and browsers drop what is too old.  A request does not  *)
(* take an hour.                                                           *)
Older(c) == IF c.age + 1 >= MaxAge THEN None ELSE [c EXCEPT !.age = @ + 1, !.read = @ + 1]

Tick ==
  /\ \A r \in Requests : req[r] = Idle
  /\ \E b \in Browsers : cookie[b] # None
  /\ cookie' = [b \in Browsers |-> IF cookie[b] = None THEN None ELSE Older(cookie[b])]
  /\ UNCHANGED <<database, req, holder>>

Next ==
  \/ \E r \in Requests, b \in Browsers :
       \/ \E u \in Users : LoginCheck(r, b, u)
       \/ ChangeBegin(r, b)
  \/ \E r \in Requests :
       \/ LoginRoles(r) \/ LoginReply(r) \/ ReplyLost(r)
       \/ ChangeVerify(r) \/ ChangeRefused(r) \/ ChangeWrite(r) \/ ChangeReply(r)
  \/ \E b \in Browsers : Logout(b)
  \/ \E u \in Users : DeleteUser(u) \/ \E a \in Account \ {"deleted"} : SetActive(u, a)
  \/ \E o \in Orgs, u \in Users : Enrol(o, u) \/ Promote(o, u)
  \/ \E o \in orgs : DeactivateOrg(o)
  \/ Tick

Spec == Init /\ [][Next]_vars

-----------------------------------------------------------------------------
(* What the services look up for a session: sets of <<organization,        *)
(* student>>, one for each row about that student.                         *)

Audiences(c) == {a \in {"admin", "org_admin", "examinee"} :
                   IF a = "admin" THEN c.admin ELSE \E m \in c.orgs : m[2] = a}

(* Mutant: any membership will do.                                         *)
AnyOrgOf(c) == {m[1] : m \in c.orgs}

MyOrgAdminIds(c) == {m[1] : m \in {n \in c.orgs : n[2] = "org_admin"}}

(* Queries that join the accounts: of one that is gone there is no row.    *)
Known(rows) == {x \in rows : account[x[2]] # "deleted"}
ListRosterByBatch(o) == Known({x \in attempts : x[1] = o})
AttemptDetail(x) == Known({x})
SubmissionDetail(x) == Known({x})

InScope(c, rows) == {x \in rows : c.admin \/ x[1] \in MyOrgAdminIds(c)}
ListExamineesByOrg(os) == {x \in os \X Users : role[x[1]][x[2]] = "examinee"}
ListForViewer(c) == InScope(c, attempts)
BatchDetailForViewer(c, o) == InScope(c, ListRosterByBatch(o))
RecentSubmissions(c) == InScope(c, Known(attempts))
GetDashboard(c) == ListForViewer(c) \cup RecentSubmissions(c)
ListByExaminee(u) == {x \in attempts : x[2] = u}
IsExamineeInOrgs(u, os) == \E o \in os : role[o][u] = "examinee"
StudentForOrg(c, u) == IF c.admin \/ IsExamineeInOrgs(u, MyOrgAdminIds(c))
                       THEN Known(ListByExaminee(u)) ELSE {}
ReportForExaminee(c, x) == IF x[2] = c.user THEN AttemptDetail(x) ELSE {}
ListWithOrgs == {x \in Orgs \X Users : role[x[1]][x[2]] # None} \cup Known(attempts)

-----------------------------------------------------------------------------
(* The pages: what they show to whom they let in; others find themselves   *)
(* at the login.                                                           *)

RequireAudience(c, a, rows) == IF a \in Audiences(c) THEN rows ELSE {}
RequireGlobalRole(c, rows) == IF c.admin THEN rows ELSE {}

OrgStudentsPage(c) == RequireAudience(c, "org_admin", ListExamineesByOrg(MyOrgAdminIds(c)))
OrgStudentDetailPage(c, u) == RequireAudience(c, "org_admin", StudentForOrg(c, u))
OrgBatchesPage(c) == RequireAudience(c, "org_admin", ListForViewer(c))
OrgBatchDetailPage(c, o) == RequireAudience(c, "org_admin", BatchDetailForViewer(c, o))
OrgDashboardPage(c) == RequireAudience(c, "org_admin", GetDashboard(c))
MyExamsPage(c) == RequireAudience(c, "examinee", ListByExaminee(c.user))
MyReportPage(c, x) == ReportForExaminee(c, x)
AdminStudentsPage(c) == RequireGlobalRole(c, ListWithOrgs)
AdminSubmissionsPage(c) == RequireGlobalRole(c, RecentSubmissions(c))
SubmissionDetailPage(c, x) == RequireGlobalRole(c, SubmissionDetail(x))

Listed(c) ==
  OrgStudentsPage(c) \cup OrgBatchesPage(c) \cup OrgDashboardPage(c)
    \cup AdminStudentsPage(c) \cup AdminSubmissionsPage(c)
    \cup UNION {OrgBatchDetailPage(c, o) : o \in Orgs}
    \cup UNION {SubmissionDetailPage(c, x) : x \in attempts}

-----------------------------------------------------------------------------
Sessions == {cookie[b] : b \in Browsers} \ {None}

(* What a session says was read from the database at most one term ago for *)
(* every time it was set: revoked rights end, but a password change grants *)
(* them another term.  (session.ts setSessionCookie, changePasswordAction) *)
BoundedStaleness == \A c \in Sessions : c.read < MaxAge * (1 + c.renewed)

(* The reminder to replace a temporary password disappears only after the  *)
(* password has been replaced, whichever replies are lost or overtake each  *)
(* other; of an account deleted meanwhile nothing is left to remind of.     *)
(* (changePasswordAction, authService login)         *)
ReminderStays ==
  \A c \in Sessions : c.must \/ c.user \in chosen \/ account[c.user] = "deleted"

(* Whatever pages show beyond the reader's own attempts belongs to an      *)
(* organization that made the reader its administrator; only the history   *)
(* of a student enrolled there goes further, and a report is the reader's. *)
(* (guard myOrgAdminIds, batchService, attemptService, dashboardService)   *)
OrgScope ==
  \A c \in {d \in Sessions : ~ d.admin} :
    /\ \A x \in Listed(c) : <<x[1], c.user>> \in granted
    /\ \A u \in Users : OrgStudentDetailPage(c, u) # {} =>
         \E o \in Orgs : role[o][u] = "examinee" /\ <<o, c.user>> \in granted
    /\ MyExamsPage(c) \cup UNION {MyReportPage(c, x) : x \in attempts} \subseteq Orgs \X {c.user}

(* A browser holds the session of who logged in there last and nothing     *)
(* after a logout, unless a password change was under way at that moment.  *)
(* (login and logout routes, changePasswordAction)                         *)
LastLoginHolds ==
  \A b \in Browsers : \/ holder[b] = "disturbed"
                      \/ cookie[b] = None
                      \/ cookie[b].user = holder[b]
=============================================================================
