----------------------------- MODULE AccessProofs -----------------------------
(***************************************************************************)
(* For any number of browsers, requests, users and organizations, however  *)
(* long a cookie lives and however often it is renewed: what a session     *)
(* says was true when it was read, it is read often enough, and a browser  *)
(* holds its last login.                                                   *)
(***************************************************************************)
EXTENDS Access, TLAPS

Request == [pc : {"roles", "reply", "verify", "write", "reissue"},
            browser : Browsers, session : Session]

Shape ==
  /\ account \in [Users -> Account]
  /\ chosen \subseteq Users
  /\ role \in [Orgs -> [Users -> OrgRole \cup {None}]]
  /\ orgs \subseteq Orgs
  /\ attempts \subseteq Orgs \X Users
  /\ changes \in 0 .. MaxChanges
  /\ cookie \in [Browsers -> Session \cup {None}]
  /\ req \in [Requests -> Request \cup {Idle}]
  /\ holder \in [Browsers -> Users \cup {None, "disturbed"}]

(* Rights were granted once.                                               *)
RolesGranted == \A o \in Orgs, u \in Users : role[o][u] = "org_admin" => <<o, u>> \in granted

(* Whoever is not reminded has replaced the temporary password.            *)
Replaced(u) == u \in chosen \/ account[u] = "deleted"

(* A session is at most as old as its cookie and the terms before it, and  *)
(* the rights it lists were granted.                                       *)
Sound(c) ==
  /\ c.read <= c.age + MaxAge * c.renewed
  /\ c.must \/ Replaced(c.user)
  /\ \A m \in c.orgs : m[2] = "org_admin" => <<m[1], c.user>> \in granted

CookiesSound == \A b \in Browsers : cookie[b] # None => Sound(cookie[b])

IsChange(r) == req[r].pc \in {"verify", "write", "reissue"}
RequestsSound ==
  \A r \in Requests : req[r] # Idle =>
    /\ Sound(req[r].session)
    /\ IsChange(r) => req[r].session.renewed < MaxRenewals
    /\ req[r].pc = "reissue" => Replaced(req[r].session.user)

(* A password change under way belongs to the session that is held.        *)
ChangesHeld ==
  \A r \in Requests : req[r] # Idle /\ IsChange(r) =>
    \/ holder[req[r].browser] = "disturbed"
    \/ req[r].session.user = holder[req[r].browser]

SessionInv == Shape /\ RolesGranted /\ CookiesSound /\ RequestsSound
HolderInv == LastLoginHolds /\ ChangesHeld

LEMMA IdleIsNoRequest == Idle \notin Request
BY DEF Idle, Request

LEMMA Initially == Init => SessionInv /\ HolderInv
<1> SUFFICES ASSUME Init PROVE SessionInv /\ HolderInv
  OBVIOUS
<1>1. Shape
  BY MaxChangesAssumption DEF Init, Shape, Account, OrgRole
<1>2. RolesGranted
  <2> PICK students \in SUBSET Users :
        role = [o \in Orgs |-> [u \in Users |-> IF u \in students THEN "examinee" ELSE None]]
    BY DEF Init
  <2> QED
    BY NoneAssumption DEF RolesGranted
<1>3. CookiesSound /\ LastLoginHolds
  BY DEF Init, CookiesSound, LastLoginHolds
<1>4. RequestsSound /\ ChangesHeld
  BY DEF Init, RequestsSound, ChangesHeld
<1> QED
  BY <1>1, <1>2, <1>3, <1>4 DEF SessionInv, HolderInv

-------------------------------------------------------------------------------
(* The database never takes back what a session may rely on.               *)
Grows ==
  /\ chosen \subseteq chosen' /\ granted \subseteq granted'
  /\ \A u \in Users : account[u] = "deleted" => account'[u] = "deleted"

LEMMA DatabaseGrows == ASSUME Shape, [Next]_vars PROVE Grows
<1> USE DEF database, Change
<1>1. ASSUME NEW u \in Users, DeleteUser(u) PROVE Grows
  BY <1>1 DEF Grows, DeleteUser, Shape
<1>2. ASSUME NEW u \in Users, NEW a \in Account \ {"deleted"}, SetActive(u, a) PROVE Grows
  BY <1>2 DEF Grows, SetActive, Shape
<1>3. ASSUME NEW r \in Requests, ChangeWrite(r) PROVE Grows
  BY <1>3 DEF Grows, ChangeWrite
<1>4. ASSUME NEW o \in Orgs, NEW u \in Users, Enrol(o, u) \/ Promote(o, u) PROVE Grows
  BY <1>4 DEF Grows, Enrol, Promote
<1>5. ASSUME NEW o \in orgs, DeactivateOrg(o) PROVE Grows
  BY <1>5 DEF Grows, DeactivateOrg
<1>6. CASE UNCHANGED <<account, chosen, granted>>
  BY <1>6 DEF Grows
<1> QED
  BY <1>1, <1>2, <1>3, <1>4, <1>5, <1>6
     DEF Next, vars, LoginCheck, ChangeBegin, LoginRoles, LoginReply, ReplyLost, ChangeVerify,
         ChangeRefused, ChangeReply, Logout, Tick

LEMMA SoundStays == ASSUME Grows, NEW c \in Session, Sound(c) PROVE Sound(c)'
BY DEF Grows, Sound, Replaced, Session

LEMMA ReplacedStays == ASSUME Grows, NEW u \in Users, Replaced(u) PROVE Replaced(u)'
BY DEF Grows, Replaced

(* A request in flight has the fields of one.                              *)
LEMMA InFlightShape ==
  ASSUME Shape, NEW r \in Requests, req[r] # Idle
  PROVE  /\ req[r] \in Request
         /\ req[r].session \in Session /\ req[r].browser \in Browsers
         /\ req[r].session.user \in Users
BY DEF Shape, Request, Session

LEMMA ShapeStep == ASSUME SessionInv, [Next]_vars PROVE Shape'
<1> USE DEF database, Change
<1>0. Shape
  BY DEF SessionInv
<1>1. ASSUME NEW r \in Requests, NEW b \in Browsers, NEW u \in Users, LoginCheck(r, b, u)
      PROVE  Shape'
  <2> DEFINE new == [user |-> u, admin |-> FALSE, orgs |-> {}, must |-> u \notin chosen,
                     age |-> 0, read |-> 0, renewed |-> 0]
  <2>1. new \in Session
    BY MaxAgeAssumption DEF Session
  <2>2. [pc |-> "roles", browser |-> b, session |-> new] \in Request
    BY <2>1 DEF Request
  <2> QED
    BY <1>0, <1>1, <2>2 DEF Shape, LoginCheck
<1>2. ASSUME NEW r \in Requests, NEW b \in Browsers, ChangeBegin(r, b) PROVE Shape'
  <2>1. cookie[b] \in Session
    BY <1>0, <1>2 DEF Shape, ChangeBegin
  <2>2. [pc |-> "verify", browser |-> b, session |-> cookie[b]] \in Request
    BY <2>1 DEF Request
  <2> QED
    BY <1>0, <1>2, <2>2 DEF Shape, ChangeBegin
<1>3. ASSUME NEW r \in Requests, LoginRoles(r) PROVE Shape'
  <2>1. req[r] \in Request /\ req[r].session \in Session
    BY <1>0, <1>3, InFlightShape DEF LoginRoles, Idle
  <2> DEFINE u == req[r].session.user
             held == [req[r].session EXCEPT !.admin = u \in Admins /\ account[u] # "deleted",
                                            !.orgs = Memberships(u)]
  <2>2. u \in Users
    BY <2>1 DEF Session
  <2>3. Memberships(u) \in SUBSET (Orgs \X OrgRole)
    BY <1>0, <2>2 DEF Memberships, EveryMembership, Shape
  <2>4. held \in Session
    BY <2>1, <2>3 DEF Session
  <2>5. req' = [req EXCEPT ![r] = [req[r] EXCEPT !.pc = "reply", !.session = held]]
    BY <1>0, <1>3, <2>1 DEF LoginRoles, Shape, Request, Session
  <2>6. [req[r] EXCEPT !.pc = "reply", !.session = held] \in Request
    BY <2>1, <2>4 DEF Request
  <2>7. req' \in [Requests -> Request \cup {Idle}]
    <3> HIDE DEF held
    <3> QED
      BY <1>0, <2>5, <2>6 DEF Shape
  <2> QED
    BY <1>0, <1>3, <2>7 DEF Shape, LoginRoles
<1>4. ASSUME NEW r \in Requests, LoginReply(r) PROVE Shape'
  <2>1. req[r].session \in Session /\ req[r].browser \in Browsers /\ req[r].session.user \in Users
    BY <1>0, <1>4, InFlightShape DEF LoginReply, Idle
  <2> QED
    BY <1>0, <1>4, <2>1 DEF Shape, LoginReply, Holding
<1>5. ASSUME NEW r \in Requests, ReplyLost(r) \/ ChangeRefused(r) PROVE Shape'
  BY <1>0, <1>5 DEF Shape, ReplyLost, ChangeRefused
<1>6. ASSUME NEW r \in Requests, ChangeVerify(r) \/ ChangeWrite(r) PROVE Shape'
  <2>1. req[r] \in Request
    BY <1>0, <1>6, InFlightShape DEF ChangeVerify, ChangeWrite, Idle
  <2>2. req' \in [Requests -> Request \cup {Idle}]
    BY <1>0, <1>6, <2>1 DEF Shape, ChangeVerify, ChangeWrite, Request
  <2>3. chosen' \subseteq Users
    BY <1>0, <1>6, <2>1 DEF Shape, ChangeVerify, ChangeWrite, Request, Session
  <2> QED
    BY <1>0, <1>6, <2>2, <2>3 DEF Shape, ChangeVerify, ChangeWrite
<1>7. ASSUME NEW r \in Requests, ChangeReply(r) PROVE Shape'
  <2>1. req[r].session \in Session /\ req[r].browser \in Browsers
    BY <1>0, <1>7, InFlightShape DEF ChangeReply, ReissueOnSuccess, Idle
  <2>2. req[r].session.renewed < MaxRenewals
    BY <1>0, <1>7 DEF SessionInv, RequestsSound, IsChange, ChangeReply, ReissueOnSuccess, Idle
  <2>3. Renewed(req[r].session) \in Session
    <3>1. req[r].session.renewed + 1 \in 0 .. MaxRenewals /\ 0 \in 0 .. MaxAge - 1
      BY <2>1, <2>2, MaxAgeAssumption DEF Session
    <3> QED
      BY <2>1, <3>1 DEF Renewed, Session
  <2> QED
    BY <1>0, <1>7, <2>1, <2>3 DEF Shape, ChangeReply
<1>8. ASSUME NEW u \in Users, DeleteUser(u) PROVE Shape'
  <2>1. role' \in [Orgs -> [Users -> OrgRole \cup {None}]]
    BY <1>0, <1>8 DEF Shape, DeleteUser
  <2> QED
    BY <1>0, <1>8, <2>1, MaxChangesAssumption DEF Shape, DeleteUser, Account
<1>9. ASSUME NEW u \in Users, NEW a \in Account \ {"deleted"}, SetActive(u, a) PROVE Shape'
  BY <1>0, <1>9, MaxChangesAssumption DEF Shape, SetActive
<1>10. ASSUME NEW o \in Orgs, NEW u \in Users, Enrol(o, u) \/ Promote(o, u) PROVE Shape'
  <2>1. ASSUME NEW x \in OrgRole \cup {None}
        PROVE  [role EXCEPT ![o][u] = x] \in [Orgs -> [Users -> OrgRole \cup {None}]]
    BY <1>0 DEF Shape
  <2>2. role[o][u] \in OrgRole \cup {None}
    BY <1>0 DEF Shape
  <2>3. CASE Promote(o, u)
    BY <1>0, <2>1, <2>3, MaxChangesAssumption DEF Shape, Promote, OrgRole
  <2>4. CASE Enrol(o, u)
    <3>1. CASE role[o][u] = None
      <4>1. role' = [role EXCEPT ![o][u] = "examinee"]
        BY <1>0, <2>4, <3>1 DEF Shape, Enrol
      <4> QED
        BY <1>0, <2>1, <2>4, <4>1, MaxChangesAssumption DEF Shape, Enrol, OrgRole
    <3>2. CASE role[o][u] # None
      <4>1. role' = [role EXCEPT ![o][u] = role[o][u]]
        BY <1>0, <2>4, <3>2 DEF Shape, Enrol
      <4> QED
        BY <1>0, <2>1, <2>2, <2>4, <4>1, MaxChangesAssumption DEF Shape, Enrol
    <3> QED
      BY <3>1, <3>2
  <2> QED
    BY <1>10, <2>3, <2>4
<1>11. ASSUME NEW o \in orgs, DeactivateOrg(o) PROVE Shape'
  BY <1>0, <1>11, MaxChangesAssumption DEF Shape, DeactivateOrg
<1>12. CASE Tick
  <2>1. ASSUME NEW b \in Browsers, cookie[b] # None PROVE Older(cookie[b]) \in Session \cup {None}
    <3>1. cookie[b] \in Session
      BY <1>0, <2>1 DEF Shape
    <3>2. CASE cookie[b].age + 1 >= MaxAge
      BY <3>2 DEF Older
    <3>3. CASE ~ (cookie[b].age + 1 >= MaxAge)
      <4>1. cookie[b].age + 1 \in 0 .. MaxAge - 1 /\ cookie[b].read + 1 \in Nat
        BY <3>1, <3>3, MaxAgeAssumption DEF Session
      <4> QED
        BY <3>1, <3>3, <4>1 DEF Older, Session
    <3> QED
      BY <3>2, <3>3
  <2> QED
    BY <1>0, <1>12, <2>1 DEF Shape, Tick
<1>13. CASE \E b \in Browsers : Logout(b)
  BY <1>0, <1>13 DEF Shape, Logout, DropCookie, Holding
<1>14. CASE UNCHANGED vars
  BY <1>0, <1>14 DEF Shape, vars
<1> QED
  BY <1>1, <1>2, <1>3, <1>4, <1>5, <1>6, <1>7, <1>8, <1>9, <1>10, <1>11, <1>12, <1>13, <1>14
     DEF Next

LEMMA RolesStep == ASSUME SessionInv, [Next]_vars PROVE RolesGranted'
<1> USE DEF database, Change
<1>0. Shape /\ RolesGranted
  BY DEF SessionInv
<1>1. ASSUME NEW u \in Users, DeleteUser(u) PROVE RolesGranted'
  BY <1>0, <1>1, NoneAssumption DEF RolesGranted, DeleteUser, Shape
<1>2. ASSUME NEW o \in Orgs, NEW u \in Users, Enrol(o, u) PROVE RolesGranted'
  BY <1>0, <1>2 DEF RolesGranted, Enrol, Shape
<1>3. ASSUME NEW o \in Orgs, NEW u \in Users, Promote(o, u) PROVE RolesGranted'
  BY <1>0, <1>3 DEF RolesGranted, Promote, Shape
<1>4. CASE UNCHANGED <<role, granted>>
  BY <1>0, <1>4 DEF RolesGranted
<1> QED
  BY <1>1, <1>2, <1>3, <1>4
     DEF Next, vars, LoginCheck, ChangeBegin, LoginRoles, LoginReply, ReplyLost, ChangeVerify,
         ChangeRefused, ChangeWrite, ChangeReply, Logout, Tick, SetActive, DeactivateOrg

LEMMA RenewedSound ==
  ASSUME NEW c \in Session, Sound(c), Replaced(c.user)
  PROVE  Sound(Renewed(c))
<1>1. c.read <= MaxAge * c.renewed + MaxAge
  <2>1. c.age <= MaxAge /\ MaxAge * c.renewed \in Nat
    BY MaxAgeAssumption DEF Session
  <2> QED
    BY <2>1, MaxAgeAssumption DEF Sound, Session
<1>2. MaxAge * (c.renewed + 1) = MaxAge * c.renewed + MaxAge
  BY MaxAgeAssumption DEF Session
<1>3. Renewed(c).read <= Renewed(c).age + MaxAge * Renewed(c).renewed
  BY <1>1, <1>2, MaxAgeAssumption DEF Renewed, Session
<1> QED
  BY <1>3 DEF Sound, Renewed, Session

(* The database has changed, the session has not.                          *)
LEMMA HeldSound ==
  ASSUME SessionInv, Grows
  PROVE  /\ \A b \in Browsers : cookie[b] # None => cookie[b] \in Session /\ Sound(cookie[b])
         /\ \A c \in Session : Sound(c) => Sound(c)'
         /\ \A u \in Users : Replaced(u) => Replaced(u)'
<1>1. \A c \in Session : Sound(c) => Sound(c)'
  BY SoundStays
<1>2. \A u \in Users : Replaced(u) => Replaced(u)'
  BY ReplacedStays
<1> QED
  BY <1>1, <1>2 DEF SessionInv, CookiesSound, Shape

LEMMA CookiesStep == ASSUME SessionInv, [Next]_vars PROVE CookiesSound'
<1> USE DEF database, Change
<1>0. Shape /\ CookiesSound /\ RequestsSound /\ Grows
  BY DatabaseGrows DEF SessionInv
<1> SUFFICES ASSUME NEW b \in Browsers, cookie'[b] # None PROVE Sound(cookie[b])'
  BY DEF CookiesSound
<1>1. ASSUME cookie'[b] = cookie[b] PROVE Sound(cookie[b])'
  <2>1. cookie[b] \in Session /\ Sound(cookie[b])
    BY <1>1, <1>0, HeldSound
  <2> QED
    BY <1>0, <1>1, <2>1, HeldSound DEF Sound, Replaced, Session, Grows
<1>2. ASSUME NEW r \in Requests, LoginReply(r) PROVE Sound(cookie[b])'
  <2>1. req[r].session \in Session /\ Sound(req[r].session) /\ req[r].browser \in Browsers
    BY <1>0, <1>2, InFlightShape DEF LoginReply, Idle, RequestsSound
  <2>2. cookie'[b] = req[r].session \/ cookie'[b] = cookie[b]
    BY <1>0, <1>2, <2>1 DEF LoginReply, Shape
  <2> QED
    BY <1>0, <1>1, <2>1, <2>2 DEF Sound, Replaced, Session, Grows
<1>3. ASSUME NEW r \in Requests, ChangeReply(r) PROVE Sound(cookie[b])'
  <2> DEFINE c == req[r].session
  <2>1. c \in Session /\ Sound(c) /\ Replaced(c.user) /\ req[r].browser \in Browsers
    BY <1>0, <1>3, InFlightShape DEF ChangeReply, ReissueOnSuccess, Idle, RequestsSound
  <2>2. Sound(Renewed(c))
    BY <2>1, RenewedSound
  <2>3. cookie'[b] = Renewed(c) \/ cookie'[b] = cookie[b]
    BY <1>0, <1>3, <2>1 DEF ChangeReply, Shape
  <2>4. UNCHANGED <<chosen, account, granted>>
    BY <1>3 DEF ChangeReply
  <2> QED
    BY <1>1, <2>2, <2>3, <2>4 DEF Sound, Replaced
<1>4. CASE Tick
  <2> DEFINE c == cookie[b]
  <2>1. c # None /\ cookie'[b] = Older(c)
    BY <1>0, <1>4 DEF Tick, Shape
  <2>2. c \in Session /\ Sound(c)
    BY <1>0, <2>1, HeldSound
  <2>3. cookie'[b] = [c EXCEPT !.age = @ + 1, !.read = @ + 1]
    BY <2>1 DEF Older
  <2>4. MaxAge * c.renewed \in Nat
    BY <2>2, MaxAgeAssumption DEF Session
  <2>5. /\ cookie'[b].read = c.read + 1 /\ cookie'[b].age = c.age + 1
        /\ cookie'[b].renewed = c.renewed /\ cookie'[b].must = c.must
        /\ cookie'[b].user = c.user /\ cookie'[b].orgs = c.orgs
    BY <2>2, <2>3 DEF Session
  <2>6. cookie'[b].read <= cookie'[b].age + MaxAge * cookie'[b].renewed
    BY <2>2, <2>4, <2>5 DEF Sound, Session
  <2>7. UNCHANGED <<chosen, account, granted>>
    BY <1>4 DEF Tick
  <2> QED
    BY <2>2, <2>5, <2>6, <2>7 DEF Sound, Replaced
<1>5. CASE \E x \in Browsers : Logout(x)
  <2> PICK x \in Browsers : Logout(x)
    BY <1>5
  <2>1. cookie'[b] = cookie[b]
    BY <1>0 DEF Logout, DropCookie, Shape
  <2> QED
    BY <1>1, <2>1
<1>6. CASE UNCHANGED cookie
  BY <1>1, <1>6
<1> QED
  BY <1>2, <1>3, <1>4, <1>5, <1>6
     DEF Next, vars, LoginCheck, ChangeBegin, LoginRoles, ReplyLost, ChangeVerify,
         ChangeRefused, ChangeWrite, SetActive, DeleteUser, Enrol, Promote, DeactivateOrg

(* What RequestsSound says of one request.                                 *)
RequestSound(q) ==
  /\ Sound(q.session)
  /\ q.pc \in {"verify", "write", "reissue"} => q.session.renewed < MaxRenewals
  /\ q.pc = "reissue" => Replaced(q.session.user)

LEMMA OneByOne == RequestsSound <=> \A r \in Requests : req[r] # Idle => RequestSound(req[r])
BY DEF RequestsSound, RequestSound, IsChange

LEMMA RequestStays ==
  ASSUME Grows, NEW q \in Request, RequestSound(q)
  PROVE  RequestSound(q)'
<1>1. q.session \in Session /\ q.session.user \in Users
  BY DEF Request, Session
<1>2. Sound(q.session)'
  BY <1>1, SoundStays DEF RequestSound
<1>3. q.pc = "reissue" => Replaced(q.session.user)'
  BY <1>1, ReplacedStays DEF RequestSound
<1> QED
  BY <1>2, <1>3 DEF RequestSound

LEMMA RequestsStep == ASSUME SessionInv, [Next]_vars PROVE RequestsSound'
<1> USE DEF database, Change
<1>0. Shape /\ RolesGranted /\ CookiesSound /\ Grows
  BY DatabaseGrows DEF SessionInv
<1>a. \A r \in Requests : req[r] # Idle => req[r] \in Request /\ RequestSound(req[r])
  BY OneByOne DEF SessionInv, Shape
<1>b. \A q \in Request : RequestSound(q) => RequestSound(q)'
  BY <1>0, RequestStays
<1> SUFFICES ASSUME NEW r \in Requests, req'[r] # Idle PROVE RequestSound(req[r])'
  BY DEF RequestsSound, RequestSound, IsChange
<1>1. ASSUME req'[r] = req[r] PROVE RequestSound(req[r])'
  BY <1>a, <1>b, <1>1 DEF RequestSound, Sound, Replaced
<1>2. ASSUME NEW x \in Requests, NEW b \in Browsers, NEW u \in Users, LoginCheck(x, b, u)
      PROVE  RequestSound(req[r])'
  <2> DEFINE c == [user |-> u, admin |-> FALSE, orgs |-> {}, must |-> u \notin chosen,
                   age |-> 0, read |-> 0, renewed |-> 0]
  <2>1. CASE r = x
    <3>1. req'[r] = [pc |-> "roles", browser |-> b, session |-> c]
      BY <1>0, <1>2, <2>1 DEF LoginCheck, Shape
    <3>2. 0 <= 0 + MaxAge * 0
      BY MaxAgeAssumption
    <3>3. chosen' = chosen
      BY <1>2 DEF LoginCheck
    <3>4. (c.must \/ u \in chosen) /\ c.user = u /\ c.orgs = {}
      OBVIOUS
    <3>5. c.read = 0 /\ c.age = 0 /\ c.renewed = 0
      OBVIOUS
    <3>6. req'[r].session = c /\ req'[r].pc = "roles"
      BY <3>1
    <3> HIDE DEF c
    <3> QED
      BY <3>2, <3>3, <3>4, <3>5, <3>6 DEF RequestSound, Sound, Replaced
  <2>2. CASE r # x
    BY <1>0, <1>1, <1>2, <2>2 DEF LoginCheck, Shape
  <2> QED
    BY <2>1, <2>2
<1>3. ASSUME NEW x \in Requests, NEW b \in Browsers, ChangeBegin(x, b)
      PROVE  RequestSound(req[r])'
  <2>1. CASE r = x
    <3>1. req'[r] = [pc |-> "verify", browser |-> b, session |-> cookie[b]]
      BY <1>0, <1>3, <2>1 DEF ChangeBegin, Shape
    <3>2. Sound(cookie[b]) /\ cookie[b].renewed < MaxRenewals
      BY <1>0, <1>3 DEF ChangeBegin, CookiesSound
    <3>3. UNCHANGED <<chosen, account, granted>>
      BY <1>3 DEF ChangeBegin
    <3> QED
      BY <3>1, <3>2, <3>3 DEF RequestSound, Sound, Replaced
  <2>2. CASE r # x
    BY <1>0, <1>1, <1>3, <2>2 DEF ChangeBegin, Shape
  <2> QED
    BY <2>1, <2>2
<1>4. ASSUME NEW x \in Requests, LoginRoles(x) PROVE RequestSound(req[r])'
  <2>1. CASE r = x
    <3> DEFINE c == req[r].session
    <3>1. req[r] \in Request /\ c \in Session /\ Sound(c) /\ c.user \in Users
      BY <1>a, <1>4, <2>1 DEF LoginRoles, Idle, Request, Session, RequestSound
    <3>2. /\ req'[r].pc = "reply" /\ req'[r].session.orgs = Memberships(c.user)
          /\ req'[r].session.read = c.read /\ req'[r].session.age = c.age
          /\ req'[r].session.renewed = c.renewed /\ req'[r].session.must = c.must
          /\ req'[r].session.user = c.user
      BY <1>0, <1>4, <2>1, <3>1 DEF LoginRoles, Shape, Request, Session
    <3>3. \A m \in Memberships(c.user) : m[2] = "org_admin" => <<m[1], c.user>> \in granted
      BY <1>0, <3>1 DEF Memberships, EveryMembership, RolesGranted
    <3>4. UNCHANGED <<chosen, account, granted>>
      BY <1>4 DEF LoginRoles
    <3> QED
      BY <3>1, <3>2, <3>3, <3>4 DEF RequestSound, Sound, Replaced
  <2>2. CASE r # x
    BY <1>0, <1>1, <1>4, <2>2 DEF LoginRoles, Shape
  <2> QED
    BY <2>1, <2>2
<1>5. ASSUME NEW x \in Requests,
             LoginReply(x) \/ ReplyLost(x) \/ ChangeRefused(x) \/ ChangeReply(x)
      PROVE  RequestSound(req[r])'
  <2>1. req' = [req EXCEPT ![x] = Idle]
    BY <1>5 DEF LoginReply, ReplyLost, ChangeRefused, ChangeReply
  <2>2. req'[r] = req[r]
    BY <1>0, <2>1 DEF Shape
  <2> QED
    BY <1>1, <2>2
<1>6. ASSUME NEW x \in Requests, ChangeVerify(x) PROVE RequestSound(req[r])'
  <2>1. CASE r = x
    <3>1. req[r] \in Request /\ RequestSound(req[r]) /\ req[r].pc = "verify"
      BY <1>a, <1>6, <2>1 DEF ChangeVerify, Idle
    <3>2. req'[r].pc = "write" /\ req'[r].session = req[r].session
      BY <1>0, <1>6, <2>1, <3>1 DEF ChangeVerify, Shape, Request
    <3>3. UNCHANGED <<chosen, account, granted>>
      BY <1>6 DEF ChangeVerify
    <3> QED
      BY <3>1, <3>2, <3>3 DEF RequestSound, Sound, Replaced
  <2>2. CASE r # x
    BY <1>0, <1>1, <1>6, <2>2 DEF ChangeVerify, Shape
  <2> QED
    BY <2>1, <2>2
<1>7. ASSUME NEW x \in Requests, ChangeWrite(x) PROVE RequestSound(req[r])'
  <2>1. CASE r = x
    <3>1. req[r] \in Request /\ RequestSound(req[r]) /\ req[r].pc = "write"
      BY <1>a, <1>7, <2>1 DEF ChangeWrite, Idle
    <3>2. req'[r].pc = "reissue" /\ req'[r].session = req[r].session
      BY <1>0, <1>7, <2>1, <3>1 DEF ChangeWrite, Shape, Request
    <3>3. UNCHANGED <<account, granted>> /\ Replaced(req[r].session.user)'
      BY <1>7, <2>1 DEF ChangeWrite, Replaced
    <3>4. Sound(req[r].session) /\ chosen \subseteq chosen'
      BY <1>0, <3>1 DEF RequestSound, Grows
    <3> QED
      BY <3>1, <3>2, <3>3, <3>4 DEF RequestSound, Sound, Replaced
  <2>2. CASE r # x
    BY <1>0, <1>1, <1>7, <2>2 DEF ChangeWrite, Shape
  <2> QED
    BY <2>1, <2>2
<1>8. CASE UNCHANGED req
  BY <1>1, <1>8
<1> QED
  BY <1>2, <1>3, <1>4, <1>5, <1>6, <1>7, <1>8
     DEF Next, vars, SetActive, DeleteUser, Enrol, Promote, DeactivateOrg, Logout, Tick

LEMMA HolderStep == ASSUME SessionInv, HolderInv, [Next]_vars PROVE HolderInv'
<1> USE DEF database, Change
<1>0. Shape /\ LastLoginHolds /\ ChangesHeld
  BY DEF SessionInv, HolderInv
<1>a. \A r \in Requests : req[r] # Idle => req[r] \in Request /\ req[r].browser \in Browsers
  BY <1>0, InFlightShape
<1>1. ASSUME NEW r \in Requests, NEW b \in Browsers, NEW u \in Users, LoginCheck(r, b, u)
      PROVE  HolderInv'
  BY <1>0, <1>1 DEF LoginCheck, Shape, HolderInv, LastLoginHolds, ChangesHeld, IsChange, Idle
<1>2. ASSUME NEW r \in Requests, NEW b \in Browsers, ChangeBegin(r, b) PROVE HolderInv'
  BY <1>0, <1>2 DEF ChangeBegin, Shape, HolderInv, LastLoginHolds, ChangesHeld, IsChange, Idle
<1>3. ASSUME NEW r \in Requests, LoginRoles(r) \/ ChangeVerify(r) \/ ChangeWrite(r)
      PROVE  HolderInv'
  <2>1. req[r] # Idle /\ req[r] \in Request
    BY <1>a, <1>3 DEF LoginRoles, ChangeVerify, ChangeWrite, Idle
  <2>2. /\ \A x \in Requests \ {r} : req'[x] = req[x]
        /\ req'[r].browser = req[r].browser /\ req'[r].session.user = req[r].session.user
        /\ IsChange(r)' => IsChange(r)
    BY <1>0, <1>3, <2>1
       DEF LoginRoles, ChangeVerify, ChangeWrite, Shape, Request, Session, IsChange
  <2>3. UNCHANGED <<cookie, holder>>
    BY <1>3 DEF LoginRoles, ChangeVerify, ChangeWrite
  <2> QED
    BY <1>0, <2>1, <2>2, <2>3 DEF HolderInv, LastLoginHolds, ChangesHeld, IsChange
<1>4. ASSUME NEW r \in Requests, LoginReply(r) PROVE HolderInv'
  <2> DEFINE b == req[r].browser
  <2>1. b \in Browsers /\ req[r] # Idle /\ ~ IsChange(r)
    BY <1>a, <1>4 DEF LoginReply, Idle, IsChange
  <2>2. LastLoginHolds'
    BY <1>0, <1>4, <2>1 DEF LoginReply, Holding, Shape, LastLoginHolds
  <2>3. ChangesHeld'
    <3> SUFFICES ASSUME NEW x \in Requests, req'[x] # Idle, IsChange(x)'
                 PROVE  \/ holder'[req'[x].browser] = "disturbed"
                        \/ req'[x].session.user = holder'[req'[x].browser]
      BY DEF ChangesHeld
    <3>1. req'[x] = req[x]
      BY <1>0, <1>4 DEF LoginReply, Shape
    <3>2. x \in Changing(req[x].browser)
      BY <3>1 DEF Changing, InFlight, IsChange
    <3>3. CASE req[x].browser = b
      BY <1>0, <1>4, <2>1, <3>1, <3>2, <3>3 DEF LoginReply, Holding, Shape
    <3>4. CASE req[x].browser # b
      BY <1>0, <1>4, <2>1, <3>1, <3>4 DEF LoginReply, Holding, Shape, ChangesHeld, IsChange
    <3> QED
      BY <3>3, <3>4
  <2> QED
    BY <2>2, <2>3 DEF HolderInv
<1>5. ASSUME NEW b \in Browsers, Logout(b) PROVE HolderInv'
  <2>1. LastLoginHolds'
    BY <1>0, <1>5 DEF Logout, DropCookie, Holding, Shape, LastLoginHolds
  <2>2. ChangesHeld'
    <3> SUFFICES ASSUME NEW x \in Requests, req[x] # Idle, IsChange(x)
                 PROVE  \/ holder'[req[x].browser] = "disturbed"
                        \/ req[x].session.user = holder'[req[x].browser]
      BY <1>5 DEF ChangesHeld, Logout, IsChange
    <3>1. x \in Changing(req[x].browser)
      BY DEF Changing, InFlight, IsChange
    <3> QED
      BY <1>0, <1>a, <1>5, <3>1 DEF Logout, Holding, Shape, ChangesHeld
  <2> QED
    BY <2>1, <2>2 DEF HolderInv
<1>6. ASSUME NEW r \in Requests, ReplyLost(r) \/ ChangeRefused(r) PROVE HolderInv'
  BY <1>0, <1>6
     DEF ReplyLost, ChangeRefused, Shape, HolderInv, LastLoginHolds, ChangesHeld, IsChange
<1>7. ASSUME NEW r \in Requests, ChangeReply(r) PROVE HolderInv'
  <2>1. req[r] # Idle /\ IsChange(r) /\ req[r] \in Request /\ req[r].session \in Session
    BY <1>a, <1>7 DEF ChangeReply, ReissueOnSuccess, Idle, IsChange, Request
  <2>2. Renewed(req[r].session).user = req[r].session.user
    BY <2>1 DEF Renewed, Session
  <2>3. LastLoginHolds'
    BY <1>0, <1>a, <1>7, <2>1, <2>2 DEF ChangeReply, Shape, LastLoginHolds, ChangesHeld
  <2>4. ChangesHeld'
    BY <1>0, <1>7 DEF ChangeReply, Shape, ChangesHeld, IsChange
  <2> QED
    BY <2>3, <2>4 DEF HolderInv
<1>8. CASE Tick
  <2>1. ASSUME NEW b \in Browsers, cookie'[b] # None
        PROVE  cookie[b] # None /\ cookie'[b].user = cookie[b].user
    BY <1>0, <1>8, <2>1 DEF Tick, Older, Shape, Session
  <2> QED
    BY <1>0, <1>8, <2>1 DEF Tick, HolderInv, LastLoginHolds, ChangesHeld, IsChange
<1>9. CASE UNCHANGED <<cookie, req, holder>>
  BY <1>0, <1>9 DEF HolderInv, LastLoginHolds, ChangesHeld, IsChange
<1> QED
  BY <1>1, <1>2, <1>3, <1>4, <1>5, <1>6, <1>7, <1>8, <1>9
     DEF Next, vars, SetActive, DeleteUser, Enrol, Promote, DeactivateOrg

-------------------------------------------------------------------------------
(* Sessions are issued, held and refused as SessionInv and HolderInv say.  *)
THEOREM SessionsAreSound == Spec => [](SessionInv /\ HolderInv)
<1>1. SessionInv /\ HolderInv /\ [Next]_vars => (SessionInv /\ HolderInv)'
  BY ShapeStep, RolesStep, CookiesStep, RequestsStep, HolderStep DEF SessionInv
<1> QED
  BY <1>1, Initially, PTL DEF Spec

(* The accounts, memberships, cookies and requests keep their types.       *)
(* (session.ts Session, authService, changePasswordAction)                 *)
THEOREM TypeSafety == Spec => []TypeOK
<1>1. SessionInv => TypeOK
  <2> SUFFICES ASSUME SessionInv PROVE TypeOK
    OBVIOUS
  <2>1. \A r \in Requests : /\ req[r].pc \in {"idle", "roles", "reply", "verify", "write", "reissue"}
                            /\ req[r] # Idle => req[r].session \in Session
    BY DEF SessionInv, Shape, Request, Idle
  <2> QED
    BY <2>1 DEF SessionInv, Shape, RolesGranted, TypeOK
<1> QED
  BY <1>1, SessionsAreSound, PTL

(* However stale, what a session says was read from the database less than *)
(* one term ago for every time its cookie was set.                         *)
(* (session.ts setSessionCookie, changePasswordAction)                     *)
THEOREM Staleness == Spec => []BoundedStaleness
<1>1. SessionInv => BoundedStaleness
  <2> SUFFICES ASSUME SessionInv, NEW b \in Browsers, cookie[b] # None
               PROVE  cookie[b].read < MaxAge * (1 + cookie[b].renewed)
    BY DEF BoundedStaleness, Sessions
  <2> DEFINE c == cookie[b]
  <2>1. c \in Session /\ Sound(c)
    BY DEF SessionInv, CookiesSound, Shape
  <2>2. MaxAge * (1 + c.renewed) = MaxAge * c.renewed + MaxAge /\ MaxAge * c.renewed \in Nat
    BY <2>1, MaxAgeAssumption DEF Session
  <2>3. c.age < MaxAge /\ c.age \in Nat /\ c.read \in Nat
    BY <2>1, MaxAgeAssumption DEF Session
  <2> QED
    BY <2>1, <2>2, <2>3, MaxAgeAssumption DEF Sound
<1> QED
  BY <1>1, SessionsAreSound, PTL

(* The reminder to replace a temporary password goes with the password.    *)
(* (authService login, changePasswordAction)                               *)
THEOREM Reminder == Spec => []ReminderStays
<1>1. SessionInv => ReminderStays
  BY DEF SessionInv, CookiesSound, Sound, Replaced, ReminderStays, Sessions
<1> QED
  BY <1>1, SessionsAreSound, PTL

(* A browser holds the session of who logged in there last.                *)
(* (login and logout routes, changePasswordAction)                         *)
THEOREM LastLogin == Spec => []LastLoginHolds
<1> QED
  BY SessionsAreSound, PTL DEF HolderInv

Scoped(c) ==
  /\ \A x \in Listed(c) : <<x[1], c.user>> \in granted
  /\ \A u \in Users : OrgStudentDetailPage(c, u) # {} =>
       \E o \in Orgs : role[o][u] = "examinee" /\ <<o, c.user>> \in granted
  /\ MyExamsPage(c) \cup UNION {MyReportPage(c, x) : x \in attempts} \subseteq Orgs \X {c.user}

(* What pages show belongs to an organization that made the reader its     *)
(* administrator, to the reader, or to a student enrolled there.           *)
(* (guard.ts, batchService, attemptService, dashboardService)              *)
THEOREM Scope == Spec => []OrgScope
<1>1. SessionInv => OrgScope
  <2> SUFFICES ASSUME SessionInv, NEW c \in Sessions, ~ c.admin PROVE Scoped(c)
    BY DEF OrgScope, Scoped
  <2> DEFINE mine == MyOrgAdminIds(c)
  <2>1. c \in Session /\ Sound(c) /\ attempts \subseteq Orgs \X Users
    BY DEF SessionInv, CookiesSound, Shape, Sessions
  <2>2. \A o \in mine : o \in Orgs /\ <<o, c.user>> \in granted
    BY <2>1 DEF MyOrgAdminIds, Sound, Session
  <2>3. \A x \in Listed(c) : x[1] \in mine
    <3>1. AdminStudentsPage(c) = {} /\ AdminSubmissionsPage(c) = {}
          /\ \A x \in attempts : SubmissionDetailPage(c, x) = {}
      BY DEF AdminStudentsPage, AdminSubmissionsPage, SubmissionDetailPage, RequireGlobalRole
    <3>2. \A x \in OrgStudentsPage(c) : x[1] \in mine
      BY DEF OrgStudentsPage, RequireAudience, ListExamineesByOrg
    <3>3. \A x \in OrgBatchesPage(c) \cup OrgDashboardPage(c) : x[1] \in mine
      BY DEF OrgBatchesPage, OrgDashboardPage, RequireAudience, ListForViewer, GetDashboard,
             RecentSubmissions, InScope
    <3>4. \A o \in Orgs : \A x \in OrgBatchDetailPage(c, o) : x[1] \in mine
      BY DEF OrgBatchDetailPage, RequireAudience, BatchDetailForViewer, InScope
    <3> HIDE DEF mine
    <3> QED
      BY <3>1, <3>2, <3>3, <3>4 DEF Listed
  <2>4. ASSUME NEW u \in Users, OrgStudentDetailPage(c, u) # {}
        PROVE  \E o \in Orgs : role[o][u] = "examinee" /\ <<o, c.user>> \in granted
    <3>1. IsExamineeInOrgs(u, mine)
      BY <2>4 DEF OrgStudentDetailPage, RequireAudience, StudentForOrg
    <3> QED
      BY <2>2, <3>1 DEF IsExamineeInOrgs
  <2>5. MyExamsPage(c) \cup UNION {MyReportPage(c, x) : x \in attempts} \subseteq Orgs \X {c.user}
    <3>1. \A x \in attempts : x[2] = c.user => x \in Orgs \X {c.user}
      BY <2>1
    <3>2. MyExamsPage(c) \subseteq Orgs \X {c.user}
      BY <3>1 DEF MyExamsPage, RequireAudience, ListByExaminee
    <3>3. \A x \in attempts : MyReportPage(c, x) \subseteq Orgs \X {c.user}
      BY <3>1 DEF MyReportPage, ReportForExaminee, AttemptDetail, Known
    <3> QED
      BY <3>2, <3>3
  <2> QED
    BY <2>2, <2>3, <2>4, <2>5 DEF Scoped
<1> QED
  BY <1>1, SessionsAreSound, PTL
===============================================================================
