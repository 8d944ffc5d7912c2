----------------------------- MODULE ConsoleProofs -----------------------------
(***************************************************************************)
(* For any number of batches, tabs and universities and any times: a batch *)
(* is open exactly when the environment is its own, lists are as fresh as  *)
(* the cache promises, and no click puts a summary in the wrong place.     *)
(***************************************************************************)
EXTENDS Console, TLAPS

Pc == {"look", "env", "write", "invalidate", "reply", "summary"}
Job == [kind : Kinds, b : Batches, mounted : BOOLEAN, pc : Pc]

Shape ==
  /\ batch \in [Batches -> Row] /\ past \in [Batches -> SUBSET Row]
  /\ env \in Batches \cup {None}
  /\ changes \in 0 .. MaxChanges /\ calm \in BOOLEAN
  /\ modal \in [Tabs -> Modal] /\ result \in [Tabs -> Modal] /\ asked \in [Tabs -> Modal]
  /\ job \in [Tabs -> Job \cup {Idle}]

(* A list on its way is as old as its query, one in the cache loses a tick *)
(* of its TTL with each it gets older.                                     *)
Loading(l) == l \in List /\ (l.stale => l.late) /\ l.age <= FetchTime
Cached(l) == /\ l \in List /\ (l.stale => l.late)
             /\ l.left >= 1 /\ l.age + l.left <= TTL + FetchTime
Lists ==
  /\ load \in [Keys -> List \cup {None}] /\ cache \in [Keys -> List \cup {None}]
  /\ \A k \in Keys : load[k] # None => Loading(load[k])
  /\ \A k \in Keys : cache[k] # None => Cached(cache[k])

(* Actions under way that change a status or the environment.              *)
Operating(t) == job[t] # Idle /\ Operates(job[t].kind)
Settled(b) == batch[b].status = "open" <=> env = b
Free(b) == env \in {None, b}

(* How far an action has got with the batch it is for.                     *)
Between(t) ==
  LET b == job[t].b
      k == job[t].kind
      pc == job[t].pc
  IN  IF k = "open" /\ pc = "write" THEN env = b
      ELSE IF k = "close" /\ pc \in {"invalidate", "env"} THEN batch[b].status # "open" /\ Free(b)
      ELSE IF k = "cancel" /\ pc = "write" THEN env # b
      ELSE /\ Settled(b)
           /\ k = "open" /\ pc = "env" => Free(b)
           /\ k = "close" /\ pc = "write" => Free(b)
           /\ k = "cancel" /\ pc = "env" => batch[b].status = "open"
           /\ k = "delete" /\ pc = "write" => batch[b].status # "open"

Orderly ==
  calm =>
    /\ \A t, u \in Tabs : Operating(t) /\ Operating(u) => t = u
    /\ \A t \in Tabs : Operating(t) => job[t].kind \notin {"start", "stop"} /\ Between(t)
    /\ \A b \in Batches : (\A t \in Tabs : Operating(t) => job[t].b # b) => Settled(b)

ConsoleInv == Shape /\ Lists /\ Orderly

LEMMA Initially == Init => ConsoleInv
<1> SUFFICES ASSUME Init PROVE ConsoleInv
  OBVIOUS
<1>1. Shape
  <2>1. PICK created \in SUBSET Batches :
          batch = [b \in Batches |-> [students |-> 0, status |->
                                        IF b \in created THEN "scheduled" ELSE "none"]]
    BY DEF Init
  <2>2. \A b \in Batches : batch[b] \in Row
    BY <2>1 DEF Row, BatchStatus
  <2> QED
    BY <2>1, <2>2, TimesAssumption DEF Init, Shape, Modal
<1>2. Lists
  BY DEF Init, Lists
<1>3. Orderly
  <2>1. \A b \in Batches : batch[b].status # "open" /\ env # b
    BY NoneAssumption DEF Init
  <2>2. \A t \in Tabs : ~ Operating(t)
    BY DEF Init, Operating
  <2> QED
    BY <2>1, <2>2 DEF Orderly, Settled
<1> QED
  BY <1>1, <1>2, <1>3 DEF ConsoleInv

-------------------------------------------------------------------------------
(* A tab that is somewhere in an action has one.                           *)
LEMMA Busy ==
  ASSUME Shape, NEW t \in Tabs, job[t].pc # "idle"
  PROVE  job[t] \in Job /\ job[t] # Idle
BY DEF Shape, Job, Idle

LEMMA GotoShape ==
  ASSUME Shape, NEW t \in Tabs, job[t].pc # "idle", NEW pc \in Pc, Goto(t, pc)
  PROVE  /\ job' \in [Tabs -> Job \cup {Idle}] /\ job'[t] \in Job
         /\ job'[t].pc = pc /\ job'[t].kind = job[t].kind /\ job'[t].b = job[t].b
         /\ \A u \in Tabs \ {t} : job'[u] = job[u]
<1>1. job[t] \in Job
  BY Busy
<1>2. job' = [job EXCEPT ![t] = [job[t] EXCEPT !.pc = pc]]
  BY DEF Goto
<1>3. [job[t] EXCEPT !.pc = pc] \in Job
  BY <1>1 DEF Job
<1> QED
  BY <1>1, <1>2, <1>3 DEF Shape, Job

(* Every step of an action goes on with it.                                *)
Steps(t) ==
  \/ Write(t) \/ LookDelete(t) \/ WriteDelete(t) \/ LookCancel(t) \/ Provision(t) \/ Teardown(t)
  \/ Invalidate(t) \/ InvalidateFails(t) \/ Import(t)

LEMMA StepsGoto ==
  ASSUME Shape, NEW t \in Tabs, Steps(t)
  PROVE  job[t].pc # "idle" /\ \E pc \in Pc : Goto(t, pc)
<1> USE DEF Doing, AfterInvalidate, Pc
<1>1. CASE Write(t) \/ WriteDelete(t)
  BY <1>1 DEF Write, WriteDelete
<1>2. CASE LookDelete(t) \/ LookCancel(t)
  BY <1>2 DEF LookDelete, LookCancel
<1>3. CASE Provision(t) \/ Teardown(t)
  BY <1>3 DEF Provision, Teardown
<1>4. CASE Invalidate(t) \/ InvalidateFails(t)
  BY <1>4 DEF Invalidate, InvalidateFails
<1>5. CASE Import(t)
  BY <1>5 DEF Import
<1> QED
  BY <1>1, <1>2, <1>3, <1>4, <1>5 DEF Steps

LEMMA BeginShape ==
  ASSUME Shape, NEW t \in Tabs, NEW k \in Kinds, NEW b \in Batches, Begin(t, k, b)
  PROVE  /\ job' \in [Tabs -> Job \cup {Idle}]
         /\ job[t] = Idle /\ job'[t] \in Job /\ job'[t].kind = k /\ job'[t].b = b
         /\ job'[t].pc = CASE k \in {"delete", "cancel"} -> "look" [] k = "open" -> "env"
                           [] OTHER -> "write"
         /\ \A u \in Tabs \ {t} : job'[u] = job[u]
<1> DEFINE pc == CASE k \in {"delete", "cancel"} -> "look" [] k = "open" -> "env"
                   [] OTHER -> "write"
           new == [kind |-> k, b |-> b, mounted |-> OnList(k), pc |-> pc]
<1>1. pc \in Pc
  BY DEF Pc
<1>2. new \in Job
  <2> HIDE DEF pc
  <2> QED
    BY <1>1 DEF Job, OnList
<1>3. job[t] = Idle /\ job' = [job EXCEPT ![t] = new]
  BY DEF Begin
<1>4. new.kind = k /\ new.b = b /\ new.pc = pc
  OBVIOUS
<1> HIDE DEF new, pc
<1>5. /\ job' \in [Tabs -> Job \cup {Idle}] /\ job'[t] = new
      /\ \A u \in Tabs \ {t} : job'[u] = job[u]
  BY <1>2, <1>3 DEF Shape
<1> QED
  BY <1>2, <1>3, <1>4, <1>5 DEF pc

-------------------------------------------------------------------------------
LEMMA RowShape ==
  ASSUME Shape, NEW b \in Batches, NEW r \in Row, SetRow(b, r)
  PROVE  /\ batch' \in [Batches -> Row] /\ past' \in [Batches -> SUBSET Row]
         /\ batch'[b] = r /\ \A c \in Batches \ {b} : batch'[c] = batch[c]
BY DEF Shape, SetRow

(* What a step does to the row of its batch.                               *)
LEMMA Written ==
  ASSUME Shape, NEW t \in Tabs, Write(t)
  PROVE  LET b == job[t].b
             r == [batch[b] EXCEPT !.status = NewStatus(job[t].kind)]
         IN  /\ b \in Batches /\ r \in Row /\ SetRow(b, r)
             /\ r.status = NewStatus(job[t].kind) /\ NewStatus(job[t].kind) \in BatchStatus
             /\ job[t].kind \in {"create", "start", "stop", "open", "close", "cancel"}
<1> DEFINE b == job[t].b
           k == job[t].kind
<1>1. job[t] \in Job /\ k \in Kinds \ {"add", "import", "delete"}
  BY Busy DEF Write, Doing
<1>2. b \in Batches /\ batch[b] \in Row
  BY <1>1 DEF Job, Shape
<1>3. k \in {"create", "start", "stop", "open", "close", "cancel"}
  BY <1>1 DEF Kinds
<1>4. NewStatus(k) \in BatchStatus
  BY <1>3 DEF NewStatus, BatchStatus
<1>5. [batch[b] EXCEPT !.status = NewStatus(k)] \in Row
  BY <1>2, <1>4 DEF Row
<1>6. [batch[b] EXCEPT !.status = NewStatus(k)].status = NewStatus(k)
  BY <1>2 DEF Row
<1> QED
  BY <1>2, <1>3, <1>4, <1>5, <1>6 DEF Write

LEMMA WrittenStatus ==
  ASSUME Shape, NEW t \in Tabs, Write(t)
  PROVE  /\ job[t].b \in Batches /\ batch'[job[t].b].status = NewStatus(job[t].kind)
         /\ \A c \in Batches \ {job[t].b} : batch'[c] = batch[c]
         /\ job[t].kind \in {"create", "start", "stop", "open", "close", "cancel"}
<1> DEFINE b == job[t].b
           r == [batch[b] EXCEPT !.status = NewStatus(job[t].kind)]
<1>1. /\ b \in Batches /\ r \in Row /\ SetRow(b, r) /\ r.status = NewStatus(job[t].kind)
      /\ job[t].kind \in {"create", "start", "stop", "open", "close", "cancel"}
  BY Written
<1> HIDE DEF r
<1>2. batch'[b] = r /\ \A c \in Batches \ {b} : batch'[c] = batch[c]
  BY <1>1, RowShape
<1> QED
  BY <1>1, <1>2

LEMMA Imported ==
  ASSUME Shape, NEW t \in Tabs, Import(t)
  PROVE  LET b == job[t].b
             r == [batch[b] EXCEPT !.students = 1]
         IN  b \in Batches /\ r \in Row /\ SetRow(b, r) /\ r.status = batch[b].status
<1>1. job[t] \in Job
  BY Busy DEF Import, Doing
<1>2. job[t].b \in Batches /\ batch[job[t].b] \in Row
  BY <1>1 DEF Job, Shape
<1> QED
  BY <1>2 DEF Import, Row

LEMMA ShapeStep == ASSUME Shape, [Next]_vars PROVE Shape'
<1> USE DEF rows, redis, tab
<1>1. ASSUME NEW t \in Tabs, Steps(t) PROVE Shape'
  <2>1. job' \in [Tabs -> Job \cup {Idle}]
    BY <1>1, StepsGoto, GotoShape
  <2>2. CASE Write(t)
    <3>1. batch' \in [Batches -> Row] /\ past' \in [Batches -> SUBSET Row]
      BY <2>2, Written, RowShape
    <3> QED
      BY <2>1, <2>2, <3>1, TimesAssumption DEF Shape, Write, Commit
  <2>3. CASE WriteDelete(t)
    <3>1. job[t].b \in Batches /\ [status |-> "deleted", students |-> 0] \in Row
      BY <2>3, Busy DEF WriteDelete, Doing, Job, Row, BatchStatus
    <3>2. batch' \in [Batches -> Row] /\ past' \in [Batches -> SUBSET Row]
      BY <2>3, <3>1, RowShape DEF WriteDelete
    <3> QED
      BY <2>1, <2>3, <3>2, TimesAssumption DEF Shape, WriteDelete, Commit
  <2>4. CASE Import(t)
    <3>1. batch' \in [Batches -> Row] /\ past' \in [Batches -> SUBSET Row]
      BY <2>4, Imported, RowShape
    <3> QED
      BY <2>1, <2>4, <3>1 DEF Shape, Import
  <2>5. CASE Provision(t)
    <3>1. job[t].b \in Batches
      BY <2>5, Busy DEF Provision, Doing, Job
    <3> QED
      BY <2>1, <2>5, <3>1 DEF Shape, Provision
  <2>6. CASE Teardown(t)
    BY <2>1, <2>6 DEF Shape, Teardown
  <2>7. CASE LookDelete(t) \/ LookCancel(t) \/ Invalidate(t) \/ InvalidateFails(t)
    BY <2>1, <2>7 DEF Shape, LookDelete, LookCancel, Invalidate, InvalidateFails
  <2> QED
    BY <1>1, <2>2, <2>3, <2>4, <2>5, <2>6, <2>7 DEF Steps
<1>2. ASSUME NEW t \in Tabs, Reply(t) PROVE Shape'
  <2>1. job[t].pc = "summary" \/ job[t].pc = "reply"
    BY <1>2 DEF Reply
  <2>2. job[t] \in Job /\ job[t].b \in Batches
    BY <2>1, Busy DEF Job
  <2>3. result' \in [Tabs -> Modal]
    BY <1>2, <2>2 DEF Shape, Reply, Modal
  <2>4. modal' \in [Tabs -> Modal]
    BY <1>2 DEF Shape, Reply, Modal
  <2> QED
    BY <1>2, <2>3, <2>4 DEF Shape, Reply
<1>3. ASSUME NEW t \in Tabs, JobLost(t) PROVE Shape'
  BY <1>3 DEF Shape, JobLost
<1>4. ASSUME NEW t \in Operators, NEW k \in Kinds, NEW b \in Batches, Click(t, k, b)
      PROVE  Shape'
  <2>1. t \in Tabs /\ Begin(t, k, b)
    BY <1>4, TabsAssumption DEF Click
  <2>2. job' \in [Tabs -> Job \cup {Idle}]
    BY <2>1, BeginShape
  <2>3. calm' \in BOOLEAN
    BY <1>4 DEF Click, ByTheRules
  <2> QED
    BY <1>4, <2>1, <2>2, <2>3 DEF Shape, Click, Begin
<1>5. ASSUME NEW t \in Importers, SendImport(t) PROVE Shape'
  <2>1. t \in Tabs /\ asked[t] \in Batches /\ Begin(t, "import", asked[t]) /\ "import" \in Kinds
    BY <1>5, TabsAssumption DEF SendImport, Shape, Modal, Kinds
  <2>2. job' \in [Tabs -> Job \cup {Idle}]
    BY <2>1, BeginShape
  <2> QED
    BY <1>5, <2>1, <2>2 DEF Shape, SendImport, Begin, Modal
<1>6. ASSUME NEW t \in Importers,
             (\E b \in Batches : OpenRoster(t, b)) \/ CloseRoster(t) \/ ClickImport(t)
      PROVE  Shape'
  BY <1>6, TabsAssumption DEF Shape, OpenRoster, CloseRoster, ClickImport, DropResult, Modal
<1>7. ASSUME NEW t \in Importers, Leave(t) PROVE Shape'
  <2>1. t \in Tabs
    BY TabsAssumption
  <2>2. job' \in [Tabs -> Job \cup {Idle}]
    <3>1. CASE job[t] = Idle
      BY <1>7, <3>1 DEF Leave, Shape
    <3>2. CASE job[t] # Idle
      <4>1. job[t] \in Job /\ job' = [job EXCEPT ![t] = [job[t] EXCEPT !.mounted = FALSE]]
        BY <1>7, <2>1, <3>2 DEF Leave, Shape
      <4>2. [job[t] EXCEPT !.mounted = FALSE] \in Job
        BY <4>1 DEF Job
      <4> QED
        BY <4>1, <4>2 DEF Shape
    <3> QED
      BY <3>1, <3>2
  <2> QED
    BY <1>7, <2>1, <2>2 DEF Shape, Leave, Modal
<1>8. CASE UNCHANGED <<rows, env, changes, calm, tab, job>>
  BY <1>8 DEF Shape
<1> QED
  BY <1>1, <1>2, <1>3, <1>4, <1>5, <1>6, <1>7, <1>8
     DEF Next, vars, Steps, Fetch, Fill, FillFails, Tick

-------------------------------------------------------------------------------
(* What a step does to one list.                                           *)
LEMMA Aged ==
  ASSUME NEW l \in List
  PROVE  /\ [l EXCEPT !.behind = TRUE] \in List
         /\ Loading(l) => Loading([l EXCEPT !.behind = TRUE])
         /\ Cached(l) => Cached([l EXCEPT !.behind = TRUE])
         /\ Loading(l) => LET m == [l EXCEPT !.left = TTL] IN m \in List /\ Cached(m)
         /\ Loading(l) /\ l.age < FetchTime =>
              LET m == [l EXCEPT !.age = @ + 1] IN m \in List /\ Loading(m)
         /\ Cached(l) /\ l.left # 1 =>
              LET m == [l EXCEPT !.left = @ - 1, !.age = @ + 1] IN m \in List /\ Cached(m)
         /\ Loading(l) =>
              LET m == [l EXCEPT !.stale = @ \/ l.behind, !.late = @ \/ l.behind]
              IN  m \in List /\ Loading(m)
<1> USE TimesAssumption DEF List, Loading, Cached
<1>1. /\ l.behind \in BOOLEAN /\ l.stale \in BOOLEAN /\ l.late \in BOOLEAN
      /\ l.age \in 0 .. FetchTime + TTL /\ l.left \in 0 .. TTL
  OBVIOUS
<1>2. /\ [l EXCEPT !.behind = TRUE] \in List
      /\ Loading(l) => Loading([l EXCEPT !.behind = TRUE])
      /\ Cached(l) => Cached([l EXCEPT !.behind = TRUE])
  BY <1>1
<1>3. Loading(l) => LET m == [l EXCEPT !.left = TTL] IN m \in List /\ Cached(m)
  BY <1>1
<1>4. Loading(l) /\ l.age < FetchTime =>
        LET m == [l EXCEPT !.age = @ + 1] IN m \in List /\ Loading(m)
  BY <1>1
<1>5. Cached(l) /\ l.left # 1 =>
        LET m == [l EXCEPT !.left = @ - 1, !.age = @ + 1] IN m \in List /\ Cached(m)
  <2> SUFFICES ASSUME Cached(l), l.left # 1
               PROVE  LET m == [l EXCEPT !.left = @ - 1, !.age = @ + 1] IN m \in List /\ Cached(m)
    OBVIOUS
  <2> DEFINE m == [l EXCEPT !.left = @ - 1, !.age = @ + 1]
  <2>1. /\ l.left - 1 \in 0 .. TTL /\ l.left - 1 >= 1
        /\ l.age + 1 \in 0 .. FetchTime + TTL
        /\ (l.age + 1) + (l.left - 1) <= TTL + FetchTime
    BY <1>1
  <2>2. /\ m.left = l.left - 1 /\ m.age = l.age + 1 /\ m.stale = l.stale /\ m.late = l.late
        /\ m \in List
    BY <1>1, <2>1
  <2>3. Cached(m)
    BY <2>1, <2>2
  <2> QED
    BY <2>2, <2>3
<1>6. Loading(l) => LET m == [l EXCEPT !.stale = @ \/ l.behind, !.late = @ \/ l.behind]
                    IN  m \in List /\ Loading(m)
  <2>1. (l.stale \/ l.behind) \in BOOLEAN /\ (l.late \/ l.behind) \in BOOLEAN
    BY <1>1
  <2>2. Loading(l) => ((l.stale \/ l.behind) => (l.late \/ l.behind))
    OBVIOUS
  <2> QED
    BY <1>1, <2>1, <2>2
<1> QED
  BY <1>2, <1>3, <1>4, <1>5, <1>6

LEMMA ListsStep == ASSUME Lists, [Next]_vars PROVE Lists'
<1> USE DEF rows, redis, tab
<1>1. ASSUME NEW k \in Keys, Fetch(k) PROVE Lists'
  <2>1. New \in List /\ Loading(New)
    BY TimesAssumption DEF New, List, Loading
  <2> QED
    BY <1>1, <2>1 DEF Lists, Fetch
<1>2. ASSUME NEW k \in Keys, Fill(k) PROVE Lists'
  <2> DEFINE m == [load[k] EXCEPT !.left = TTL]
  <2>1. load[k] \in List /\ Loading(load[k])
    BY <1>2 DEF Lists, Fill
  <2>2. m \in List /\ Cached(m)
    BY <2>1, Aged
  <2>3. cache' = [cache EXCEPT ![k] = m] /\ load' = [load EXCEPT ![k] = None]
    BY <1>2 DEF Fill
  <2> HIDE DEF m
  <2> QED
    BY <2>2, <2>3 DEF Lists
<1>3. ASSUME NEW k \in Keys, FillFails(k) PROVE Lists'
  BY <1>3 DEF Lists, FillFails
<1>4. ASSUME Tick PROVE Lists'
  <2>1. ASSUME NEW k \in Keys PROVE load'[k] = None \/ (load'[k] \in List /\ Loading(load'[k]))
    <3>1. CASE load[k] = None
      BY <1>4, <3>1 DEF Tick
    <3>2. CASE load[k] # None
      <4>1. load[k] \in List /\ Loading(load[k]) /\ load[k].age < FetchTime
        BY <1>4, <3>2 DEF Lists, Tick
      <4>2. load'[k] = [load[k] EXCEPT !.age = @ + 1]
        BY <1>4, <3>2 DEF Tick
      <4> QED
        BY <4>1, <4>2, Aged
    <3> QED
      BY <3>1, <3>2
  <2>2. ASSUME NEW k \in Keys PROVE cache'[k] = None \/ (cache'[k] \in List /\ Cached(cache'[k]))
    <3>1. CASE cache[k] = None \/ Expires(cache[k])
      BY <1>4, <3>1 DEF Tick
    <3>2. CASE ~ (cache[k] = None \/ Expires(cache[k]))
      <4>1. cache[k] \in List /\ Cached(cache[k]) /\ cache[k].left # 1
        BY <3>2 DEF Lists, Expires
      <4>2. cache'[k] = [cache[k] EXCEPT !.left = @ - 1, !.age = @ + 1]
        BY <1>4, <3>2 DEF Tick
      <4> QED
        BY <4>1, <4>2, Aged
    <3> QED
      BY <3>1, <3>2
  <2>3. /\ DOMAIN load' = Keys /\ load' = [k \in Keys |-> load'[k]]
        /\ DOMAIN cache' = Keys /\ cache' = [k \in Keys |-> cache'[k]]
    BY <1>4 DEF Tick
  <2> QED
    BY <2>1, <2>2, <2>3 DEF Lists
<1>5. ASSUME Commit PROVE Lists'
  <2>1. ASSUME NEW k \in Keys
        PROVE  /\ load'[k] = None \/ (load'[k] \in List /\ Loading(load'[k]))
               /\ cache'[k] = None \/ (cache'[k] \in List /\ Cached(cache'[k]))
    <3>1. load'[k] = IF load[k] = None THEN None ELSE [load[k] EXCEPT !.behind = TRUE]
      BY <1>5 DEF Commit, Behind
    <3>2. cache'[k] = IF cache[k] = None THEN None ELSE [cache[k] EXCEPT !.behind = TRUE]
      BY <1>5 DEF Commit, Behind
    <3>3. /\ load[k] # None => load[k] \in List /\ Loading(load[k])
          /\ cache[k] # None => cache[k] \in List /\ Cached(cache[k])
      BY DEF Lists
    <3> QED
      BY <3>1, <3>2, <3>3, Aged
  <2>2. load' = [k \in Keys |-> load'[k]] /\ cache' = [k \in Keys |-> cache'[k]]
    BY <1>5 DEF Commit, Behind
  <2> QED
    BY <2>1, <2>2 DEF Lists
<1>6. ASSUME NEW t \in Tabs, Invalidate(t) PROVE Lists'
  <2>1. ASSUME NEW k \in Keys
        PROVE  cache'[k] = None /\ (load'[k] = None \/ (load'[k] \in List /\ Loading(load'[k])))
    <3>1. cache'[k] = None
      BY <1>6 DEF Invalidate, Matched
    <3>2. CASE load[k] = None
      BY <1>6, <3>1, <3>2 DEF Invalidate
    <3>3. CASE load[k] # None
      <4>1. load[k] \in List /\ Loading(load[k])
        BY <3>3 DEF Lists
      <4>2. load'[k] = [load[k] EXCEPT !.stale = @ \/ load[k].behind,
                                       !.late = @ \/ load[k].behind]
        BY <1>6, <3>3 DEF Invalidate
      <4> QED
        BY <3>1, <4>1, <4>2, Aged
    <3> QED
      BY <3>1, <3>2, <3>3
  <2>2. load' = [k \in Keys |-> load'[k]] /\ cache' = [k \in Keys |-> cache'[k]]
    BY <1>6 DEF Invalidate
  <2> QED
    BY <2>1, <2>2 DEF Lists
<1>7. CASE UNCHANGED redis
  BY <1>7 DEF Lists
<1>8. ASSUME NEW t \in Tabs, NEW k \in Kinds, NEW b \in Batches,
             Click(t, k, b)
      PROVE  UNCHANGED redis
  BY <1>8 DEF Click, Begin
<1>9. ASSUME NEW t \in Tabs,
             \/ LookDelete(t) \/ LookCancel(t) \/ Provision(t) \/ Teardown(t)
             \/ InvalidateFails(t) \/ Import(t) \/ Reply(t) \/ JobLost(t)
      PROVE  UNCHANGED redis
  BY <1>9 DEF LookDelete, LookCancel, Provision, Teardown, InvalidateFails, Import, Reply, JobLost
<1>10. ASSUME NEW t \in Tabs, CloseRoster(t) \/ ClickImport(t) \/ SendImport(t) \/ Leave(t)
       PROVE  UNCHANGED redis
  BY <1>10 DEF CloseRoster, ClickImport, SendImport, Begin, Leave
<1>11. ASSUME NEW t \in Tabs, Write(t) \/ WriteDelete(t) PROVE Commit
  BY <1>11 DEF Write, WriteDelete
<1>12. ASSUME NEW t \in Importers, NEW b \in Batches, OpenRoster(t, b) PROVE UNCHANGED redis
  BY <1>12 DEF OpenRoster
<1> QED
  BY <1>1, <1>2, <1>3, <1>4, <1>5, <1>6, <1>7, <1>8, <1>9, <1>10, <1>11, <1>12, TabsAssumption
     DEF Next, vars

-------------------------------------------------------------------------------
(* Every action goes on with its kind and its batch.                       *)
LEMMA Continues ==
  ASSUME Shape, NEW t \in Tabs, Steps(t)
  PROVE  /\ job[t] \in Job /\ job[t] # Idle /\ job'[t] \in Job /\ job'[t] # Idle
         /\ job'[t].kind = job[t].kind /\ job'[t].b = job[t].b
         /\ \A u \in Tabs \ {t} : job'[u] = job[u]
         /\ \A u \in Tabs : Operating(u)' <=> Operating(u)
<1>1. PICK pc \in Pc : Goto(t, pc)
  BY StepsGoto
<1>2. job[t].pc # "idle" /\ job[t] \in Job /\ job[t] # Idle
  BY StepsGoto, Busy
<1>3. /\ job'[t] \in Job /\ job'[t].kind = job[t].kind /\ job'[t].b = job[t].b
      /\ \A u \in Tabs \ {t} : job'[u] = job[u]
  BY <1>1, <1>2, GotoShape
<1>4. job'[t] # Idle
  BY <1>3 DEF Job, Idle, Pc
<1> QED
  BY <1>2, <1>3, <1>4 DEF Operating

LEMMA Arrives ==
  ASSUME Shape, NEW t \in Tabs, Steps(t), NEW pc \in Pc, Goto(t, pc)
  PROVE  job'[t].pc = pc
BY StepsGoto, GotoShape

(* A step of an action that operates on batch b leaves the others settled  *)
(* when their rows stay and the environment moves between none and b.      *)
LEMMA OneOperates ==
  ASSUME ConsoleInv, NEW t \in Tabs, Steps(t), Operating(t), calm,
         NEW b, b = job[t].b,
         \A c \in Batches \ {b} : batch'[c].status = batch[c].status,
         env' = env \/ ({env, env'} \subseteq {None, b}),
         Between(t)'
  PROVE  Orderly'
<1> USE DEF ConsoleInv
<1>1. /\ job'[t].kind = job[t].kind /\ job'[t].b = b
      /\ \A u \in Tabs : Operating(u)' <=> Operating(u)
  BY Continues
<1>2. \A u \in Tabs : Operating(u) => u = t
  BY DEF Orderly
<1>3. job[t].kind \notin {"start", "stop"}
  BY DEF Orderly
<1>4. ASSUME NEW c \in Batches, \A u \in Tabs : Operating(u)' => job'[u].b # c
      PROVE  Settled(c)'
  <2>1. c # b
    BY <1>1, <1>4
  <2>2. Settled(c)
    <3>1. \A u \in Tabs : Operating(u) => job[u].b # c
      BY <1>2, <2>1
    <3> QED
      BY <3>1 DEF Orderly
  <2>3. batch'[c].status = batch[c].status
    BY <2>1
  <2>4. env = c <=> env' = c
    BY <2>1, NoneAssumption
  <2> QED
    BY <2>2, <2>3, <2>4 DEF Settled
<1>5. \A u \in Tabs : Operating(u)' => job'[u].kind \notin {"start", "stop"} /\ Between(u)'
  BY <1>1, <1>2, <1>3
<1>6. \A u, v \in Tabs : Operating(u)' /\ Operating(v)' => u = v
  BY <1>1, <1>2
<1> QED
  BY <1>4, <1>5, <1>6 DEF Orderly

(* What does not touch the environment, nor whether a batch is open, and   *)
(* starts or ends no action that operates, is of no account.               *)
LEMMA NoneOperates ==
  ASSUME Orderly, calm' => calm, env' = env,
         \A c \in Batches : batch'[c].status = "open" <=> batch[c].status = "open",
         \A u \in Tabs : Operating(u)' <=> Operating(u),
         \A u \in Tabs : Operating(u) => /\ job'[u].kind = job[u].kind /\ job'[u].b = job[u].b
                                         /\ job'[u].pc = job[u].pc /\ job[u].b \in Batches
  PROVE  Orderly'
<1> SUFFICES ASSUME calm' PROVE Orderly'
  BY DEF Orderly
<1>1. \A c \in Batches : Settled(c)' <=> Settled(c)
  BY DEF Settled
<1>2. ASSUME NEW u \in Tabs, Operating(u)'
      PROVE  job'[u].kind \notin {"start", "stop"} /\ Between(u)'
  <2>1. Operating(u) /\ Between(u) /\ job[u].kind \notin {"start", "stop"}
    BY <1>2 DEF Orderly
  <2>2. /\ job'[u].kind = job[u].kind /\ job'[u].b = job[u].b /\ job'[u].pc = job[u].pc
        /\ job[u].b \in Batches
    BY <2>1
  <2>3. batch'[job[u].b].status = "open" <=> batch[job[u].b].status = "open"
    BY <2>2
  <2> QED
    BY <2>1, <2>2, <2>3 DEF Between, Settled, Free
<1>3. \A u, v \in Tabs : Operating(u)' /\ Operating(v)' => u = v
  BY DEF Orderly
<1>4. ASSUME NEW c \in Batches, \A u \in Tabs : Operating(u)' => job'[u].b # c
      PROVE  Settled(c)'
  BY <1>1, <1>4 DEF Orderly
<1> QED
  BY <1>2, <1>3, <1>4 DEF Orderly

LEMMA OperatingJob ==
  ASSUME Shape, NEW t \in Tabs, Operating(t)
  PROVE  job[t] \in Job /\ job[t].b \in Batches /\ job[t].pc \in Pc
         /\ job[t].kind \in {"open", "close", "cancel", "delete", "start", "stop"}
BY DEF Shape, Operating, Operates, Job

(* An action that does not operate: creation of a batch, or a roster.      *)
LEMMA BesideStep ==
  ASSUME ConsoleInv, NEW t \in Tabs, Steps(t), ~ Operating(t)
  PROVE  Orderly'
<1> USE DEF ConsoleInv
<1>1. /\ job[t] \in Job /\ job[t] # Idle
      /\ \A u \in Tabs \ {t} : job'[u] = job[u]
      /\ \A u \in Tabs : Operating(u)' <=> Operating(u)
  BY Continues
<1>2. job[t].kind \in {"create", "add", "import"}
  BY <1>1 DEF Operating, Operates, Job, Kinds
<1>3. \A u \in Tabs : Operating(u) => /\ job'[u].kind = job[u].kind /\ job'[u].b = job[u].b
                                      /\ job'[u].pc = job[u].pc /\ job[u].b \in Batches
  BY <1>1, OperatingJob
<1>4. /\ calm' = calm /\ env' = env
      /\ \A c \in Batches : batch'[c].status = "open" <=> batch[c].status = "open"
  <2>1. CASE Write(t)
    <3>1. job[t].b \in Batches /\ batch'[job[t].b].status = "scheduled"
          /\ \A c \in Batches \ {job[t].b} : batch'[c] = batch[c]
      BY <1>2, <2>1, WrittenStatus DEF NewStatus
    <3>2. batch[job[t].b].status = "none" /\ calm' = calm /\ env' = env
      BY <1>2, <2>1, Written DEF Write
    <3> QED
      BY <3>1, <3>2
  <2>2. CASE Import(t)
    <3>1. job[t].b \in Batches /\ batch'[job[t].b].status = batch[job[t].b].status
          /\ \A c \in Batches \ {job[t].b} : batch'[c] = batch[c]
      BY <2>2, Imported, RowShape
    <3> QED
      BY <2>2, <3>1 DEF Import
  <2>3. CASE Invalidate(t) \/ InvalidateFails(t)
    BY <2>3 DEF Invalidate, InvalidateFails, rows
  <2>4. ~ (LookDelete(t) \/ WriteDelete(t) \/ LookCancel(t) \/ Provision(t) \/ Teardown(t))
    BY <1>2 DEF LookDelete, WriteDelete, LookCancel, Provision, Teardown, Doing
  <2> QED
    BY <2>1, <2>2, <2>3, <2>4 DEF Steps
<1> QED
  BY <1>1, <1>3, <1>4, NoneOperates

(* An action that operates, one step at a time.                            *)
LEMMA OperatingStep ==
  ASSUME ConsoleInv, NEW t \in Tabs, Steps(t), Operating(t), calm, calm'
  PROVE  Orderly'
<1> USE DEF ConsoleInv
<1> DEFINE b == job[t].b
           k == job[t].kind
<1>1. /\ job[t] \in Job /\ b \in Batches /\ k \in {"open", "close", "cancel", "delete"}
      /\ Between(t)
  BY OperatingJob DEF Orderly
<1>2. job'[t].kind = k /\ job'[t].b = b
  BY Continues
<1>3. CASE Write(t)
  <2>1. /\ batch'[b].status = NewStatus(k) /\ k \in {"open", "close", "cancel"}
        /\ \A c \in Batches \ {b} : batch'[c] = batch[c]
    BY <1>1, <1>3, WrittenStatus
  <2>2. job'[t].pc = "invalidate" /\ env' = env /\ job[t].pc = "write"
    BY <1>3, Arrives DEF Write, Doing, Pc
  <2>3. Between(t)'
    <3>1. CASE k = "open"
      BY <1>1, <1>2, <2>1, <2>2, <3>1 DEF Between, Settled, NewStatus
    <3>2. CASE k = "close"
      BY <1>1, <1>2, <2>1, <2>2, <3>2 DEF Between, Settled, Free, NewStatus
    <3>3. CASE k = "cancel"
      BY <1>1, <1>2, <2>1, <2>2, <3>3 DEF Between, Settled, NewStatus
    <3> QED
      BY <2>1, <3>1, <3>2, <3>3
  <2> QED
    BY <2>1, <2>2, <2>3, OneOperates
<1>4. CASE LookDelete(t)
  <2>1. /\ env' = env /\ batch' = batch /\ k = "delete" /\ job[t].pc = "look"
        /\ \/ CanHardDelete(batch[b]) /\ job'[t].pc = "write"
           \/ job'[t].pc = "reply"
    BY <1>4, Arrives DEF LookDelete, Doing, Pc, rows
  <2>2. Between(t)'
    BY <1>1, <1>2, <2>1 DEF Between, Settled, CanHardDelete
  <2> QED
    BY <2>1, <2>2, OneOperates
<1>5. CASE WriteDelete(t)
  <2>1. job'[t].pc = "invalidate" /\ env' = env /\ k = "delete" /\ job[t].pc = "write"
    BY <1>5, Arrives DEF WriteDelete, Doing, Pc
  <2>2. [status |-> "deleted", students |-> 0] \in Row
    BY DEF Row, BatchStatus
  <2>3. batch'[b].status = "deleted" /\ \A c \in Batches \ {b} : batch'[c] = batch[c]
    BY <1>1, <1>5, <2>2, RowShape DEF WriteDelete
  <2>4. Between(t)'
    BY <1>1, <1>2, <2>1, <2>3 DEF Between, Settled
  <2> QED
    BY <2>1, <2>3, <2>4, OneOperates
<1>6. CASE LookCancel(t)
  <2>1. /\ env' = env /\ batch' = batch /\ k = "cancel" /\ job[t].pc = "look"
        /\ \/ job'[t].pc = "reply"
           \/ batch[b].status = "open" /\ job'[t].pc = "env"
           \/ batch[b].status # "open" /\ job'[t].pc = "write"
    BY <1>6, Arrives DEF LookCancel, TearsDown, Doing, Pc, rows
  <2>2. Between(t)'
    BY <1>1, <1>2, <2>1 DEF Between, Settled
  <2> QED
    BY <2>1, <2>2, OneOperates
<1>7. CASE Provision(t)
  <2>1. /\ batch' = batch /\ k = "open" /\ job[t].pc = "env"
        /\ \/ env' = b /\ job'[t].pc = "write"
           \/ env' = env /\ job'[t].pc = "reply"
    BY <1>7, Arrives DEF Provision, Doing, Pc, rows
  <2>2. Settled(b) /\ Free(b)
    BY <1>1, <2>1 DEF Between
  <2>3. Between(t)'
    BY <1>2, <2>1, <2>2 DEF Between, Settled
  <2> QED
    BY <2>1, <2>2, <2>3, OneOperates DEF Free
<1>8. CASE Teardown(t)
  <2>1. /\ batch' = batch /\ k \in {"close", "cancel"} /\ job[t].pc = "env" /\ env' = None
        /\ job'[t].pc = IF k = "cancel" THEN "write" ELSE "reply"
    BY <1>8, Arrives DEF Teardown, Doing, Pc, rows
  <2>2. env \in {None, b}
    BY <1>1, <2>1 DEF Between, Settled, Free
  <2>3. Between(t)'
    BY <1>1, <1>2, <2>1, NoneAssumption DEF Between, Settled
  <2> QED
    BY <2>1, <2>2, <2>3, OneOperates
<1>9. CASE Invalidate(t) \/ InvalidateFails(t)
  <2>1. /\ batch' = batch /\ env' = env /\ job[t].pc = "invalidate"
        /\ job'[t].pc = IF k = "close" THEN "env" ELSE "reply"
    BY <1>9, Arrives DEF Invalidate, InvalidateFails, AfterInvalidate, Pc, rows
  <2>2. Between(t)'
    BY <1>1, <1>2, <2>1 DEF Between, Settled, Free
  <2> QED
    BY <2>1, <2>2, OneOperates
<1>10. ~ Import(t)
  BY <1>1 DEF Import, Doing
<1> QED
  BY <1>3, <1>4, <1>5, <1>6, <1>7, <1>8, <1>9, <1>10 DEF Steps

LEMMA OrderlyStep == ASSUME ConsoleInv, [Next]_vars PROVE Orderly'
<1> USE DEF ConsoleInv, rows, redis, tab
<1> SUFFICES ASSUME calm' PROVE Orderly'
  BY DEF Orderly
<1>1. CASE UNCHANGED <<rows, env, job>> /\ (calm' => calm)
  <2>1. \A u \in Tabs : Operating(u)' <=> Operating(u)
    BY <1>1 DEF Operating
  <2>2. \A u \in Tabs : Operating(u) => job[u].b \in Batches
    BY OperatingJob
  <2> QED
    BY <1>1, <2>1, <2>2, NoneOperates
<1>2. ASSUME NEW t \in Tabs, Steps(t) PROVE Orderly'
  <2>1. CASE ~ Operating(t)
    BY <1>2, <2>1, BesideStep
  <2>2. CASE Operating(t)
    <3>1. calm' => calm
      BY <1>2 DEF Steps, Write, LookDelete, WriteDelete, LookCancel, Provision, Teardown,
                  Invalidate, InvalidateFails, Import
    <3> QED
      BY <1>2, <2>2, <3>1, OperatingStep
  <2> QED
    BY <2>1, <2>2
<1>3. ASSUME NEW t \in Tabs, NEW k \in Kinds, NEW b \in Batches, Begin(t, k, b), ~ Operates(k),
             calm' => calm
      PROVE  Orderly'
  <2>1. /\ job[t] = Idle /\ job'[t].kind = k /\ \A u \in Tabs \ {t} : job'[u] = job[u]
    BY <1>3, BeginShape
  <2>2. \A u \in Tabs : Operating(u)' <=> Operating(u)
    BY <1>3, <2>1 DEF Operating
  <2>3. \A u \in Tabs : Operating(u) => u # t /\ job[u].b \in Batches
    BY <2>1, OperatingJob DEF Operating
  <2> QED
    BY <1>3, <2>1, <2>2, <2>3, NoneOperates DEF Begin
<1>4. ASSUME NEW t \in Operators, NEW k \in Kinds, NEW b \in Batches, Click(t, k, b)
      PROVE  Orderly'
  <2>1. t \in Tabs /\ Begin(t, k, b) /\ calm /\ ByTheRules(k, b)
    BY <1>4, TabsAssumption DEF Click
  <2>2. CASE ~ Operates(k)
    BY <1>3, <2>1, <2>2
  <2>3. CASE Operates(k)
    <3>1. /\ job'[t] \in Job /\ job'[t].kind = k /\ job'[t].b = b
          /\ job'[t].pc = CASE k \in {"delete", "cancel"} -> "look" [] k = "open" -> "env"
                            [] OTHER -> "write"
          /\ \A u \in Tabs \ {t} : job'[u] = job[u]
      BY <2>1, BeginShape
    <3>2. /\ \A u \in Tabs : ~ Operating(u)
          /\ k \in {"open", "close"} => env \in {None, b}
          /\ k \in {"open", "close", "cancel", "delete"}
      BY <2>1, <2>3 DEF ByTheRules, Operating, Operates
    <3>3. \A c \in Batches : Settled(c)
      BY <2>1, <3>2 DEF Orderly
    <3>4. env' = env /\ batch' = batch
      BY <2>1 DEF Begin
    <3>5. Between(t)'
      BY <3>1, <3>2, <3>3, <3>4 DEF Between, Settled, Free
    <3>6. Operating(t)' /\ \A u \in Tabs : Operating(u)' => u = t
      BY <2>3, <3>1, <3>2 DEF Operating, Idle, Job, Pc
    <3>7. \A c \in Batches : Settled(c)'
      BY <3>3, <3>4 DEF Settled
    <3> QED
      BY <3>1, <3>2, <3>5, <3>6, <3>7 DEF Orderly
  <2> QED
    BY <2>2, <2>3
<1>5. ASSUME NEW t \in Importers, SendImport(t) PROVE Orderly'
  <2>1. /\ t \in Tabs /\ asked[t] \in Batches /\ Begin(t, "import", asked[t])
        /\ "import" \in Kinds /\ calm' = calm /\ ~ Operates("import")
    BY <1>5, TabsAssumption DEF SendImport, Shape, Modal, Kinds, Operates
  <2> QED
    BY <1>3, <2>1
<1>6. ASSUME NEW t \in Tabs, Reply(t) \/ JobLost(t) PROVE Orderly'
  <2>1. /\ calm /\ env' = env /\ batch' = batch
        /\ job'[t] = Idle /\ \A u \in Tabs \ {t} : job'[u] = job[u]
    BY <1>6 DEF Reply, JobLost, Shape
  <2>2. Operating(t) => job[t].b \in Batches /\ Settled(job[t].b)
    <3>1. CASE JobLost(t)
      BY <3>1 DEF JobLost, Operating
    <3>2. CASE Reply(t) /\ Operating(t)
      <4>1. job[t].pc \in {"reply", "summary"} /\ Between(t)
        BY <2>1, <3>2 DEF Reply, Orderly
      <4>2. Settled(job[t].b)
        BY <4>1 DEF Between
      <4> QED
        BY <3>2, <4>2, OperatingJob
    <3> QED
      BY <1>6, <3>1, <3>2
  <2>3. \A u \in Tabs : Operating(u)' => u # t /\ Operating(u) /\ job'[u] = job[u]
    BY <2>1 DEF Operating
  <2>4. ASSUME NEW u \in Tabs, Operating(u)'
        PROVE  job'[u].kind \notin {"start", "stop"} /\ Between(u)'
    <3>1. job'[u] = job[u] /\ Between(u) /\ job[u].kind \notin {"start", "stop"}
      BY <2>1, <2>3, <2>4 DEF Orderly
    <3> QED
      BY <2>1, <3>1 DEF Between, Settled, Free
  <2>5. ASSUME NEW c \in Batches, \A u \in Tabs : Operating(u)' => job'[u].b # c
        PROVE  Settled(c)'
    <3>1. CASE Operating(t) /\ job[t].b = c
      BY <2>1, <2>2, <3>1 DEF Settled
    <3>2. CASE ~ (Operating(t) /\ job[t].b = c)
      <4>1. \A u \in Tabs : Operating(u) => job[u].b # c
        BY <2>1, <2>5, <3>2 DEF Operating
      <4>2. Settled(c)
        BY <2>1, <4>1 DEF Orderly
      <4> QED
        BY <2>1, <4>2 DEF Settled
    <3> QED
      BY <3>1, <3>2
  <2>6. \A u, v \in Tabs : Operating(u)' /\ Operating(v)' => u = v
    BY <2>1, <2>3 DEF Orderly
  <2> QED
    BY <2>4, <2>5, <2>6 DEF Orderly
<1>7. ASSUME NEW t \in Importers, Leave(t) PROVE Orderly'
  <2>1. t \in Tabs /\ UNCHANGED <<batch, env, calm>>
    BY <1>7, TabsAssumption DEF Leave
  <2>2. ASSUME NEW u \in Tabs
        PROVE  \/ job'[u] = job[u]
               \/ /\ job[u] # Idle /\ job'[u] \in Job /\ job'[u].kind = job[u].kind
                  /\ job'[u].b = job[u].b /\ job'[u].pc = job[u].pc
    <3>1. CASE job[t] = Idle \/ u # t
      BY <1>7, <2>1, <3>1 DEF Leave, Shape
    <3>2. CASE job[t] # Idle /\ u = t
      <4>1. job[t] \in Job /\ job'[t] = [job[t] EXCEPT !.mounted = FALSE]
        BY <1>7, <2>1, <3>2 DEF Leave, Shape
      <4> QED
        BY <3>2, <4>1 DEF Job
    <3> QED
      BY <3>1, <3>2
  <2>3. \A u \in Tabs : Operating(u)' <=> Operating(u)
    BY <2>2 DEF Operating, Job, Idle, Pc
  <2>4. \A u \in Tabs : Operating(u) => job[u].b \in Batches
    BY OperatingJob
  <2> QED
    BY <2>1, <2>2, <2>3, <2>4, NoneOperates
<1>8. ASSUME NEW t \in Importers,
             (\E b \in Batches : OpenRoster(t, b)) \/ CloseRoster(t) \/ ClickImport(t)
      PROVE  UNCHANGED <<rows, env, job>> /\ (calm' => calm)
  BY <1>8 DEF OpenRoster, CloseRoster, ClickImport
<1>9. ASSUME NEW k \in Keys, Fetch(k) \/ Fill(k) \/ FillFails(k)
      PROVE  UNCHANGED <<rows, env, job>> /\ (calm' => calm)
  BY <1>9 DEF Fetch, Fill, FillFails
<1>10. Tick \/ UNCHANGED vars => UNCHANGED <<rows, env, job>> /\ (calm' => calm)
  BY DEF Tick, vars
<1> QED
  BY <1>1, <1>2, <1>4, <1>5, <1>6, <1>7, <1>8, <1>9, <1>10 DEF Next, Steps

-------------------------------------------------------------------------------
(* ConsoleInv holds of every page, request and cache in every state.       *)
THEOREM Invariance == Spec => []ConsoleInv
<1>1. ConsoleInv /\ [Next]_vars => ConsoleInv'
  BY ShapeStep, ListsStep, OrderlyStep DEF ConsoleInv
<1> QED
  BY Initially, <1>1, PTL DEF Spec

(* The state is well formed: rows, environment, lists with an age and a    *)
(* TTL within bounds, dialogues and actions of known batches.              *)
THEOREM TypeSafety == Spec => []TypeOK
<1>1. ConsoleInv => TypeOK
  BY DEF ConsoleInv, Shape, Lists, TypeOK, Job
<1> QED
  BY Invariance, <1>1, PTL

(* An open batch and the environment that serves it are never separated,   *)
(* as long as the operators keep to the rules.                             *)
THEOREM Environments == Spec => []EnvFollowsStatus
<1>1. ConsoleInv => EnvFollowsStatus
  BY DEF ConsoleInv, Orderly, EnvFollowsStatus, Operating, Settled
<1> QED
  BY Invariance, <1>1, PTL

(* A list outlives a change by a race with its reader at most, and no list *)
(* its query and its TTL together.                                         *)
THEOREM Freshness == Spec => []ListsAreFresh
<1>1. ConsoleInv => ListsAreFresh
  BY DEF ConsoleInv, Lists, Cached, ListsAreFresh
<1> QED
  BY Invariance, <1>1, PTL

(* Only a reply puts the summary of an import in the wrong place.          *)
THEOREM Labels == Spec => ResultsAreLabelled
<1> DEFINE Kept == \A t \in Tabs : Misplaced(t)' => Misplaced(t) \/ job[t].pc \in {"summary", "reply"}
<1>1. ConsoleInv /\ [Next]_vars => [Kept]_vars
  <2> SUFFICES ASSUME Shape, Next, NEW t \in Tabs, Misplaced(t)',
                      job[t].pc \notin {"summary", "reply"}
               PROVE  Misplaced(t)
    BY DEF ConsoleInv
  <2> USE DEF rows, redis, tab
  <2>1. CASE modal'[t] = modal[t] /\ result'[t] = result[t]
    BY <2>1 DEF Misplaced
  <2>2. ASSUME NEW u \in Importers, NEW b \in Batches, OpenRoster(u, b)
        PROVE  Misplaced(t)
    BY <2>2, TabsAssumption DEF OpenRoster, Misplaced, Shape
  <2>3. ASSUME NEW u \in Importers, CloseRoster(u) \/ Leave(u)
        PROVE  Misplaced(t)
    BY <2>3, TabsAssumption DEF CloseRoster, Leave, DropResult, Misplaced, Shape
  <2>4. ASSUME NEW u \in Tabs, Reply(u)
        PROVE  Misplaced(t)
    BY <2>4 DEF Reply, Misplaced, Shape
  <2>5. ASSUME NEW u \in Tabs, Steps(u) \/ JobLost(u)
        PROVE  modal' = modal /\ result' = result
    BY <2>5 DEF Steps, Write, LookDelete, WriteDelete, LookCancel, Provision, Teardown,
                Invalidate, InvalidateFails, Import, JobLost
  <2>6. ASSUME NEW u \in Importers, ClickImport(u) \/ SendImport(u)
        PROVE  modal' = modal /\ result' = result
    BY <2>6 DEF ClickImport, SendImport, Begin
  <2>7. ASSUME NEW u \in Operators, NEW k \in Kinds, NEW b \in Batches, Click(u, k, b)
        PROVE  modal' = modal /\ result' = result
    BY <2>7 DEF Click, Begin
  <2>8. ASSUME NEW k \in Keys, Fetch(k) \/ Fill(k) \/ FillFails(k)
        PROVE  modal' = modal /\ result' = result
    BY <2>8 DEF Fetch, Fill, FillFails
  <2>9. Tick => modal' = modal /\ result' = result
    BY DEF Tick
  <2> QED
    BY <2>1, <2>2, <2>3, <2>4, <2>5, <2>6, <2>7, <2>8, <2>9 DEF Next, Steps
<1> QED
  BY Invariance, <1>1, PTL DEF Spec, ResultsAreLabelled
===============================================================================
