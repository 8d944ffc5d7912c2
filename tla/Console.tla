-------------------------------- MODULE Console --------------------------------
(***************************************************************************)
(* The administrators' pages.  A page stays on the screen for as long as   *)
(* its reader likes, so its buttons follow rows the database may have left *)
(* long ago; the actions behind the buttons look again for a deletion or a *)
(* cancellation and otherwise do as they are told.  One tab sends its      *)
(* actions one after the other; tabs run side by side.  The lists are read *)
(* through the cache.                                                      *)
(***************************************************************************)
EXTENDS Naturals, FiniteSets

CONSTANTS
  Batches,
  Tabs,        \* pages of administrators
  Operators,   \* tabs whose buttons are used
  Importers,   \* tabs whose roster dialogue is used; a dialogue is a tab's own
  Universities,\* each with staff that reads its own list
  TTL,         \* TTL.BATCH_STATUS in ticks
  FetchTime,   \* ticks the query behind a list takes at most
  MaxChanges,  \* batches created, deleted or given another status
  None

ASSUME NoneAssumption == None \notin Batches
ASSUME TabsAssumption == Operators \cup Importers \subseteq Tabs
ASSUME TimesAssumption == TTL \in Nat \ {0} /\ FetchTime \in Nat /\ MaxChanges \in Nat

VARIABLES
  batch,    \* the rows: status and number of students, "none" before and "deleted" after
  past,     \* the rows each batch has had: what a page may still show
  env,      \* the batch the shared exam environment was provisioned for
  changes,  \* how many changes were committed that the lists are invalidated for
  calm,     \* history: environments were opened and closed by the rules below
  cache,    \* the lists in Redis: one of all batches, one for each university
  load,     \* a list on its way from the database to the cache
  modal,    \* the roster dialogue open in each tab
  result,   \* the import whose summary each tab keeps
  asked,    \* an import clicked in each tab's dialogues and not sent yet: at most one waits
  job       \* the server action each tab waits for

rows == <<batch, past>>
redis == <<cache, load>>
tab == <<modal, result, asked>>
vars == <<rows, env, changes, calm, redis, tab, job>>

BatchStatus == {"none", "scheduled", "open", "closed", "cancelled", "deleted"}
Row == [status : BatchStatus, students : 0 .. 1]
OnScreen(b) == past[b]  \* a page was rendered at some time
Modal == Batches \cup {None}
KeyAll == "all"
Keys == {KeyAll} \cup Universities
(* A list that is behind lacks a committed change, one that lacks a change *)
(* already invalidated is stale; history late: it was then on its way.     *)
List == [behind : BOOLEAN, stale : BOOLEAN, late : BOOLEAN,
         age : 0 .. FetchTime + TTL, left : 0 .. TTL]
Behind(lists) == [k \in Keys |-> IF lists[k] = None THEN None ELSE [lists[k] EXCEPT !.behind = TRUE]]

Idle == [pc |-> "idle"]
Kinds == {"create", "start", "stop", "delete", "open", "close", "cancel", "add", "import"}

TypeOK ==
  /\ batch \in [Batches -> Row] /\ past \in [Batches -> SUBSET Row]
  /\ env \in Batches \cup {None}
  /\ changes \in 0 .. MaxChanges /\ calm \in BOOLEAN
  /\ \A k \in Keys : {cache[k], load[k]} \subseteq {None} \cup List
  /\ \A open \in {modal, result, asked} : open \in [Tabs -> Modal]
  /\ \A t \in Tabs : job[t] # Idle => job[t].kind \in Kinds /\ job[t].b \in Batches

Init ==
  /\ \E created \in SUBSET Batches :
       batch = [b \in Batches |-> [students |-> 0, status |->
                                     IF b \in created THEN "scheduled" ELSE "none"]]
  /\ past = [b \in Batches |-> {batch[b]}]
  /\ env = None /\ changes = 0 /\ calm = TRUE
  /\ cache = [k \in Keys |-> None] /\ load = [k \in Keys |-> None]
  /\ modal = [t \in Tabs |-> None] /\ result = [t \in Tabs |-> None]
  /\ asked = [t \in Tabs |-> None]
  /\ job = [t \in Tabs |-> Idle]

-----------------------------------------------------------------------------
(* Lists: cache-aside.  Redis may fail at any command: then the query is   *)
(* made although the list is there, or its result is not kept.             *)

New == [behind |-> FALSE, stale |-> FALSE, late |-> FALSE, age |-> 0, left |-> 0]

Fetch(k) ==
  /\ load[k] = None
  /\ load' = [load EXCEPT ![k] = New]
  /\ UNCHANGED <<rows, env, changes, calm, cache, tab, job>>

Fill(k) ==
  /\ load[k] # None
  /\ cache' = [cache EXCEPT ![k] = [load[k] EXCEPT !.left = TTL]]
  /\ load' = [load EXCEPT ![k] = None]
  /\ UNCHANGED <<rows, env, changes, calm, tab, job>>

FillFails(k) ==
  /\ load[k] # None
  /\ load' = [load EXCEPT ![k] = None]
  /\ UNCHANGED <<rows, env, changes, calm, cache, tab, job>>

Expires(list) == list.left = 1

Tick ==
  /\ \A k \in Keys : load[k] # None => load[k].age < FetchTime
  /\ \E k \in Keys : cache[k] # None
  /\ cache' = [k \in Keys |-> IF cache[k] = None \/ Expires(cache[k]) THEN None
                              ELSE [cache[k] EXCEPT !.left = @ - 1, !.age = @ + 1]]
  /\ load' = [k \in Keys |-> IF load[k] = None THEN None ELSE [load[k] EXCEPT !.age = @ + 1]]
  /\ UNCHANGED <<rows, env, changes, calm, tab, job>>

-----------------------------------------------------------------------------
(* Pages and buttons                                                       *)

CanHardDelete(r) == r.status = "scheduled" /\ r.students = 0

(* The buttons a page shows with a row: list, detail page, danger zone.    *)
ListButtons(r) ==
  {k \in {"create", "start", "stop", "delete"} :
     CASE k = "create" -> r.status = "none"
       [] k = "start" -> r.status = "scheduled"
       [] k = "stop" -> r.status = "open"
       [] k = "delete" -> CanHardDelete(r)}
DetailButtons(r) ==
  {k \in {"add", "open", "close"} :
     CASE k = "add" -> r.status \notin {"none", "deleted"}
       [] k = "open" -> r.status = "scheduled"
       [] k = "close" -> r.status = "open"}
DangerZone(r) ==
  IF r.status \in {"none", "cancelled", "deleted"} THEN {}
  ELSE IF CanHardDelete(r) THEN {"delete"} ELSE {"cancel"}
Offered(r) == ListButtons(r) \cup DetailButtons(r) \cup DangerZone(r)

(* Rules under which status and environment agree: the buttons of the      *)
(* batch's own page, one at a time, and one batch after the other.         *)
Operates(k) == k \in {"open", "close", "cancel", "delete", "start", "stop"}
ByTheRules(k, b) ==
  /\ k \notin {"start", "stop"}
  /\ Operates(k) => \A u \in Tabs : job[u] # Idle => ~ Operates(job[u].kind)
  /\ k \in {"open", "close"} => env \in {None, b}

(* Only these replies still have a part in the page they were sent from.   *)
OnList(k) == k \in {"create", "start", "stop", "import"}

Begin(t, k, b) ==
  /\ job[t] = Idle
  /\ job' = [job EXCEPT ![t] = [kind |-> k, b |-> b, mounted |-> OnList(k),
       pc |-> CASE k \in {"delete", "cancel"} -> "look" [] k = "open" -> "env" [] OTHER -> "write"]]
  /\ UNCHANGED <<rows, env, changes, redis, modal, result>>

Click(t, k, b) ==
  /\ modal[t] = None
  /\ \E r \in OnScreen(b) : k \in Offered(r)
  /\ Begin(t, k, b)
  /\ calm' = (calm /\ ByTheRules(k, b))
  /\ UNCHANGED asked

OpenRoster(t, b) ==
  /\ modal[t] = None
  /\ \E r \in OnScreen(b) : r.status \notin {"none", "deleted"}
  /\ modal' = [modal EXCEPT ![t] = b]
  /\ UNCHANGED <<rows, env, changes, calm, redis, result, asked, job>>

(* Mutant: closing the dialogue leaves the summary.                        *)
KeepResult(t) == result

DropResult(t) == [result EXCEPT ![t] = None]

CloseRoster(t) ==
  /\ modal[t] # None
  /\ modal' = [modal EXCEPT ![t] = None]
  /\ result' = DropResult(t)
  /\ UNCHANGED <<rows, env, changes, calm, redis, asked, job>>

(* The button stays in use while an import runs; its turn comes after.     *)
ClickImport(t) ==
  /\ modal[t] # None /\ result[t] = None /\ asked[t] = None
  /\ asked' = [asked EXCEPT ![t] = modal[t]]
  /\ UNCHANGED <<rows, env, changes, calm, redis, modal, result, job>>

SendImport(t) ==
  /\ asked[t] # None
  /\ Begin(t, "import", asked[t])
  /\ asked' = [asked EXCEPT ![t] = None]
  /\ UNCHANGED calm

(* Another page: the dialogue goes, what was not sent, and what a reply    *)
(* would have brought.                                                     *)
Leave(t) ==
  /\ modal' = [modal EXCEPT ![t] = None] /\ result' = [result EXCEPT ![t] = None]
  /\ asked' = [asked EXCEPT ![t] = None]
  /\ job' = IF job[t] = Idle THEN job ELSE [job EXCEPT ![t].mounted = FALSE]
  /\ UNCHANGED <<rows, env, changes, calm, redis>>

-----------------------------------------------------------------------------
(* Server actions                                                          *)

Goto(t, pc) == job' = [job EXCEPT ![t].pc = pc]
Doing(t, pc, kinds) == job[t].pc = pc /\ job[t].kind \in kinds

Commit ==
  /\ changes < MaxChanges
  /\ changes' = changes + 1
  /\ cache' = Behind(cache) /\ load' = Behind(load)

SetRow(b, r) ==
  /\ batch' = [batch EXCEPT ![b] = r]
  /\ past' = [past EXCEPT ![b] = @ \cup {r}]

NewStatus(k) == CASE k \in {"start", "open"} -> "open" [] k \in {"stop", "close"} -> "closed"
                  [] k = "cancel" -> "cancelled" [] k = "create" -> "scheduled"

(* create, setStatus: no condition on the status the row has.              *)
Write(t) ==
  LET r == batch[job[t].b]
  IN  /\ Doing(t, "write", Kinds \ {"add", "import", "delete"})
      /\ IF job[t].kind = "create" THEN r.status = "none" ELSE r.status # "deleted"
      /\ Commit
      /\ SetRow(job[t].b, [r EXCEPT !.status = NewStatus(job[t].kind)])
      /\ Goto(t, "invalidate")
      /\ UNCHANGED <<env, calm, tab>>

LookDelete(t) ==
  /\ Doing(t, "look", {"delete"})
  /\ Goto(t, IF CanHardDelete(batch[job[t].b]) THEN "write" ELSE "reply")
  /\ UNCHANGED <<rows, env, changes, calm, redis, tab>>

(* ON DELETE RESTRICT of attempts.                                         *)
WriteDelete(t) ==
  /\ Doing(t, "write", {"delete"}) /\ batch[job[t].b].students = 0
  /\ Commit
  /\ SetRow(job[t].b, [status |-> "deleted", students |-> 0])
  /\ Goto(t, "invalidate")
  /\ UNCHANGED <<env, calm, tab>>

(* Mutant: a cancellation sets the status alone.                           *)
TearsDownNever(r) == FALSE

TearsDown(r) == r.status = "open"

LookCancel(t) ==
  LET r == batch[job[t].b]
  IN  /\ Doing(t, "look", {"cancel"})
      /\ Goto(t, IF r.status \in {"deleted", "cancelled"} THEN "reply"
                 ELSE IF TearsDown(r) THEN "env" ELSE "write")
      /\ UNCHANGED <<rows, env, changes, calm, redis, tab>>

(* provisionBatch takes the shared environment over, or refuses before it  *)
(* touches anything, or stops half-way.                                    *)
Provision(t) ==
  /\ Doing(t, "env", {"open"})
  /\ \/ env' = job[t].b /\ Goto(t, "write") /\ UNCHANGED calm
     \/ UNCHANGED <<env, calm>> /\ Goto(t, "reply")
     \/ env' = None /\ calm' = FALSE /\ Goto(t, "reply")
  /\ UNCHANGED <<rows, changes, redis, tab>>

(* closeBatch scales the shared environment down; failures are warnings.   *)
Teardown(t) ==
  /\ Doing(t, "env", {"close", "cancel"})
  /\ \/ env' = None /\ UNCHANGED calm
     \/ UNCHANGED env /\ calm' = FALSE
  /\ Goto(t, IF job[t].kind = "cancel" THEN "write" ELSE "reply")
  /\ UNCHANGED <<rows, changes, redis, tab>>

(* Mutant: the pattern of SCAN matches no key.                             *)
Nothing == {}

Matched == Keys   \* what SCAN finds for batches:*

AfterInvalidate(t) == Goto(t, IF job[t].kind = "close" THEN "env" ELSE "reply")

(* SCAN and DEL; a list fetched before is not touched and will be set.     *)
Invalidate(t) ==
  /\ job[t].pc = "invalidate"
  /\ cache' = [k \in Keys |-> IF k \in Matched \/ cache[k] = None THEN None
                              ELSE [cache[k] EXCEPT !.stale = @ \/ cache[k].behind]]
  /\ load' = [k \in Keys |-> IF load[k] = None THEN None
                             ELSE [load[k] EXCEPT !.stale = @ \/ load[k].behind,
                                                  !.late = @ \/ load[k].behind]]
  /\ AfterInvalidate(t)
  /\ UNCHANGED <<rows, env, changes, calm, tab>>

InvalidateFails(t) ==
  /\ job[t].pc = "invalidate"
  /\ AfterInvalidate(t)
  /\ UNCHANGED <<rows, env, changes, calm, redis, tab>>

(* importRoster leaves the lists alone.                                    *)
Import(t) ==
  /\ Doing(t, "write", {"add", "import"})
  /\ batch[job[t].b].status # "deleted"
  /\ SetRow(job[t].b, [batch[job[t].b] EXCEPT !.students = 1])
  /\ Goto(t, IF job[t].kind = "import" THEN "summary" ELSE "reply")
  /\ UNCHANGED <<env, changes, calm, redis, tab>>

(* The roster dialogue gets the summary of an import it may not belong to; *)
(* a batch created, started or stopped closes whatever dialogue is open.   *)
Reply(t) ==
  LET here == t \in Importers /\ job[t].mounted
  IN  /\ job[t].pc \in {"reply", "summary"}
      /\ result' = IF here /\ job[t].pc = "summary" THEN [result EXCEPT ![t] = job[t].b] ELSE result
      /\ modal' = IF here /\ job[t].kind \in {"create", "start", "stop"}
                  THEN [modal EXCEPT ![t] = None] ELSE modal
      /\ job' = [job EXCEPT ![t] = Idle]
      /\ UNCHANGED <<rows, env, changes, calm, redis, asked>>

(* An error, or the process or the connection dies.                        *)
JobLost(t) ==
  /\ job[t] # Idle
  /\ job' = [job EXCEPT ![t] = Idle]
  /\ calm' = (calm /\ ~ Operates(job[t].kind))
  /\ UNCHANGED <<rows, env, changes, redis, tab>>

Next ==
  \/ \E k \in Keys : Fetch(k) \/ Fill(k) \/ FillFails(k)
  \/ Tick
  \/ \E t \in Operators, k \in Kinds, b \in Batches : Click(t, k, b)
  \/ \E t \in Tabs :
       \/ Write(t) \/ LookDelete(t) \/ WriteDelete(t) \/ LookCancel(t)
       \/ Provision(t) \/ Teardown(t) \/ Invalidate(t) \/ InvalidateFails(t)
       \/ Import(t) \/ Reply(t) \/ JobLost(t)
  \/ \E t \in Importers :
       \/ \E b \in Batches : OpenRoster(t, b)
       \/ CloseRoster(t) \/ ClickImport(t) \/ SendImport(t) \/ Leave(t)

Spec == Init /\ [][Next]_vars

-----------------------------------------------------------------------------
(* As long as operators keep to the rules and nothing stops half-way, a    *)
(* batch is open exactly when the environment is its own, however old the  *)
(* pages are they click on: no student waits for a pod that never comes,   *)
(* no pod outlives its batch.                                              *)
(* (openBatchEnvAction, closeBatchEnvAction, cancelBatchAction)            *)
EnvFollowsStatus ==
  calm /\ (\A t \in Tabs : job[t] = Idle \/ ~ Operates(job[t].kind)) =>
    \A b \in Batches : batch[b].status = "open" <=> env = b

(* A list lacks a change that was invalidated only when its reader had     *)
(* queried before and set it afterwards, and no list is older than a query *)
(* and the TTL together.  (cacheService getOrSet, invalidate)              *)
ListsAreFresh ==
  \A k \in Keys : cache[k] # None =>
    /\ cache[k].stale => cache[k].late
    /\ cache[k].age + cache[k].left <= TTL + FetchTime

(* A summary with temporary passwords gets under another batch's title, or *)
(* lies in wait for whatever dialogue opens next, by no click of the       *)
(* reader's: only a reply does that, which brings it when its dialogue is  *)
(* gone, or closes the dialogue as the reply to another button.            *)
(* (AdminBatchesClient)                                                    *)
Misplaced(t) == result[t] # None /\ modal[t] # result[t]
ResultsAreLabelled ==
  [][\A t \in Tabs : Misplaced(t)' => Misplaced(t) \/ job[t].pc \in {"summary", "reply"}]_vars
=============================================================================
