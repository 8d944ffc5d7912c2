------------------------------ MODULE SlotsRepo ------------------------------
(***************************************************************************)
(* The statements of hosted.slots, the table that maps an attempt to the   *)
(* exam pod that serves it.  The rows of one batch are two functions over  *)
(* its slot numbers: `state` and `owner` (the attempt_id column, NULL when *)
(* nobody has the row).  Each operator is one UPDATE or SELECT and returns *)
(* the column it writes or the rows it finds; the modules that extend this *)
(* one put them into transactions.                                         *)
(***************************************************************************)
EXTENDS Naturals, FiniteSets

SlotState == {"down", "warming", "ready", "assigned", "submitting", "recycling"}

(* Nobody works in these: the pod may still be starting or be gone. *)
UnassignedState == {"down", "warming", "ready"}

(* A student's work is in the pod or being captured from its volume. *)
UsedState == {"assigned", "submitting", "recycling"}

(* hasBusySlots: the states that make provision refuse. *)
BusyState == {"assigned", "submitting"}

RowsOf(owner, a) == {s \in DOMAIN owner : owner[s] = a}

RowsIn(state, states) == {s \in DOMAIN state : state[s] \in states}

(* Mutant: a slot whose work has been packaged counts as ready again. *)
NextReusable(state) ==
  {s \in RowsIn(state, {"ready", "recycling"}) :
     \A t \in RowsIn(state, {"ready", "recycling"}) : s <= t}

(* The row "ORDER BY slot_no ... LIMIT 1" of assignReadySlotTx: empty when *)
(* no row is ready.                                                        *)
NextReady(state) ==
  {s \in RowsIn(state, {"ready"}) :
     \A t \in RowsIn(state, {"ready"}) : s <= t}

MarkSubmitting(state, owner, a) ==
  [s \in DOMAIN state |->
     IF owner[s] = a /\ state[s] = "assigned" THEN "submitting" ELSE state[s]]

(* Mutant: the attempt_id condition is forgotten. *)
MarkAllRecycling(state, owner, a) ==
  [s \in DOMAIN state |-> IF state[s] \in BusyState THEN "recycling" ELSE state[s]]

MarkRecycling(state, owner, a) ==
  [s \in DOMAIN state |->
     IF owner[s] = a /\ state[s] \in BusyState THEN "recycling" ELSE state[s]]

(* registerSlotTx on an existing row. *)
Register(state, s, initial) ==
  IF state[s] \in UnassignedState THEN [state EXCEPT ![s] = initial] ELSE state

(* syncReadySlots is two statements, so two operators. *)
SyncUp(state, live) ==
  [s \in DOMAIN state |->
     IF s \in live /\ state[s] \in {"down", "warming"} THEN "ready" ELSE state[s]]

SyncDown(state, live) ==
  [s \in DOMAIN state |->
     IF s \notin live /\ state[s] = "ready" THEN "down" ELSE state[s]]

MarkBatchDown(state) == [s \in DOMAIN state |-> "down"]
===============================================================================
