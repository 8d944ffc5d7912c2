---------------------------- MODULE AttemptRecord ----------------------------
(***************************************************************************)
(* What the rows of exam.attempts promise, whoever writes them and in      *)
(* whatever order: an attempt that has ended stays as it ended, its        *)
(* deadline moves only while it is live, and no deadline gives more time   *)
(* than a whole exam and the minutes that operators have granted.          *)
(*                                                                         *)
(* A start writes a deadline that was read before its transaction, so it   *)
(* may be an earlier one; a seat counts the time from then.                *)
(***************************************************************************)
EXTENDS Naturals

CONSTANTS Attempt, Full, None

VARIABLES
  now,       \* the server's clock
  status, deadline,
  granted    \* minutes operators have added, to whomever

vars == <<now, status, deadline, granted>>

Init ==
  /\ now = 0 /\ granted = 0
  /\ status = [a \in Attempt |-> "ready"]
  /\ deadline = [a \in Attempt |-> None]

Live(a) == status[a] \in {"ready", "running"}
Limit == now + Full + granted

Start(a) ==
  /\ Live(a)
  /\ status' = [status EXCEPT ![a] = "running"]
  /\ \E d \in 0 .. Limit : deadline' = [deadline EXCEPT ![a] = d]
  /\ UNCHANGED <<now, granted>>

Seat(a) ==
  /\ Live(a)
  /\ deadline' = [deadline EXCEPT ![a] = now + Full]
  /\ UNCHANGED <<now, status, granted>>

Extend(a) ==
  /\ Live(a)
  /\ deadline' = [deadline EXCEPT ![a] = 1 + (IF @ # None /\ @ > now THEN @ ELSE now)]
  /\ granted' = granted + 1
  /\ UNCHANGED <<now, status>>

Submit(a) ==
  /\ Live(a)
  /\ status' = [status EXCEPT ![a] = "submitted"]
  /\ UNCHANGED <<now, deadline, granted>>

Void(a) ==
  /\ status[a] # "submitted"
  /\ status' = [status EXCEPT ![a] = "void"]
  /\ UNCHANGED <<now, deadline, granted>>

Tick == now' = now + 1 /\ UNCHANGED <<status, deadline, granted>>

Next ==
  \/ \E a \in Attempt : Start(a) \/ Seat(a) \/ Extend(a) \/ Submit(a) \/ Void(a)
  \/ Tick

Spec == Init /\ [][Next]_vars
==============================================================================
