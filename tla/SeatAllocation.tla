---------------------------- MODULE SeatAllocation ----------------------------
(***************************************************************************)
(* What the exam hall promises about its seats, and nothing else: a free   *)
(* seat may be given to a student who has none, a taken seat stays with    *)
(* its student until the whole room is cleared.  In particular a seat is   *)
(* never handed from one student to another, and nobody holds two.         *)
(***************************************************************************)
CONSTANTS Student, Seat, Nobody

VARIABLE holder   \* the student at each seat, or Nobody

Init == holder = [s \in Seat |-> Nobody]

Take(a, s) ==
  /\ holder[s] = Nobody
  /\ \A t \in Seat : holder[t] # a
  /\ holder' = [holder EXCEPT ![s] = a]

ClearRoom == holder' = [s \in Seat |-> Nobody]

Next ==
  \/ \E a \in Student, s \in Seat : Take(a, s)
  \/ ClearRoom

Spec == Init /\ [][Next]_holder
===============================================================================
