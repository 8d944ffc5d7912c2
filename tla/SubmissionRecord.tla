--------------------------- MODULE SubmissionRecord ---------------------------
(***************************************************************************)
(* What a submission promises its student, and nothing else: she hands her *)
(* work in once; what is on record afterwards is at no time less than what *)
(* she handed in, nor anything she has not written.  The record may come   *)
(* late, and may be made again from an earlier or a later capture.         *)
(***************************************************************************)
EXTENDS Naturals

VARIABLES
  work,       \* what she has written: versions that grow
  handedIn,   \* what that was when she handed it in
  record      \* what the evaluation finds

Nothing == [work |-> 0, chat |-> 0]

AtLeast(c, d) == c.work >= d.work /\ c.chat >= d.chat

Init ==
  /\ work = [work |-> 1, chat |-> 0]
  /\ handedIn = Nothing
  /\ record = Nothing

Write ==
  /\ AtLeast(work', work)
  /\ UNCHANGED <<handedIn, record>>

HandIn ==
  /\ handedIn = Nothing
  /\ handedIn' = work
  /\ UNCHANGED <<work, record>>

(* A chat on record is not taken off it again.                             *)
Store ==
  /\ handedIn # Nothing
  /\ AtLeast(record', handedIn)
  /\ AtLeast(work, record')
  /\ record.chat # 0 => record'.chat # 0
  /\ UNCHANGED <<work, handedIn>>

Next == Write \/ HandIn \/ Store

Spec == Init /\ [][Next]_<<work, handedIn, record>>
===============================================================================
