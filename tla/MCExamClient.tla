----------------------------- MODULE MCExamClient -----------------------------
(* One tab of a browser whose clock is slow or fast by an instant.          *)
EXTENDS ExamClient

MCSkews == {-1, 1}
=============================================================================
