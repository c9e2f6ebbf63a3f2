---------------------------- MODULE MCAdmission ----------------------------
(***************************************************************************)
(* Admission on three clients.  They are not declared symmetric, because   *)
(* the run checks liveness.                                                *)
(***************************************************************************)
EXTENDS Admission

CONSTANTS c1, c2, c3

ThreeConns == {c1, c2, c3}
Always == {TRUE}
=============================================================================
