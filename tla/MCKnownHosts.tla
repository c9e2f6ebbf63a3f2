---------------------------- MODULE MCKnownHosts ----------------------------
(***************************************************************************)
(* KnownHosts with three runs and two keys; lines may lack their newline.  *)
(***************************************************************************)
EXTENDS KnownHosts

CONSTANTS r1, r2, r3, k1, k2

ThreeRuns == {r1, r2, r3}
TwoKeys == {k1, k2}
Either == BOOLEAN
=============================================================================
