------------------------------ MODULE MCShell ------------------------------
(***************************************************************************)
(* Shell on a terminal of an ordinary size and of one that has a side      *)
(* nobody has set, with commands that succeed, fail, or end with a code    *)
(* that only a Windows server can report.                                  *)
(***************************************************************************)
EXTENDS Shell

TwoSizes == {Size(24, 132), Size(0, MaxSide)}
SomeCodes == {0, 3, 255, 256}
=============================================================================
