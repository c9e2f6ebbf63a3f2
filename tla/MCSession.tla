----------------------------- MODULE MCSession -----------------------------
(***************************************************************************)
(* Session on one rich session, or on a few small ones that compete for    *)
(* the slots of childrenSem.                                               *)
(***************************************************************************)
EXTENDS Session

CONSTANTS s1, s2, small, large

OneSession == {s1}
TwoSessions == {s1, s2}
TwoSizes == {small, large}
OneSize == {small}
EveryKind == {"pty-req", "window-change", "start", "malformed", "eof"}
StartOnly == {"start"}
=============================================================================
