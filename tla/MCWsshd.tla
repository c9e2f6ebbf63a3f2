------------------------------ MODULE MCWsshd ------------------------------
(***************************************************************************)
(* The daemon with a client or two and a session or two.                   *)
(***************************************************************************)
EXTENDS Wsshd

CONSTANTS c1, c2, s1, s2, small

OneConn == {c1}
TwoConns == {c1, c2}
OneSession == {s1}
TwoSessions == {s1, s2}
OneSize == {small}
StartOnly == {"start"}
TtyAndStart == {"pty-req", "start"}
Always == {TRUE}
=============================================================================
