------------------------------- MODULE MCAuth -------------------------------
(***************************************************************************)
(* Auth with a client that has up to three keys.                           *)
(***************************************************************************)
EXTENDS Auth

CONSTANTS k1, k2, k3

ThreeKeys == <<k1, k2, k3>>

\* Files that list none, or one that is offered in time or too late.
SomeListings == {{}, {k2}, {k3}}
=============================================================================
