----------------------------- MODULE Semaphore -----------------------------
(***************************************************************************)
(* What a buffered Go channel promises when the server uses it as a        *)
(* counting semaphore: at most Cap clients hold a slot, a client takes at  *)
(* most one, and a slot that is given back was held.  server.go keeps two  *)
(* of them, handshakeSem and childrenSem; modules Admission and Session    *)
(* are shown to implement this specification for each.                     *)
(***************************************************************************)
EXTENDS Naturals, FiniteSets

CONSTANTS Clients, Cap

VARIABLE held   \* the clients that hold a slot

Init == held = {}

\* "case sem <- struct{}{}": only while fewer than Cap slots are taken.
Acquire(c) ==
    /\ c \notin held
    /\ Cardinality(held) < Cap
    /\ held' = held \cup {c}

\* "<-sem" by the client that holds the slot.
Release(c) ==
    /\ c \in held
    /\ held' = held \ {c}

Next == \E c \in Clients : Acquire(c) \/ Release(c)

Spec == Init /\ [][Next]_held
=============================================================================
