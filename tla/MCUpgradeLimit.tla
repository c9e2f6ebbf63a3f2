--------------------------- MODULE MCUpgradeLimit ---------------------------
(***************************************************************************)
(* UpgradeLimit with two clients, two proxies that also ask for            *)
(* themselves, and a short clock.  Nothing tells the clients apart, nor    *)
(* the proxies.                                                            *)
(***************************************************************************)
EXTENDS UpgradeLimit, TLC

CONSTANTS c1, c2, p1, p2

TwoProxies == {p1, p2}
AllKeys == {c1, c2} \cup TwoProxies
AnyOthers == AllKeys \cup {Junk}

Alike == Permutations({c1, c2}) \cup Permutations(TwoProxies)
=============================================================================
