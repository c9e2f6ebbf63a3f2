---------------------------- MODULE UpgradeLimit ----------------------------
(***************************************************************************)
(* The first lines of WebSocketHandler of internal/server/server.go: every *)
(* request is charged to the client it comes from, directly or through     *)
(* proxies, and the limiter answers.                                       *)
(*                                                                         *)
(* The outermost proxy sets the headers with a single address or removes   *)
(* them.  In X-Forwarded-For every proxy notes the address it was called   *)
(* from, in one of the two ways HTTP has: at the end of the lines that     *)
(* have come, joined into one, or on a line of its own below them.  What   *)
(* the lines hold before, the client or networks beyond the proxies have   *)
(* written: anything.                                                      *)
(***************************************************************************)
EXTENDS RateLimiter, ClientIP

CONSTANTS
    Others,    \* addresses and junk that a client's own headers may hold
    MaxOwn,    \* bound on the entries of its own list
    MaxHops    \* bound on the proxies of a path

ASSUME SendersAreAddresses == Absent \notin Keys /\ Junk \notin Keys
ASSUME AddressesAreKeys == Trusted \cup (Others \ {Junk}) \subseteq Keys
ASSUME LengthsNatural == MaxOwn \in Nat /\ MaxHops \in Nat

VARIABLE sender   \* history: who made the last request, or "forged"

allVars == <<vars, sender>>

\* The lists over the set S that are at most n long.
Lists(S, n) == UNION {[1..i -> S] : i \in 0..n}

\* The ways from sender s through trusted proxies, the outermost one first.
Paths(s) == Lists(Trusted \ {s}, MaxHops)

\* The lines a client has in X-Forwarded-For of its own, none or one (of more
\* only the first is ever read, or all are joined into one); a proxy that asks
\* for itself has none.
OwnLines(s) ==
    {<<>>} \cup (IF s \in Trusted THEN {} ELSE [{1} -> Lists(Others, MaxOwn)])

\* The request of s with its own lines, as it arrives on the path: each hop
\* notes the one before it, and the last one is the peer.  The j-th is the last
\* that joins the lines into one, j = 0 if none does.
Arrives(s, own, path, j, cf, realIP) ==
    LET hops == <<s>> \o path
        joined == IF j = 0 THEN own
                  ELSE <<HeaderGet(own) \o SubSeq(hops, 1, j)>>
        added == [i \in 1..(Len(path) - j) |-> <<hops[j + i]>>]
    IN  [peer |-> hops[Len(hops)], xff |-> joined \o added,
         cf |-> cf, realIP |-> realIP]

\* The client's own line stays in front of those of the proxies.
LineInFront(own, path, j) == own # <<>> /\ path # <<>> /\ j = 0

\* The request with what a reader of all lines would make of it: its sender,
\* but "forged" where the line that is read is one the client made up.  Without
\* a proxy nobody has looked at the headers with a single address.
Requests(s) ==
    UNION {LET Single == IF path = <<>> /\ s \notin Trusted
                         THEN Others \cup {Absent}
                         ELSE {s, Absent, Junk}
           IN  {[req |-> Arrives(s, own, path, j, cf, realIP),
                 of |-> IF LineInFront(own, path, j) THEN "forged" ELSE s] :
                   own \in OwnLines(s), j \in 0..Len(path),
                   cf \in Single, realIP \in Single} :
           path \in Paths(s)}

\* Whom the requests of s are charged to, and who is behind them.
Charged ==
    [s \in Keys |-> {[key |-> ClientIPOf(q.req), of |-> q.of] :
                        q \in Requests(s)}]

UpgradeInit == Init /\ sender = "none"

\* s asks for an upgrade.
Upgrade(s) ==
    \E c \in Charged[s] : Allow(c.key) /\ sender' = c.of

Housekeeping == (Tick \/ SweepBegins \/ SweepRuns) /\ UNCHANGED sender

UpgradeNext == Housekeeping \/ \E s \in Keys : Upgrade(s)

UpgradeSpec == UpgradeInit /\ [][UpgradeNext]_allVars

-----------------------------------------------------------------------------
(* Properties.                                                             *)

\* A request takes a token of the client it comes from, whatever path it took
\* and whatever its headers said before the first trusted proxy, unless a line
\* of the client's was left in front of those the proxies added: of several
\* lines the code reads the first (clientip.go:9-71, server.go:190-191).
ChargedIsSender == sender # "forged" => decision.key = sender
=============================================================================
