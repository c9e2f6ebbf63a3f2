------------------------------ MODULE ClientIP ------------------------------
(***************************************************************************)
(* internal/server/clientip.go: whom a request comes from.  A request has  *)
(* the address of its peer and the headers CF-Connecting-IP, X-Real-IP and *)
(* X-Forwarded-For.  The last one may stand on several lines, each with a  *)
(* list.  Addresses are abstract; a value that net.ParseIP does not        *)
(* understand is Junk.  With an empty list of proxies none is in Trusted,  *)
(* which the code decides up front.                                        *)
(***************************************************************************)
EXTENDS Sequences, FiniteSetsExt

CONSTANTS
    Trusted,  \* the addresses in the networks of -trusted-proxies
    Absent,   \* no such header
    Junk      \* a value that is not an address

ASSUME ProxiesAreAddresses ==
    Absent # Junk /\ Absent \notin Trusted /\ Junk \notin Trusted

ParseIP(value) == IF value = Junk THEN Absent ELSE value

\* The places of a list at which there is an address, and one of no proxy.
Known(xff) == {i \in DOMAIN xff : ParseIP(xff[i]) # Absent}
Untrusted(xff) == {i \in Known(xff) : xff[i] \notin Trusted}

\* Mutant: the list is scanned from the client's end.
XffClientIP_Leftmost(xff) ==
    IF Untrusted(xff) # {} THEN xff[Min(Untrusted(xff))]
    ELSE IF Known(xff) # {} THEN xff[Min(Known(xff))] ELSE Absent

\* The last address that is not a proxy's, else the first address.
XffClientIP(xff) ==
    IF Untrusted(xff) # {} THEN xff[Max(Untrusted(xff))]
    ELSE IF Known(xff) # {} THEN xff[Min(Known(xff))] ELSE Absent

Or(ip, other) == IF ip # Absent THEN ip ELSE other

\* Get of net/http reads the first line of a header and no other.
HeaderGet(lines) == IF lines = <<>> THEN <<>> ELSE Head(lines)

\* The headers of a trusted peer in their order, the peer itself otherwise.
ClientIPOf(r) ==
    IF r.peer \in Trusted
    THEN Or(ParseIP(r.cf),
            Or(ParseIP(r.realIP),
               Or(XffClientIP(HeaderGet(r.xff)), r.peer)))
    ELSE r.peer
=============================================================================
