---------------------------- MODULE TokenBucket ----------------------------
(***************************************************************************)
(* What NewRateLimiter promises: every key has a token bucket of its own,  *)
(* which fills at a steady rate up to the burst.  A bucket may be full     *)
(* before its time for one reason only: Crowd other keys have asked since  *)
(* its key did.  RateLimiter, which forgets keys, is compared with this.   *)
(***************************************************************************)
EXTENDS Integers, FiniteSets

CONSTANTS
    Keys,
    Cost,       \* what a request takes out of the bucket
    Refill,     \* what a tick of the clock puts in
    Capacity,   \* burst * Cost
    Crowd,      \* how many other keys it takes to lose one's bucket
    MaxTime     \* bound on the clock

VARIABLES
    now,
    asked,      \* when a key asked last
    bucket,
    decision

AtMost(bound, n) == IF n > bound THEN bound ELSE n

Init ==
    /\ now = 0
    /\ asked = [k \in Keys |-> 0]
    /\ bucket = [k \in Keys |-> Capacity]
    /\ decision = [key |-> "none", allowed |-> FALSE]

Tick ==
    /\ now < MaxTime
    /\ now' = now + 1
    /\ bucket' = [k \in Keys |-> AtMost(Capacity, bucket[k] + Refill)]
    /\ UNCHANGED <<asked, decision>>

\* Crowd others have asked since j did, the present request included.
CrowdedOut(j) ==
    Cardinality({i \in Keys \ {j} : asked'[i] >= asked[j]}) >= Crowd

Request(k) ==
    LET allowed == bucket[k] >= Cost
    IN  /\ decision' = [key |-> k, allowed |-> allowed]
        /\ asked' = [asked EXCEPT ![k] = now]
        /\ \E lost \in SUBSET {j \in Keys \ {k} : CrowdedOut(j)} :
             bucket' = [j \in Keys |->
                          CASE j \in lost -> Capacity
                            [] j = k /\ allowed -> bucket[k] - Cost
                            [] OTHER -> bucket[j]]
        /\ UNCHANGED now

Next == Tick \/ \E k \in Keys : Request(k)

Spec == Init /\ [][Next]_<<now, asked, bucket, decision>>
=============================================================================
