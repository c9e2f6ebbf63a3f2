---------------------------- MODULE RateLimiter ----------------------------
(***************************************************************************)
(* internal/transport/ratelimit.go: the per-IP limiter in front of         *)
(* WebSocketHandler, its bounded map of entries and the goroutine that     *)
(* sweeps it.  The limiter of an entry is golang.org/x/time/rate's: it     *)
(* keeps the tokens it had at the time of the last request it granted and  *)
(* adds what has come in since.                                            *)
(*                                                                         *)
(* Time is counted in ticks and tokens in fractions: a request costs Cost, *)
(* a tick brings Refill, so that the rate is Refill/Cost per tick.  A rate *)
(* of 0 or less, with which Allow touches nothing, is left out.            *)
(***************************************************************************)
EXTENDS Integers, FiniteSets

CONSTANTS
    Keys,         \* client IPs
    MaxEntries,   \* maxEntries
    Cost, Refill, \* a request's cost and a tick's refill, see above
    Burst,        \* in requests
    TTL,          \* idleTTL in ticks, also the period of the sweep
    MaxTime       \* bound on the clock

ASSUME KeysFinite == IsFiniteSet(Keys)
ASSUME MaxEntriesPositive == MaxEntries \in Nat \ {0}
ASSUME RatePositive ==
    /\ Cost \in Nat \ {0} /\ Refill \in Nat \ {0}
    /\ Burst \in Nat \ {0} /\ TTL \in Nat \ {0} /\ MaxTime \in Nat

VARIABLES
    now,
    entries,   \* rl.entries: a function on the keys that have one
    ticked,    \* a tick waits in the ticker's channel
    cutoff,    \* the sweep's cutoff, computed before it takes the mutex
    asked,     \* history: when each key asked last
    decision   \* history: what the last call of Allow returned, and for whom

vars == <<now, entries, ticked, cutoff, asked, decision>>

Capacity == Burst * Cost
None == -TTL - 1   \* no sweep has computed a cutoff

AtMost(bound, n) == IF n > bound THEN bound ELSE n

\* Mutant: the bucket is not capped at the burst.
Tokens_Uncapped(e) == e.tokens + Refill * (now - e.last)

\* The tokens of entry e at the present time.
Tokens(e) == AtMost(Capacity, e.tokens + Refill * (now - e.last))

\* rate.NewLimiter: a full bucket.
NewEntry == [tokens |-> Capacity, last |-> now, seen |-> now]

Keep(es, keys) == [k \in keys |-> es[k]]

\* The keys whose entry was last used before the time t.
SeenBefore(es, t) == {k \in DOMAIN es : es[k].seen < t}

\* Mutant: the comparison of the eviction is the wrong way round.
Oldest_Reversed(es) ==
    {k \in DOMAIN es : \A j \in DOMAIN es : es[k].seen >= es[j].seen}

Oldest(es) ==
    {k \in DOMAIN es : \A j \in DOMAIN es : es[k].seen <= es[j].seen}

\* evictLocked may leave these maps; which of several oldest entries goes
\* depends on the order in which Go visits the map.
Evicted(es) ==
    LET fresh == Keep(es, DOMAIN es \ SeenBefore(es, now - TTL))
    IN  IF Cardinality(DOMAIN fresh) < MaxEntries
        THEN {fresh}
        ELSE {Keep(fresh, DOMAIN fresh \ {k}) : k \in Oldest(fresh)}

Init ==
    /\ now = 0
    /\ entries = [k \in {} |-> NewEntry]
    /\ ticked = FALSE
    /\ cutoff = None
    /\ asked = [k \in Keys |-> 0]
    /\ decision = [key |-> "none", allowed |-> FALSE]

\* The clock; the ticker fires every TTL and drops what it cannot deliver.
Tick ==
    /\ now < MaxTime
    /\ now' = now + 1
    /\ ticked' = (ticked \/ now' % TTL = 0)
    /\ UNCHANGED <<entries, cutoff, asked, decision>>

\* e.limiter.Allow on the entry of k in es, and the new lastSeen.
Decide(k, es) ==
    LET allowed == Tokens(es[k]) >= Cost
        used == IF allowed
                THEN [tokens |-> Tokens(es[k]) - Cost, last |-> now, seen |-> now]
                ELSE [es[k] EXCEPT !.seen = now]
    IN  /\ entries' = [es EXCEPT ![k] = used]
        /\ asked' = [asked EXCEPT ![k] = now]
        /\ decision' = [key |-> k, allowed |-> allowed]

\* The map with a new entry for k.
WithNew(k, es) ==
    [j \in DOMAIN es \cup {k} |-> IF j = k THEN NewEntry ELSE es[j]]

\* Allow, for a key that has an entry and for one that has not.
AllowKnown(k) ==
    /\ k \in DOMAIN entries
    /\ Decide(k, entries)
    /\ UNCHANGED <<now, ticked, cutoff>>

\* Mutant: room is made one entry too late.
AllowNew_OffByOne(k) ==
    /\ k \notin DOMAIN entries
    /\ \E room \in IF Cardinality(DOMAIN entries) > MaxEntries
                   THEN Evicted(entries) ELSE {entries} :
         Decide(k, WithNew(k, room))
    /\ UNCHANGED <<now, ticked, cutoff>>

AllowNew(k) ==
    /\ k \notin DOMAIN entries
    /\ \E room \in IF Cardinality(DOMAIN entries) >= MaxEntries
                   THEN Evicted(entries) ELSE {entries} :
         Decide(k, WithNew(k, room))
    /\ UNCHANGED <<now, ticked, cutoff>>

\* sweep receives the tick and computes the cutoff before it has the mutex.
SweepBegins ==
    /\ ticked
    /\ cutoff = None
    /\ ticked' = FALSE
    /\ cutoff' = now - TTL
    /\ UNCHANGED <<now, entries, asked, decision>>

\* sweep drops the idle entries under the mutex.
SweepRuns ==
    /\ cutoff # None
    /\ entries' = Keep(entries, DOMAIN entries \ SeenBefore(entries, cutoff))
    /\ cutoff' = None
    /\ UNCHANGED <<now, ticked, asked, decision>>

Allow(k) == AllowKnown(k) \/ AllowNew(k)

Next == Tick \/ SweepBegins \/ SweepRuns \/ \E k \in Keys : Allow(k)

Spec == Init /\ [][Next]_vars

-----------------------------------------------------------------------------
(* Properties.                                                             *)

Entry == [tokens : 0..Capacity, last : 0..MaxTime, seen : 0..MaxTime]

TypeOK ==
    /\ now \in 0..MaxTime
    /\ DOMAIN entries \subseteq Keys
    /\ \A k \in DOMAIN entries : entries[k] \in Entry
    /\ ticked \in BOOLEAN
    /\ cutoff \in {None} \cup (-TTL)..MaxTime
    /\ asked \in [Keys -> 0..MaxTime]
    /\ decision \in [key : Keys \cup {"none"}, allowed : BOOLEAN]

\* "spoofed or distributed sources cannot grow it without limit"
\* (ratelimit.go:10-12).
MapBounded == Cardinality(DOMAIN entries) <= MaxEntries

\* "admitting ratePerSec requests per second per key with the given burst"
\* (ratelimit.go:36-37), although entries are forgotten: the answers are those
\* of a bucket per key that is never lost, except to MaxEntries keys that have
\* asked since (ratelimit.go:87-94).  This needs a rate that fills a bucket
\* within the idle time.
Bucket == [k \in Keys |-> IF k \in DOMAIN entries THEN Tokens(entries[k])
                                                  ELSE Capacity]
Promise == INSTANCE TokenBucket WITH bucket <- Bucket, Crowd <- MaxEntries
ImplementsTokenBucket == Promise!Spec
=============================================================================
