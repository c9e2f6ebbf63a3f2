------------------------ MODULE UpgradeLimitProofs -------------------------
(***************************************************************************)
(* Proofs about RateLimiter, for any number of keys and entries, any rate  *)
(* and any burst: the map is bounded, and where the rate fills a bucket    *)
(* within the idle time the limiter that forgets implements TokenBucket.   *)
(* Then about UpgradeLimit, for any number of proxies: a request is        *)
(* charged to its sender if the line that is read tells who that is, and   *)
(* the limiter behind it keeps its promises.                               *)
(***************************************************************************)
EXTENDS UpgradeLimit, TLAPS, FiniteSetTheorems, SequenceTheorems

\* An entry is about the last request of its key.
Times ==
    \A k \in DOMAIN entries :
        /\ entries[k].seen = asked[k]
        /\ entries[k].last <= entries[k].seen /\ entries[k].seen <= now

\* The sweep may be late, which makes its cutoff only earlier.
CutoffPast == cutoff # None => cutoff <= now - TTL

IInv == TypeOK /\ MapBounded /\ Times /\ CutoffPast

\* An entry that may be dropped as idle is full.
IdleFills == Refill * TTL >= Capacity

-----------------------------------------------------------------------------
(* Arithmetic.                                                             *)

\* A product of natural numbers is one.
LEMMA ProductNat == ASSUME NEW a \in Nat, NEW b \in Nat PROVE a * b \in Nat
OBVIOUS

\* A product grows with its second factor.
LEMMA ProductGrows ==
    ASSUME NEW a \in Nat, NEW b \in Int, NEW c \in Int, b <= c
    PROVE  a * b <= a * c
OBVIOUS

\* A bucket holds at least one request.
LEMMA CapacityNatural == Capacity \in Nat /\ Cost <= Capacity
BY RatePositive, ProductNat, ProductGrows DEF Capacity

\* The tokens of an entry are within the bucket.
LEMMA TokensInBucket ==
    ASSUME now \in Nat, NEW e \in Entry, e.last <= now
    PROVE  Tokens(e) \in 0..Capacity
<1>1. e.tokens \in 0..Capacity /\ now - e.last \in Nat
  BY DEF Entry
<1>2. Refill * (now - e.last) \in Nat
  BY <1>1, RatePositive, ProductNat
<1> HIDE DEF Capacity
<1> QED BY <1>1, <1>2, CapacityNatural DEF Tokens, AtMost

\* A new entry is full.
LEMMA NewEntryFull ==
    ASSUME now \in 0..MaxTime
    PROVE  NewEntry \in Entry /\ NewEntry.last = now /\ Tokens(NewEntry) = Capacity
<1>1. NewEntry = [tokens |-> Capacity, last |-> now, seen |-> now]
  BY DEF NewEntry
<1>2. Refill * (now - now) = 0
  BY RatePositive
<1> QED BY <1>1, <1>2, CapacityNatural DEF Entry, Tokens, AtMost

\* An entry that was idle is full.
LEMMA IdleIsFull ==
    ASSUME IdleFills, now \in Nat, NEW e \in Entry,
           e.last <= e.seen, e.seen < now - TTL
    PROVE  Tokens(e) = Capacity
<1>1. e.tokens \in Nat /\ e.last \in Nat /\ e.seen \in Nat
  BY CapacityNatural DEF Entry
<1>2. TTL <= now - e.last
  BY <1>1, RatePositive
<1>3. Refill * TTL <= Refill * (now - e.last)
  BY <1>1, <1>2, RatePositive, ProductGrows
<1>4. Refill * TTL \in Nat /\ Refill * (now - e.last) \in Nat
  BY <1>1, <1>2, RatePositive, ProductNat
<1> HIDE DEF Capacity
<1> QED BY <1>1, <1>3, <1>4, CapacityNatural DEF IdleFills, Tokens, AtMost

\* It makes no difference whether a bucket overflows before it is refilled.
LEMMA BrimKept ==
    ASSUME NEW cap \in Nat, NEW n \in Nat, NEW r \in Nat
    PROVE  AtMost(cap, n + r) = AtMost(cap, AtMost(cap, n) + r)
BY DEF AtMost

\* A tick brings a bucket its refill, up to the brim.
LEMMA TickRefills ==
    ASSUME now \in Nat, NEW e \in Entry, e.last <= now,
           NEW next \in Nat, next = now + 1
    PROVE  AtMost(Capacity, e.tokens + Refill * (next - e.last))
             = AtMost(Capacity, Tokens(e) + Refill)
<1>1. e.tokens \in Nat /\ e.last \in Nat /\ Refill \in Nat
  BY CapacityNatural, RatePositive DEF Entry
<1>2. Refill * (next - e.last) = Refill * (now - e.last) + Refill
  <2>1. next - e.last = (now - e.last) + 1 /\ now - e.last \in Nat
    BY <1>1
  <2>2. \A a, b \in Nat : a * (b + 1) = a * b + a
    OBVIOUS
  <2> QED BY <1>1, <2>1, <2>2
<1>3. Refill * (now - e.last) \in Nat
  BY <1>1, ProductNat
<1>4. /\ e.tokens + Refill * (now - e.last) \in Nat
      /\ e.tokens + Refill * (next - e.last)
           = (e.tokens + Refill * (now - e.last)) + Refill
  BY <1>1, <1>2, <1>3
<1> QED BY <1>1, <1>4, CapacityNatural, BrimKept DEF Tokens

-----------------------------------------------------------------------------
(* What a call of Allow does.                                              *)

\* The entry that answers gives a token if it has one, and remembers when.
LEMMA DecideEffect ==
    ASSUME now \in 0..MaxTime, NEW k \in Keys, NEW es, k \in DOMAIN es,
           es[k] \in Entry, es[k].last <= now, Decide(k, es)
    PROVE  /\ DOMAIN entries' = DOMAIN es
           /\ \A j \in DOMAIN es \ {k} : entries'[j] = es[j]
           /\ entries'[k] \in Entry
           /\ entries'[k].seen = now /\ entries'[k].last <= now
           /\ AtMost(Capacity,
                     entries'[k].tokens + Refill * (now - entries'[k].last))
                = IF Tokens(es[k]) >= Cost THEN Tokens(es[k]) - Cost
                                           ELSE Tokens(es[k])
           /\ asked' = [asked EXCEPT ![k] = now]
           /\ decision' = [key |-> k, allowed |-> Tokens(es[k]) >= Cost]
<1> HIDE DEF Capacity
<1>1. Tokens(es[k]) \in 0..Capacity /\ Cost \in Nat /\ Capacity \in Nat
  BY TokensInBucket, RatePositive, CapacityNatural
<1>2. CASE Tokens(es[k]) >= Cost
  <2>1. entries' = [es EXCEPT ![k] = [tokens |-> Tokens(es[k]) - Cost,
                                      last |-> now, seen |-> now]]
    BY <1>2 DEF Decide
  <2>2. entries'[k] = [tokens |-> Tokens(es[k]) - Cost, last |-> now, seen |-> now]
    BY <2>1
  <2>3. Refill * (now - now) = 0
    BY RatePositive
  <2>4. /\ asked' = [asked EXCEPT ![k] = now]
        /\ decision' = [key |-> k, allowed |-> Tokens(es[k]) >= Cost]
    BY DEF Decide
  <2>5. entries'[k] \in Entry
    BY <1>1, <1>2, <2>2 DEF Entry
  <2>6. AtMost(Capacity, entries'[k].tokens + Refill * (now - entries'[k].last))
          = Tokens(es[k]) - Cost
    BY <1>1, <1>2, <2>2, <2>3 DEF AtMost
  <2> QED BY <1>2, <2>1, <2>2, <2>4, <2>5, <2>6
<1>3. CASE ~(Tokens(es[k]) >= Cost)
  <2>1. entries' = [es EXCEPT ![k] = [es[k] EXCEPT !.seen = now]]
    BY <1>3 DEF Decide
  <2>2. /\ entries'[k] = [es[k] EXCEPT !.seen = now]
        /\ entries'[k].tokens = es[k].tokens /\ entries'[k].last = es[k].last
        /\ entries'[k].seen = now /\ entries'[k] \in Entry
    BY <2>1 DEF Entry
  <2>3. /\ asked' = [asked EXCEPT ![k] = now]
        /\ decision' = [key |-> k, allowed |-> Tokens(es[k]) >= Cost]
    BY DEF Decide
  <2>4. AtMost(Capacity, entries'[k].tokens + Refill * (now - entries'[k].last))
          = Tokens(es[k])
    BY <2>2 DEF Tokens
  <2> QED BY <1>3, <2>1, <2>2, <2>3, <2>4
<1> QED BY <1>2, <1>3

\* The maps that may be left to take a new key.
Rooms == IF Cardinality(DOMAIN entries) >= MaxEntries
         THEN Evicted(entries) ELSE {entries}

\* How many other entries were used at or after j's.
Younger(j) == {i \in DOMAIN entries \ {j} : entries[i].seen >= entries[j].seen}

\* There is room, and who had to go was idle or had all others ask since.
LEMMA RoomIsMade ==
    ASSUME IInv, NEW room \in Rooms
    PROVE  /\ DOMAIN room \subseteq DOMAIN entries
           /\ \A j \in DOMAIN room : room[j] = entries[j]
           /\ IsFiniteSet(DOMAIN room) /\ Cardinality(DOMAIN room) < MaxEntries
           /\ \A j \in DOMAIN entries \ DOMAIN room :
                \/ entries[j].seen < now - TTL
                \/ Cardinality(Younger(j)) >= MaxEntries - 1
<1>1. IsFiniteSet(DOMAIN entries) /\ Cardinality(DOMAIN entries) \in Nat
  BY KeysFinite, FS_Subset, FS_CardinalityType DEF IInv, TypeOK
<1>2. CASE room = entries /\ Cardinality(DOMAIN entries) < MaxEntries
  BY <1>1, <1>2
<1>3. CASE room \in Evicted(entries)
  <2> DEFINE F == DOMAIN entries \ SeenBefore(entries, now - TTL)
             fresh == Keep(entries, F)
  <2>1. /\ F \subseteq DOMAIN entries /\ DOMAIN fresh = F
        /\ \A j \in F : fresh[j] = entries[j]
        /\ \A j \in DOMAIN entries \ F : entries[j].seen < now - TTL
    BY DEF Keep, SeenBefore
  <2>2. IsFiniteSet(F) /\ Cardinality(F) \in Nat
        /\ Cardinality(F) <= Cardinality(DOMAIN entries)
    BY <1>1, <2>1, FS_Subset, FS_CardinalityType
  <2>3. CASE Cardinality(F) < MaxEntries
    <3>1. room = fresh
      BY <1>3, <2>1, <2>3 DEF Evicted
    <3> HIDE DEF F, fresh
    <3> QED BY <2>1, <2>2, <2>3, <3>1
  <2>4. CASE ~(Cardinality(F) < MaxEntries)
    <3>1. PICK k \in Oldest(fresh) : room = Keep(fresh, F \ {k})
      BY <1>3, <2>1, <2>4 DEF Evicted
    <3>2. /\ k \in F /\ \A j \in F : entries[k].seen <= entries[j].seen
          /\ DOMAIN room = F \ {k} /\ \A j \in F \ {k} : room[j] = entries[j]
      BY <2>1, <3>1 DEF Oldest, Keep
    <3>3. IsFiniteSet(F \ {k}) /\ Cardinality(F \ {k}) = Cardinality(F) - 1
      BY <2>2, <3>2, FS_RemoveElement
    <3> HIDE DEF F, fresh
    <3>4. Cardinality(F \ {k}) < MaxEntries /\ Cardinality(F \ {k}) >= MaxEntries - 1
      BY <1>1, <2>2, <2>4, <3>3, MaxEntriesPositive DEF IInv, MapBounded
    <3>5. \A j \in DOMAIN entries : entries[j].seen \in Int
      BY DEF IInv, TypeOK, Entry
    <3>6. F \ {k} \subseteq Younger(k)
      BY <2>1, <3>2, <3>5 DEF Younger
    <3>7. IsFiniteSet(Younger(k)) /\ Cardinality(Younger(k)) \in Nat
      BY <1>1, FS_Subset, FS_CardinalityType DEF Younger
    <3>8. Cardinality(F \ {k}) <= Cardinality(Younger(k))
      BY <3>6, <3>7, FS_Subset
    <3>9. Cardinality(Younger(k)) >= MaxEntries - 1
      BY <2>2, <3>3, <3>4, <3>7, <3>8, MaxEntriesPositive
    <3> QED BY <2>1, <3>2, <3>3, <3>4, <3>9
  <2> QED BY <2>3, <2>4
<1> QED BY <1>1, <1>2, <1>3, MaxEntriesPositive DEF Rooms

-----------------------------------------------------------------------------
(* The invariant.                                                          *)

\* The initial state satisfies the invariant.
LEMMA InitInvariant == Init => IInv
<1> SUFFICES ASSUME Init PROVE IInv
  OBVIOUS
<1>1. DOMAIN entries = {} /\ Cardinality({}) = 0
  BY FS_EmptySet DEF Init
<1>2. TypeOK
  <2>1. now \in 0..MaxTime /\ asked \in [Keys -> 0..MaxTime]
    BY RatePositive DEF Init
  <2>2. decision \in [key : Keys \cup {"none"}, allowed : BOOLEAN]
    BY DEF Init
  <2>3. DOMAIN entries \subseteq Keys /\ \A k \in DOMAIN entries : entries[k] \in Entry
    BY <1>1
  <2>4. ticked \in BOOLEAN /\ cutoff \in {None} \cup (-TTL)..MaxTime
    BY DEF Init
  <2> QED BY <2>1, <2>2, <2>3, <2>4 DEF TypeOK
<1>3. Times /\ CutoffPast
  BY <1>1 DEF Init, Times, CutoffPast
<1>4. MapBounded
  BY <1>1, MaxEntriesPositive DEF MapBounded
<1> QED BY <1>2, <1>3, <1>4 DEF IInv

\* The clock and the sweep.
LEMMA HousekeepingKeepsInvariant ==
    ASSUME IInv, Tick \/ SweepBegins \/ SweepRuns
    PROVE  IInv'
<1>1. CASE Tick
  <2>1. now' = now + 1 /\ now' \in 0..MaxTime /\ now \in Nat /\ ticked' \in BOOLEAN
        /\ UNCHANGED <<entries, cutoff, asked, decision>>
    BY <1>1, RatePositive DEF Tick, IInv, TypeOK
  <2>2. TypeOK' /\ MapBounded'
    BY <2>1 DEF IInv, TypeOK, MapBounded
  <2>3. Times'
    BY <2>1 DEF IInv, TypeOK, Times, Entry
  <2>4. CutoffPast'
    BY <2>1, RatePositive DEF IInv, TypeOK, CutoffPast, None
  <2> QED BY <2>2, <2>3, <2>4 DEF IInv
<1>2. CASE SweepBegins
  <2>1. /\ ticked' = FALSE /\ cutoff' = now - TTL
        /\ UNCHANGED <<now, entries, asked, decision>>
    BY <1>2 DEF SweepBegins
  <2>2. cutoff' \in (-TTL)..MaxTime
    BY <2>1, RatePositive DEF IInv, TypeOK
  <2>3. TypeOK' /\ MapBounded' /\ Times'
    BY <2>1, <2>2 DEF IInv, TypeOK, MapBounded, Times
  <2>4. CutoffPast'
    BY <2>1, RatePositive DEF IInv, TypeOK, CutoffPast
  <2> QED BY <2>3, <2>4 DEF IInv
<1>3. CASE SweepRuns
  <2>1. /\ DOMAIN entries' \subseteq DOMAIN entries
        /\ \A k \in DOMAIN entries' : entries'[k] = entries[k]
        /\ cutoff' = None /\ UNCHANGED <<now, ticked, asked, decision>>
    BY <1>3 DEF SweepRuns, Keep
  <2>2. TypeOK' /\ Times' /\ CutoffPast'
    BY <2>1 DEF IInv, TypeOK, Times, CutoffPast
  <2>3. IsFiniteSet(DOMAIN entries) /\ Cardinality(DOMAIN entries) \in Nat
    BY KeysFinite, FS_Subset, FS_CardinalityType DEF IInv, TypeOK
  <2>4. Cardinality(DOMAIN entries') \in Nat
        /\ Cardinality(DOMAIN entries') <= Cardinality(DOMAIN entries)
    BY <2>1, <2>3, FS_Subset, FS_CardinalityType
  <2>5. MapBounded'
    BY <2>3, <2>4, MaxEntriesPositive DEF IInv, MapBounded
  <2> QED BY <2>2, <2>5 DEF IInv
<1> QED BY <1>1, <1>2, <1>3

\* A decision on a map of entries that may be keeps the invariant.
LEMMA DecisionKeepsInvariant ==
    ASSUME IInv, NEW k \in Keys, NEW es, k \in DOMAIN es, DOMAIN es \subseteq Keys,
           Cardinality(DOMAIN es) <= MaxEntries,
           \A j \in DOMAIN es \ {k} : j \in DOMAIN entries /\ es[j] = entries[j],
           es[k] \in Entry, es[k].last <= now,
           Decide(k, es), UNCHANGED <<now, ticked, cutoff>>
    PROVE  IInv'
<1>1. now \in 0..MaxTime
  BY DEF IInv, TypeOK
<1>2. /\ DOMAIN entries' = DOMAIN es
      /\ \A j \in DOMAIN es \ {k} : entries'[j] = es[j]
      /\ entries'[k] \in Entry
      /\ entries'[k].seen = now /\ entries'[k].last <= now
      /\ asked' = [asked EXCEPT ![k] = now]
      /\ decision' = [key |-> k, allowed |-> Tokens(es[k]) >= Cost]
  BY <1>1, DecideEffect
<1>3. \A j \in DOMAIN entries' \ {k} :
        j \in DOMAIN entries /\ entries'[j] = entries[j] /\ asked'[j] = asked[j]
  BY <1>2 DEF IInv, TypeOK
<1>4. asked'[k] = now /\ asked' \in [Keys -> 0..MaxTime]
  BY <1>1, <1>2 DEF IInv, TypeOK
<1>5. (Tokens(es[k]) >= Cost) \in BOOLEAN
  OBVIOUS
<1>6. decision' \in [key : Keys \cup {"none"}, allowed : BOOLEAN]
  BY <1>2, <1>5
<1>7. TypeOK'
  BY <1>2, <1>3, <1>4, <1>6 DEF IInv, TypeOK
<1>8. MapBounded' /\ CutoffPast'
  BY <1>2 DEF IInv, MapBounded, CutoffPast
<1>9. Times'
  BY <1>1, <1>2, <1>3, <1>4 DEF IInv, Times
<1> QED BY <1>7, <1>8, <1>9 DEF IInv

\* The map of Allow for a new key, once there is room.
LEMMA NewKeyFits ==
    ASSUME IInv, NEW k \in Keys \ DOMAIN entries, NEW room \in Rooms
    PROVE  LET es == WithNew(k, room)
           IN  /\ DOMAIN es = DOMAIN room \cup {k} /\ k \notin DOMAIN room
               /\ Cardinality(DOMAIN es) <= MaxEntries
               /\ \A j \in DOMAIN room : es[j] = entries[j]
               /\ es[k] = NewEntry
<1>1. /\ DOMAIN room \subseteq DOMAIN entries
      /\ \A j \in DOMAIN room : room[j] = entries[j]
      /\ IsFiniteSet(DOMAIN room) /\ Cardinality(DOMAIN room) < MaxEntries
  BY RoomIsMade
<1>2. Cardinality(DOMAIN room \cup {k}) = Cardinality(DOMAIN room) + 1
      /\ Cardinality(DOMAIN room) \in Nat
  BY <1>1, FS_AddElement, FS_CardinalityType
<1>3. Cardinality(DOMAIN room \cup {k}) <= MaxEntries
  BY <1>1, <1>2, MaxEntriesPositive
<1> QED BY <1>1, <1>3 DEF WithNew

\* Allow keeps the invariant, whether it knows the key or makes room for it.
LEMMA AllowKeepsInvariant ==
    ASSUME IInv, NEW k \in Keys, Allow(k)
    PROVE  IInv'
<1>1. CASE AllowKnown(k)
  <2>1. entries[k] \in Entry /\ entries[k].last <= now
    BY <1>1 DEF AllowKnown, IInv, TypeOK, Times, Entry
  <2> QED
    BY <1>1, <2>1, DecisionKeepsInvariant DEF AllowKnown, IInv, TypeOK, MapBounded
<1>2. CASE AllowNew(k)
  <2>1. PICK room \in Rooms : Decide(k, WithNew(k, room))
    BY <1>2 DEF AllowNew, Rooms
  <2>2. k \notin DOMAIN entries /\ UNCHANGED <<now, ticked, cutoff>>
    BY <1>2 DEF AllowNew
  <2>3. NewEntry \in Entry /\ NewEntry.last <= now
    BY NewEntryFull DEF IInv, TypeOK
  <2> DEFINE es == WithNew(k, room)
  <2>4. /\ DOMAIN es = DOMAIN room \cup {k} /\ es[k] = NewEntry
        /\ Cardinality(DOMAIN es) <= MaxEntries
        /\ \A j \in DOMAIN room : es[j] = entries[j]
    BY <2>2, NewKeyFits
  <2>5. DOMAIN room \subseteq DOMAIN entries /\ DOMAIN entries \subseteq Keys
    BY RoomIsMade DEF IInv, TypeOK
  <2>6. Decide(k, es)
    BY <2>1
  <2> HIDE DEF es
  <2> QED BY <2>2, <2>3, <2>4, <2>5, <2>6, DecisionKeepsInvariant
<1> QED BY <1>1, <1>2 DEF Allow

\* Every step keeps the invariant.
LEMMA NextInvariant == IInv /\ [Next]_vars => IInv'
<1> SUFFICES ASSUME IInv, [Next]_vars PROVE IInv'
  OBVIOUS
<1>1. CASE UNCHANGED vars
  BY <1>1 DEF vars, IInv, TypeOK, MapBounded, Times, CutoffPast
<1>2. CASE Next
  BY <1>2, HousekeepingKeepsInvariant, AllowKeepsInvariant DEF Next
<1> QED BY <1>1, <1>2

\* The inductive invariant holds in every reachable state.
THEOREM Invariant == Spec => []IInv
BY InitInvariant, NextInvariant, PTL DEF Spec

\* The variables have their types: no bucket overflows or is overdrawn.
THEOREM TypeCorrect == Spec => []TypeOK
<1>1. IInv => TypeOK
  BY DEF IInv
<1> QED BY <1>1, Invariant, PTL

\* The map never has more than maxEntries entries (ratelimit.go:10-12).
THEOREM MapIsBounded == Spec => []MapBounded
<1>1. IInv => MapBounded
  BY DEF IInv
<1> QED BY <1>1, Invariant, PTL

-----------------------------------------------------------------------------
(* The limiter implements a bucket per key.                                *)

\* A key that has no entry has a full bucket.
LEMMA BucketOf ==
    \A k \in Keys : Bucket[k] = IF k \in DOMAIN entries THEN Tokens(entries[k])
                                                       ELSE Capacity
BY DEF Bucket

\* TokenBucket counts as RateLimiter does.
LEMMA SameCardinality == \A S : Promise!Cardinality(S) = Cardinality(S)
BY Zenon DEF Promise!Cardinality, Cardinality

\* A tick of the limiter is a tick of the buckets.
LEMMA TickRefines ==
    ASSUME IInv, Tick
    PROVE  Promise!Tick
<1>1. /\ now < MaxTime /\ now' = now + 1 /\ now \in Nat
      /\ UNCHANGED <<entries, asked, decision>>
  BY DEF Tick, IInv, TypeOK
<1>2. ASSUME NEW k \in Keys
      PROVE  (IF k \in DOMAIN entries' THEN Tokens(entries[k])' ELSE Capacity)
               = AtMost(Capacity, Bucket[k] + Refill)
  <2>1. CASE k \in DOMAIN entries
    <3>1. entries[k] \in Entry /\ entries[k].last <= now
      BY <2>1 DEF IInv, TypeOK, Times, Entry
    <3>2. Tokens(entries[k])'
            = AtMost(Capacity, entries'[k].tokens + Refill * (now' - entries'[k].last))
      BY Zenon DEF Tokens
    <3>3. AtMost(Capacity, entries[k].tokens + Refill * (now' - entries[k].last))
            = AtMost(Capacity, Tokens(entries[k]) + Refill)
      BY <1>1, <3>1, TickRefills
    <3>4. entries' = entries
      BY <1>1
    <3> QED BY <2>1, <3>2, <3>3, <3>4, BucketOf
  <2>2. CASE k \notin DOMAIN entries
    <3>1. AtMost(Capacity, Capacity + Refill) = Capacity
      BY CapacityNatural, RatePositive DEF AtMost
    <3> QED BY <1>1, <2>2, <3>1, BucketOf
  <2> QED BY <2>1, <2>2
<1>3. Bucket' = [k \in Keys |-> AtMost(Capacity, Bucket[k] + Refill)]
  BY <1>2 DEF Bucket
<1> QED BY <1>1, <1>3 DEF Promise!Tick, Promise!AtMost, AtMost

\* The sweep takes only what is full.
LEMMA SweepRefines ==
    ASSUME IdleFills, IInv, SweepBegins \/ SweepRuns
    PROVE  UNCHANGED <<now, asked, Bucket, decision>>
<1>1. CASE SweepBegins
  BY <1>1 DEF SweepBegins, Bucket, Tokens
<1>2. CASE SweepRuns
  <2>1. /\ cutoff # None
        /\ entries' = Keep(entries, DOMAIN entries \ SeenBefore(entries, cutoff))
        /\ UNCHANGED <<now, asked, decision>>
    BY <1>2 DEF SweepRuns
  <2>2. /\ DOMAIN entries' = DOMAIN entries \ SeenBefore(entries, cutoff)
        /\ \A k \in DOMAIN entries' : entries'[k] = entries[k]
    BY <2>1 DEF Keep
  <2>3. ASSUME NEW k \in DOMAIN entries, k \notin DOMAIN entries'
        PROVE  Tokens(entries[k]) = Capacity
    <3>1. entries[k].seen < cutoff
      BY <2>2, <2>3 DEF SeenBefore
    <3>2. /\ entries[k] \in Entry /\ entries[k].last <= entries[k].seen
          /\ cutoff <= now - TTL /\ cutoff \in Int /\ now \in Nat
          /\ entries[k].seen \in Int
      BY <2>1, RatePositive
         DEF IInv, TypeOK, Times, CutoffPast, Entry, None
    <3>3. entries[k].seen < now - TTL
      BY <3>1, <3>2, RatePositive
    <3> QED BY <3>2, <3>3, IdleIsFull
  <2>4. \A k \in DOMAIN entries' : Tokens(entries[k])' = Tokens(entries[k])
    BY <2>1, <2>2 DEF Tokens
  <2>5. \A k \in Keys :
          (IF k \in DOMAIN entries' THEN Tokens(entries[k])' ELSE Capacity)
            = (IF k \in DOMAIN entries THEN Tokens(entries[k]) ELSE Capacity)
    BY <2>2, <2>3, <2>4
  <2>6. Bucket' = Bucket
    BY <2>5 DEF Bucket
  <2> QED BY <2>1, <2>6
<1> QED BY <1>1, <1>2

\* A decision on a map that has lost only entries that were full, or that others
\* have crowded out, is a request to the buckets.
LEMMA DecisionRefines ==
    ASSUME IInv, NEW k \in Keys, NEW es, k \in DOMAIN es, DOMAIN es \subseteq Keys,
           \A j \in DOMAIN es \ {k} : j \in DOMAIN entries /\ es[j] = entries[j],
           es[k] \in Entry, es[k].last <= now, Tokens(es[k]) = Bucket[k],
           \A j \in DOMAIN entries \ DOMAIN es :
              \/ Tokens(entries[j]) = Capacity
              \/ Cardinality(Younger(j)) >= MaxEntries - 1,
           k \in DOMAIN entries => DOMAIN es = DOMAIN entries,
           Decide(k, es), UNCHANGED now
    PROVE  Promise!Request(k)
<1>1. now \in 0..MaxTime
  BY DEF IInv, TypeOK
<1>2. /\ DOMAIN entries' = DOMAIN es
      /\ \A j \in DOMAIN es \ {k} : entries'[j] = es[j]
      /\ AtMost(Capacity, entries'[k].tokens + Refill * (now - entries'[k].last))
           = IF Tokens(es[k]) >= Cost THEN Tokens(es[k]) - Cost ELSE Tokens(es[k])
      /\ asked' = [asked EXCEPT ![k] = now]
      /\ decision' = [key |-> k, allowed |-> Tokens(es[k]) >= Cost]
  BY <1>1, DecideEffect
<1> DEFINE lost == {j \in DOMAIN entries \ DOMAIN es : Tokens(entries[j]) # Capacity}
<1>3. ASSUME NEW j \in lost
      PROVE  j \in Keys \ {k} /\ Promise!CrowdedOut(j)
  <2>1. j \in Keys \ {k} /\ j \in DOMAIN entries /\ k \notin DOMAIN entries
        /\ Cardinality(Younger(j)) >= MaxEntries - 1
    BY <1>3 DEF IInv, TypeOK
  <2> DEFINE C == {i \in Keys \ {j} : asked'[i] >= asked[j]}
  <2>2. Younger(j) \cup {k} \subseteq C
    <3>1. ASSUME NEW i \in Younger(j)
          PROVE  i \in Keys \ {j} /\ asked'[i] >= asked[j]
      <4>1. /\ i \in DOMAIN entries /\ i # j /\ i # k /\ i \in Keys
            /\ entries[i].seen >= entries[j].seen
        BY <2>1 DEF Younger, IInv, TypeOK
      <4>2. asked'[i] = asked[i]
        BY <1>2, <4>1 DEF IInv, TypeOK
      <4> QED BY <2>1, <4>1, <4>2 DEF IInv, Times
    <3>2. asked'[k] = now /\ entries[j].seen <= now /\ asked[j] = entries[j].seen
      BY <1>2, <2>1 DEF IInv, TypeOK, Times
    <3>3. asked[j] \in Int /\ now \in Int
      BY <2>1 DEF IInv, TypeOK
    <3> QED BY <2>1, <3>1, <3>2, <3>3
  <2>3. IsFiniteSet(C) /\ IsFiniteSet(Younger(j))
    BY KeysFinite, FS_Subset DEF Younger, IInv, TypeOK
  <2>4. k \notin Younger(j)
    BY <2>1 DEF Younger
  <2>5. Cardinality(Younger(j) \cup {k}) = Cardinality(Younger(j)) + 1
        /\ Cardinality(Younger(j)) \in Nat
    BY <2>3, <2>4, FS_AddElement, FS_CardinalityType
  <2>6. Cardinality(Younger(j) \cup {k}) <= Cardinality(C) /\ Cardinality(C) \in Nat
    BY <2>2, <2>3, FS_Subset, FS_CardinalityType
  <2> HIDE DEF C
  <2>7. Cardinality(C) >= MaxEntries
    BY <2>1, <2>5, <2>6, MaxEntriesPositive
  <2>8. Promise!CrowdedOut(j)
    BY <2>7, SameCardinality DEF C, Promise!CrowdedOut
  <2> QED BY <2>1, <2>8
<1>4. ASSUME NEW j \in Keys
      PROVE  (IF j \in DOMAIN entries' THEN Tokens(entries[j])' ELSE Capacity)
               = CASE j \in lost -> Capacity
                   [] j = k /\ Bucket[k] >= Cost -> Bucket[k] - Cost
                   [] OTHER -> Bucket[j]
  <2>1. CASE j = k
    <3>1. j \in DOMAIN entries' /\ j \notin lost
      BY <1>2, <2>1
    <3>2. Tokens(entries[j])'
            = IF Bucket[k] >= Cost THEN Bucket[k] - Cost ELSE Bucket[k]
      BY <1>2, <2>1 DEF Tokens
    <3> HIDE DEF lost
    <3> QED BY <2>1, <3>1, <3>2
  <2>2. CASE j # k /\ j \in DOMAIN es
    <3>1. Tokens(entries[j])' = Tokens(entries[j]) /\ j \in DOMAIN entries
      BY <1>2, <2>2 DEF Tokens
    <3>2. j \notin lost
      BY <2>2
    <3> HIDE DEF lost
    <3> QED BY <1>2, <2>2, <3>1, <3>2, BucketOf
  <2>3. CASE j # k /\ j \notin DOMAIN es
    <3>1. Bucket[j] = Capacity \/ j \in lost
      BY <2>3, BucketOf
    <3> HIDE DEF lost
    <3> QED BY <1>2, <2>3, <3>1
  <2> QED BY <2>1, <2>2, <2>3
<1>5. Bucket' = [j \in Keys |->
                   CASE j \in lost -> Capacity
                     [] j = k /\ Bucket[k] >= Cost -> Bucket[k] - Cost
                     [] OTHER -> Bucket[j]]
  BY <1>4 DEF Bucket
<1>6. lost \in SUBSET {j \in Keys \ {k} : Promise!CrowdedOut(j)}
  BY <1>3
<1> HIDE DEF lost
<1> QED BY <1>2, <1>5, <1>6 DEF Promise!Request

\* A call of Allow is a request to the buckets.
LEMMA AllowRefines ==
    ASSUME IdleFills, IInv, NEW k \in Keys, Allow(k)
    PROVE  Promise!Request(k)
<1>1. CASE AllowKnown(k)
  <2>1. /\ k \in DOMAIN entries /\ Decide(k, entries) /\ UNCHANGED now
        /\ DOMAIN entries \subseteq Keys
        /\ entries[k] \in Entry /\ entries[k].last <= now
    BY <1>1 DEF AllowKnown, IInv, TypeOK, Times, Entry
  <2>2. Tokens(entries[k]) = Bucket[k]
    BY <2>1, BucketOf
  <2> QED BY <2>1, <2>2, DecisionRefines
<1>2. CASE AllowNew(k)
  <2>1. PICK room \in Rooms : Decide(k, WithNew(k, room))
    BY <1>2 DEF AllowNew, Rooms
  <2>2. k \notin DOMAIN entries /\ UNCHANGED now /\ now \in 0..MaxTime
    BY <1>2 DEF AllowNew, IInv, TypeOK
  <2>3. NewEntry \in Entry /\ NewEntry.last <= now /\ Tokens(NewEntry) = Bucket[k]
    BY <2>2, NewEntryFull, BucketOf DEF IInv, TypeOK
  <2> DEFINE es == WithNew(k, room)
  <2>4. /\ DOMAIN es = DOMAIN room \cup {k} /\ es[k] = NewEntry
        /\ \A j \in DOMAIN room : es[j] = entries[j]
    BY <2>2, NewKeyFits
  <2>5. /\ DOMAIN room \subseteq DOMAIN entries /\ DOMAIN entries \subseteq Keys
        /\ \A j \in DOMAIN entries \ DOMAIN room :
             \/ entries[j].seen < now - TTL
             \/ Cardinality(Younger(j)) >= MaxEntries - 1
    BY RoomIsMade DEF IInv, TypeOK
  <2>6. Decide(k, es)
    BY <2>1
  <2> HIDE DEF es
  <2>7. ASSUME NEW j \in DOMAIN entries \ DOMAIN es
        PROVE  \/ Tokens(entries[j]) = Capacity
               \/ Cardinality(Younger(j)) >= MaxEntries - 1
    <3>1. \/ entries[j].seen < now - TTL
          \/ Cardinality(Younger(j)) >= MaxEntries - 1
      BY <2>4, <2>5, <2>7
    <3>2. entries[j] \in Entry /\ entries[j].last <= entries[j].seen /\ now \in Nat
      BY <2>7 DEF IInv, TypeOK, Times
    <3> QED BY <3>1, <3>2, IdleIsFull
  <2> QED BY <2>2, <2>3, <2>4, <2>5, <2>6, <2>7, DecisionRefines
<1> QED BY <1>1, <1>2 DEF Allow

\* Where the rate fills a bucket within the idle time, the answers are those of
\* a bucket per key that only MaxEntries other askers can take away
\* (ratelimit.go:36-37, 87-94).
THEOREM RefinesTokenBucket ==
    ASSUME IdleFills
    PROVE  Spec => ImplementsTokenBucket
<1>1. Init => Promise!Init
  <2> SUFFICES ASSUME Init PROVE Promise!Init
    OBVIOUS
  <2>1. Bucket = [k \in Keys |-> Capacity]
    BY DEF Init, Bucket
  <2> QED BY <2>1 DEF Init, Promise!Init
<1>2. IInv /\ [Next]_vars => [Promise!Next]_<<now, asked, Bucket, decision>>
  <2> SUFFICES ASSUME IInv, [Next]_vars
               PROVE  [Promise!Next]_<<now, asked, Bucket, decision>>
    OBVIOUS
  <2>1. CASE UNCHANGED vars
    BY <2>1 DEF vars, Bucket, Tokens
  <2>2. CASE Tick
    BY <2>2, TickRefines DEF Promise!Next
  <2>3. CASE SweepBegins \/ SweepRuns
    BY <2>3, SweepRefines
  <2>4. ASSUME NEW k \in Keys, Allow(k)
        PROVE  Promise!Next
    BY <2>4, AllowRefines DEF Promise!Next
  <2> QED BY <2>1, <2>2, <2>3, <2>4 DEF Next
<1> QED BY <1>1, <1>2, Invariant, PTL DEF Spec, ImplementsTokenBucket, Promise!Spec

-----------------------------------------------------------------------------
(* Whom a request is charged to.                                           *)

\* A set of natural numbers has a least one.
LEMMA LeastNat ==
    ASSUME NEW S \in SUBSET Nat, S # {}
    PROVE  \E n \in S : \A m \in S : n <= m
<1> DEFINE Less == {ss \in Nat \X Nat : ss[1] < ss[2]}
<1>1. IsWellFoundedOn(Less, Nat)
  BY NatLessThanWellFounded DEF OpToRel
<1>2. \A m \in Nat, n \in Nat : m < n => <<m, n>> \in Less
  OBVIOUS
<1> HIDE DEF Less
<1>3. PICK n \in S : \A m \in S : ~(<<m, n>> \in Less)
  BY <1>1, WFMin
<1>4. ASSUME NEW m \in S PROVE n <= m
  <2>1. m \in Nat /\ n \in Nat /\ ~(<<m, n>> \in Less)
    BY <1>3
  <2>2. ~(m < n)
    BY <1>2, <2>1
  <2> QED BY <2>1, <2>2
<1> QED BY <1>4

\* And a greatest one, if it is bounded.
LEMMA GreatestNat ==
    ASSUME NEW b \in Nat, NEW S \in SUBSET (0..b), S # {}
    PROVE  \E n \in S : \A m \in S : m <= n
<1> DEFINE Below == {b - i : i \in S}
<1>1. Below \in SUBSET Nat /\ Below # {}
  <2>1. \A i \in S : b - i \in Nat
    OBVIOUS
  <2>2. Below \in SUBSET Nat
    BY <2>1
  <2>3. PICK i \in S : TRUE
    OBVIOUS
  <2>4. b - i \in Below
    OBVIOUS
  <2> QED BY <2>2, <2>4
<1>2. PICK d \in Below : \A e \in Below : d <= e
  BY <1>1, LeastNat
<1>3. PICK n \in S : d = b - n
  OBVIOUS
<1>4. ASSUME NEW m \in S PROVE m <= n
  BY <1>2, <1>3
<1> QED BY <1>4

\* What is at least as large as every member is the maximum.
LEMMA MaxIs ==
    ASSUME NEW S \in SUBSET Int, NEW n \in S, \A i \in S : i <= n
    PROVE  Max(S) = n
<1>1. \A x \in S : (\A y \in S : x >= y) <=> x = n
  OBVIOUS
<1>2. (CHOOSE x \in S : \A y \in S : x >= y) = CHOOSE x \in S : x = n
  BY <1>1, Zenon
<1> QED BY <1>2, Zenon DEF Max

\* What is at most as large as every member is the minimum.
LEMMA MinIs ==
    ASSUME NEW S \in SUBSET Int, NEW n \in S, \A i \in S : n <= i
    PROVE  Min(S) = n
<1>1. \A x \in S : (\A y \in S : x =< y) <=> x = n
  OBVIOUS
<1>2. (CHOOSE x \in S : \A y \in S : x =< y) = CHOOSE x \in S : x = n
  BY <1>1, Zenon
<1> QED BY <1>2, Zenon DEF Min

\* The last address of a list that is not a proxy's, whatever is before it.
LEMMA LastUntrusted ==
    ASSUME NEW V, NEW xff \in Seq(V), NEW n \in DOMAIN xff,
           xff[n] \notin Trusted, xff[n] # Absent, xff[n] # Junk,
           \A i \in DOMAIN xff : i > n => xff[i] \in Trusted
    PROVE  XffClientIP(xff) = xff[n]
<1>1. n \in Untrusted(xff)
  BY DEF Untrusted, Known, ParseIP
<1>2. \A i \in Untrusted(xff) : i <= n
  BY DEF Untrusted, Known
<1>3. Untrusted(xff) \in SUBSET Int
  BY DEF Untrusted, Known
<1>4. Max(Untrusted(xff)) = n
  BY <1>1, <1>2, <1>3, MaxIs
<1> QED BY <1>1, <1>4 DEF XffClientIP

\* A list of nothing but proxies stands for its first.
LEMMA FirstProxy ==
    ASSUME NEW V, NEW xff \in Seq(V), 1 \in DOMAIN xff,
           \A i \in DOMAIN xff : xff[i] \in Trusted
    PROVE  XffClientIP(xff) = xff[1]
<1>1. Untrusted(xff) = {}
  BY DEF Untrusted, Known
<1>2. 1 \in Known(xff)
  BY ProxiesAreAddresses DEF Known, ParseIP
<1>3. \A i \in Known(xff) : 1 <= i
  BY DEF Known
<1>4. Known(xff) \in SUBSET Int
  BY DEF Known
<1>5. Min(Known(xff)) = 1
  BY <1>2, <1>3, <1>4, MinIs
<1> QED BY <1>1, <1>2, <1>5 DEF XffClientIP

\* What stands for a list is in it, or nobody does.
LEMMA FromTheList ==
    ASSUME NEW V, NEW xff \in Seq(V)
    PROVE  XffClientIP(xff) \in (V \ {Junk}) \cup {Absent}
<1>1. /\ Known(xff) \in SUBSET (0..Len(xff)) /\ Len(xff) \in Nat
      /\ Untrusted(xff) \in SUBSET Known(xff)
  BY DEF Known, Untrusted
<1>2. \A i \in Known(xff) : xff[i] \in V \ {Junk}
  BY DEF Known, ParseIP
<1>3. CASE Untrusted(xff) # {}
  <2>1. PICK n \in Untrusted(xff) : \A i \in Untrusted(xff) : i <= n
    BY <1>1, <1>3, GreatestNat
  <2>2. Max(Untrusted(xff)) = n
    BY <1>1, <2>1, MaxIs
  <2> QED BY <1>1, <1>2, <1>3, <2>2 DEF XffClientIP
<1>4. CASE Untrusted(xff) = {} /\ Known(xff) # {}
  <2>1. PICK n \in Known(xff) : \A i \in Known(xff) : n <= i
    BY <1>1, <1>4, LeastNat
  <2>2. Min(Known(xff)) = n
    BY <1>1, <2>1, MinIs
  <2> QED BY <1>2, <1>4, <2>2 DEF XffClientIP
<1>5. CASE Untrusted(xff) = {} /\ Known(xff) = {}
  BY <1>5 DEF XffClientIP
<1> QED BY <1>3, <1>4, <1>5

\* An empty list stands for nobody.
LEMMA EmptyList == XffClientIP(<<>>) = Absent
BY DEF XffClientIP, Untrusted, Known

\* A client's own lines are none or one.
LEMMA OwnLine ==
    ASSUME NEW s, NEW own \in OwnLines(s)
    PROVE  /\ HeaderGet(own) \in Seq(Others)
           /\ own = <<>> => HeaderGet(own) = <<>>
           /\ own # <<>> => Len(own) = 1 /\ own[1] = HeaderGet(own)
           /\ own \in Seq(Seq(Others))
           /\ s \in Trusted => own = <<>>
<1>1. Lists(Others, MaxOwn) \in SUBSET Seq(Others)
  BY LengthsNatural DEF Lists
<1>2. CASE own = <<>>
  BY <1>2 DEF HeaderGet
<1>3. CASE own # <<>>
  <2>1. own \in [1..1 -> Lists(Others, MaxOwn)] /\ s \notin Trusted
    <3>1. {1} = 1..1
      OBVIOUS
    <3> QED BY <1>3, <3>1 DEF OwnLines
  <2>2. own \in Seq(Seq(Others)) /\ Len(own) = 1 /\ own[1] \in Seq(Others)
    <3>1. own \in [1..1 -> Seq(Others)]
      BY <1>1, <2>1
    <3>2. own \in UNION {[1..n -> Seq(Others)] : n \in Nat}
      BY <3>1
    <3>3. own \in Seq(Seq(Others))
      BY <3>2, SeqDef, Zenon
    <3>4. Len(own) = 1
      <4>1. Len(own) \in Nat /\ DOMAIN own = 1..Len(own)
        BY <3>3, LenProperties
      <4> QED BY <3>1, <4>1
    <3> QED BY <3>1, <3>3, <3>4
  <2>3. HeaderGet(own) = own[1]
    BY <1>3, <2>2 DEF HeaderGet
  <2> QED BY <1>3, <2>1, <2>2, <2>3
<1> QED BY <1>2, <1>3

\* The first of the lines that come one after the other.
LEMMA FirstLine ==
    ASSUME NEW V, NEW a \in Seq(V), NEW b \in Seq(V)
    PROVE  HeaderGet(a \o b) = IF a = <<>> THEN HeaderGet(b) ELSE a[1]
<1>1. CASE a = <<>>
  BY <1>1, ConcatEmptySeq
<1>2. CASE a # <<>>
  <2>1. Len(a) \in Nat \ {0} /\ Len(b) \in Nat
    BY <1>2, EmptySeq, LenProperties
  <2>2. /\ a \o b \in Seq(V) /\ Len(a \o b) = Len(a) + Len(b)
        /\ (a \o b)[1] = a[1]
    BY <2>1, ConcatProperties
  <2>3. a \o b # <<>> /\ Head(a \o b) = (a \o b)[1]
    BY <2>1, <2>2
  <2> QED BY <1>2, <2>2, <2>3 DEF HeaderGet
<1> QED BY <1>1, <1>2

\* The peer of a request r of s and the line of it that is read.
Arrived(s, own, path, j, r) ==
    LET line == HeaderGet(r.xff)
        n == Len(HeaderGet(own)) + 1
    IN  /\ path = <<>> => r.peer = s /\ line = HeaderGet(own)
        /\ path # <<>> => r.peer \in Trusted
        /\ LineInFront(own, path, j) => line = HeaderGet(own)
        /\ path # <<>> /\ ~LineInFront(own, path, j) =>
             /\ line \in Seq(Others \cup Trusted \cup {s})
             /\ n \in DOMAIN line /\ line[n] = s
             /\ \A i \in DOMAIN line : i > n => line[i] \in Trusted

\* Unless a line of its own is in front, there stands after what the client has
\* written the sender, and then proxies only.
LEMMA Arrival ==
    ASSUME NEW s, NEW own \in OwnLines(s), NEW path \in Seq(Trusted),
           NEW j \in 0..Len(path), NEW cf, NEW realIP
    PROVE  Arrived(s, own, path, j, Arrives(s, own, path, j, cf, realIP))
<1> DEFINE hops == <<s>> \o path
           V == Others \cup Trusted \cup {s}
           front == SubSeq(hops, 1, j)
           line == HeaderGet(own) \o front
           joined == IF j = 0 THEN own ELSE <<line>>
           added == [i \in 1..(Len(path) - j) |-> <<hops[j + i]>>]
           r == Arrives(s, own, path, j, cf, realIP)
<1> SUFFICES Arrived(s, own, path, j, r)
  OBVIOUS
<1>1. /\ hops \in Seq(V) /\ Len(hops) = Len(path) + 1 /\ hops[1] = s
      /\ \A i \in 2..Len(hops) : hops[i] \in Trusted
  OBVIOUS
<1>2. r.peer = hops[Len(hops)] /\ r.xff = joined \o added
  BY DEF Arrives
<1>3. front \in Seq(V) /\ Len(front) = j /\ \A i \in 1..j : front[i] = hops[i]
  BY <1>1
<1>4. /\ HeaderGet(own) \in Seq(V) /\ own \in Seq(Seq(V))
      /\ Len(HeaderGet(own)) \in Nat
      /\ own = <<>> => HeaderGet(own) = <<>>
      /\ own # <<>> => Len(own) = 1 /\ own[1] = HeaderGet(own)
  BY OwnLine
<1>5. /\ line \in Seq(V) /\ Len(line) = Len(HeaderGet(own)) + j
      /\ \A i \in 1..j : line[Len(HeaderGet(own)) + i] = hops[i]
  <2>1. /\ line \in Seq(V) /\ Len(line) = Len(HeaderGet(own)) + j
        /\ \A i \in 1..Len(HeaderGet(own)) + j :
             line[i] = IF i <= Len(HeaderGet(own)) THEN HeaderGet(own)[i]
                       ELSE front[i - Len(HeaderGet(own))]
    BY <1>3, <1>4, ConcatProperties
  <2> HIDE DEF line, front, hops
  <2>2. ASSUME NEW i \in 1..j
        PROVE  line[Len(HeaderGet(own)) + i] = hops[i]
    <3>1. /\ Len(HeaderGet(own)) + i \in 1..Len(HeaderGet(own)) + j
          /\ ~(Len(HeaderGet(own)) + i <= Len(HeaderGet(own)))
          /\ (Len(HeaderGet(own)) + i) - Len(HeaderGet(own)) = i
      BY <1>4
    <3>2. line[Len(HeaderGet(own)) + i] = front[i]
      BY <2>1, <3>1
    <3> QED BY <1>3, <3>2
  <2> QED BY <2>1, <2>2
<1>6. /\ added \in Seq(Seq(V)) /\ Len(added) = Len(path) - j
      /\ path # <<>> /\ j = 0 => added # <<>> /\ added[1] = <<s>>
      /\ path = <<>> => added = <<>>
  BY <1>1
<1>7. path = <<>> => r.peer = s
  BY <1>1, <1>2
<1>8. path # <<>> => r.peer \in Trusted
  BY <1>1, <1>2
<1> HIDE DEF line, front, hops, added, r, V
<1>9. joined \in Seq(Seq(V))
  BY <1>4, <1>5
<1>10. HeaderGet(r.xff) = IF joined = <<>> THEN HeaderGet(added) ELSE joined[1]
  <2> HIDE DEF joined
  <2>1. r.xff = joined \o added
    BY <1>2
  <2>2. added \in Seq(Seq(V))
    BY <1>6
  <2> QED BY <1>9, <2>1, <2>2, FirstLine
<1>11. CASE j > 0
  <2>1. HeaderGet(r.xff) = line
    BY <1>10, <1>11
  <2>2. path # <<>> /\ ~LineInFront(own, path, j)
    BY <1>11 DEF LineInFront
  <2>3. /\ Len(HeaderGet(own)) + 1 \in DOMAIN line
        /\ line[Len(HeaderGet(own)) + 1] = s
    BY <1>1, <1>4, <1>5, <1>11
  <2>4. ASSUME NEW i \in DOMAIN line, i > Len(HeaderGet(own)) + 1
        PROVE  line[i] \in Trusted
    <3> DEFINE n == i - Len(HeaderGet(own))
    <3>1. n \in 2..j /\ n \in 2..Len(hops) /\ i = Len(HeaderGet(own)) + n
      <4>1. i \in 1..(Len(HeaderGet(own)) + j) /\ Len(path) \in Nat
        BY <1>5, <2>4
      <4> QED BY <1>1, <1>4, <2>4, <4>1
    <3>2. line[i] = hops[n]
      BY <1>5, <3>1
    <3> QED BY <1>1, <3>1, <3>2
  <2> QED BY <1>5, <1>8, <2>1, <2>2, <2>3, <2>4 DEF Arrived, V
<1>12. CASE j = 0 /\ own # <<>>
  <2>1. HeaderGet(r.xff) = HeaderGet(own)
    BY <1>4, <1>10, <1>12
  <2>2. path # <<>> => LineInFront(own, path, j)
    BY <1>12 DEF LineInFront
  <2> QED BY <1>7, <1>8, <2>1, <2>2 DEF Arrived
<1>13. CASE j = 0 /\ own = <<>> /\ path = <<>>
  <2>1. HeaderGet(r.xff) = HeaderGet(own)
    BY <1>6, <1>10, <1>13
  <2>2. ~LineInFront(own, path, j)
    BY <1>13 DEF LineInFront
  <2> QED BY <1>7, <1>13, <2>1, <2>2 DEF Arrived
<1>14. CASE j = 0 /\ own = <<>> /\ path # <<>>
  <2>1. HeaderGet(r.xff) = <<s>>
    <3>1. Head(added) = added[1]
      BY <1>6, <1>14
    <3> QED BY <1>6, <1>10, <1>14, <3>1 DEF HeaderGet
  <2>2. Len(HeaderGet(own)) = 0
    BY <1>4, <1>14
  <2>3. ~LineInFront(own, path, j)
    BY <1>14 DEF LineInFront
  <2> QED BY <1>8, <1>14, <2>1, <2>2, <2>3 DEF Arrived
<1> QED BY <1>11, <1>12, <1>13, <1>14

\* Every request is charged to an address, and to its sender, through any
\* number of proxies, unless a line the client made up is in front.
LEMMA ChargedToSender ==
    ASSUME NEW s \in Keys, NEW c \in Charged[s]
    PROVE  c.key \in Keys /\ (c.of = c.key \/ c.of = "forged")
<1>1. PICK path \in Paths(s), own \in OwnLines(s), j \in Int,
           cf \in Others \cup {s, Absent, Junk},
           realIP \in Others \cup {s, Absent, Junk} :
         /\ j \in 0..Len(path)
         /\ c.key = ClientIPOf(Arrives(s, own, path, j, cf, realIP))
         /\ c.of = IF LineInFront(own, path, j) THEN "forged" ELSE s
         /\ path # <<>> \/ s \in Trusted =>
              {cf, realIP} \subseteq {s, Absent, Junk}
  <2>1. PICK q \in Requests(s) : c = [key |-> ClientIPOf(q.req), of |-> q.of]
    BY DEF Charged
  <2> DEFINE Of(path, own, j) ==
               IF LineInFront(own, path, j) THEN "forged" ELSE s
             Single(path) == IF path = <<>> /\ s \notin Trusted
                             THEN Others \cup {Absent}
                             ELSE {s, Absent, Junk}
             From(path) == {[req |-> Arrives(s, own, path, j, cf, realIP),
                             of |-> Of(path, own, j)] :
                               own \in OwnLines(s), j \in 0..Len(path),
                               cf \in Single(path), realIP \in Single(path)}
  <2>2. Requests(s) = UNION {From(path) : path \in Paths(s)}
    BY DEF Requests
  <2> HIDE DEF From
  <2>3. PICK path \in Paths(s) : q \in From(path)
    BY <2>1, <2>2
  <2>4. PICK own \in OwnLines(s), j \in 0..Len(path),
             cf \in Single(path), realIP \in Single(path) :
          q = [req |-> Arrives(s, own, path, j, cf, realIP),
               of |-> Of(path, own, j)]
    BY <2>3 DEF From
  <2>5. /\ c.key = ClientIPOf(Arrives(s, own, path, j, cf, realIP))
        /\ c.of = Of(path, own, j)
    BY <2>1, <2>4
  <2>6. /\ j \in Int
        /\ cf \in Others \cup {s, Absent, Junk}
        /\ realIP \in Others \cup {s, Absent, Junk}
        /\ path # <<>> \/ s \in Trusted => {cf, realIP} \subseteq {s, Absent, Junk}
    BY <2>4
  <2> QED BY <2>4, <2>5, <2>6
<1>2. path \in Seq(Trusted)
  BY <1>1, LengthsNatural DEF Paths, Lists
<1>3. /\ HeaderGet(own) \in Seq(Others)
      /\ own = <<>> => HeaderGet(own) = <<>>
      /\ s \in Trusted => own = <<>>
  BY <1>1, OwnLine
<1> DEFINE r == Arrives(s, own, path, j, cf, realIP)
           line == HeaderGet(r.xff)
<1>4. r.cf = cf /\ r.realIP = realIP /\ Arrived(s, own, path, j, r)
  BY <1>1, <1>2, Arrival DEF Arrives
<1>5. c.key = ClientIPOf(r)
  BY <1>1
<1> HIDE DEF r
<1>6. s # Absent /\ s # Junk
  BY SendersAreAddresses
<1>7. CASE path = <<>> /\ s \notin Trusted
  BY <1>1, <1>4, <1>5, <1>7 DEF ClientIPOf, Arrived
<1>8. CASE path = <<>> /\ s \in Trusted
  <2>1. XffClientIP(line) = Absent
    BY <1>3, <1>4, <1>8, EmptyList DEF Arrived
  <2> QED BY <1>1, <1>4, <1>5, <1>6, <1>8, <2>1 DEF ClientIPOf, Or, ParseIP, Arrived
<1>9. CASE path # <<>> /\ ~LineInFront(own, path, j)
  <2>1. XffClientIP(line) = s
    <3>1. CASE s \notin Trusted
      BY <1>4, <1>6, <1>9, <3>1, LastUntrusted DEF Arrived
    <3>2. CASE s \in Trusted
      <4>1. Len(HeaderGet(own)) = 0
        BY <1>3, <3>2
      <4>2. 1 \in DOMAIN line /\ \A i \in DOMAIN line : line[i] \in Trusted
        BY <1>4, <1>9, <3>2, <4>1 DEF Arrived
      <4> QED BY <1>4, <1>9, <4>1, <4>2, FirstProxy DEF Arrived
    <3> QED BY <3>1, <3>2
  <2> QED BY <1>1, <1>4, <1>5, <1>6, <1>9, <2>1 DEF ClientIPOf, Or, ParseIP, Arrived
<1>10. CASE path # <<>> /\ LineInFront(own, path, j)
  <2>1. XffClientIP(line) \in (Others \ {Junk}) \cup {Absent}
    BY <1>3, <1>4, <1>10, FromTheList DEF Arrived
  <2>2. r.peer \in Trusted /\ {cf, realIP} \subseteq {s, Absent, Junk}
    BY <1>1, <1>4, <1>10 DEF Arrived
  <2>3. c.key \in {s, XffClientIP(line), r.peer} \ {Absent}
    BY <1>4, <1>5, <1>6, <2>2, ProxiesAreAddresses DEF ClientIPOf, Or, ParseIP
  <2> QED BY <1>1, <1>10, <2>1, <2>2, <2>3, AddressesAreKeys
<1> QED BY <1>7, <1>8, <1>9, <1>10

-----------------------------------------------------------------------------
(* The limiter behind the handler.                                         *)

\* A request asks the limiter about one client, its sender if it can be told.
LEMMA UpgradeAsksSender ==
    ASSUME NEW s \in Keys, Upgrade(s)
    PROVE  /\ \E k \in Keys : Allow(k)
           /\ sender' # "forged" => decision'.key = sender'
<1>1. PICK c \in Charged[s] : Allow(c.key) /\ sender' = c.of
  BY DEF Upgrade
<1>2. c.key \in Keys /\ (c.of = c.key \/ c.of = "forged")
  BY ChargedToSender
<1>3. ASSUME NEW es, Decide(c.key, es) PROVE decision'.key = c.key
  BY <1>3 DEF Decide
<1>4. decision'.key = c.key
  BY <1>1, <1>3 DEF Allow, AllowKnown, AllowNew
<1> QED BY <1>1, <1>2, <1>4

\* Whatever requests arrive, the limiter behaves as RateLimiter says.
THEOREM ImplementsLimiter == UpgradeSpec => Spec
<1>1. UpgradeInit => Init
  BY DEF UpgradeInit
<1>2. [UpgradeNext]_allVars => [Next]_vars
  BY UpgradeAsksSender DEF UpgradeNext, Housekeeping, Next, allVars
<1> QED BY <1>1, <1>2, PTL DEF UpgradeSpec, Spec

\* A request takes a token of the client it comes from, through any number of
\* trusted proxies and whatever its headers said before the first of them, if
\* no line of the client's was left in front of those the proxies added
\* (clientip.go:9-71, server.go:190-191).
THEOREM SenderIsCharged == UpgradeSpec => []ChargedIsSender
<1>1. UpgradeInit => ChargedIsSender
  BY DEF UpgradeInit, Init, ChargedIsSender
<1>2. ChargedIsSender /\ [UpgradeNext]_allVars => ChargedIsSender'
  <2> SUFFICES ASSUME ChargedIsSender, [UpgradeNext]_allVars
               PROVE  ChargedIsSender'
    OBVIOUS
  <2>1. CASE UNCHANGED allVars \/ Housekeeping
    BY <2>1 DEF ChargedIsSender, Housekeeping, Tick, SweepBegins, SweepRuns,
                allVars, vars
  <2>2. ASSUME NEW s \in Keys, Upgrade(s) PROVE ChargedIsSender'
    BY <2>2, UpgradeAsksSender DEF ChargedIsSender
  <2> QED BY <2>1, <2>2 DEF UpgradeNext
<1> QED BY <1>1, <1>2, PTL DEF UpgradeSpec

\* No requests, however their headers are made up, grow the map
\* (ratelimit.go:10-12).
THEOREM UpgradesKeepMapBounded == UpgradeSpec => []MapBounded
BY ImplementsLimiter, MapIsBounded, PTL

\* The daemon grants each client its rate and burst, by a bucket of its own
\* (server.go:190-195, ratelimit.go:36-37).
THEOREM UpgradesRefineTokenBucket ==
    ASSUME IdleFills
    PROVE  UpgradeSpec => ImplementsTokenBucket
BY ImplementsLimiter, RefinesTokenBucket, PTL
=============================================================================
