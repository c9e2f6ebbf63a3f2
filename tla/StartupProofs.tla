--------------------------- MODULE StartupProofs ---------------------------
(***************************************************************************)
(* Proofs about Startup, for any number of daemons, host key files, starts *)
(* and ways to be started.                                                 *)
(***************************************************************************)
EXTENDS Startup, TLAPS, FiniteSetTheorems

\* A daemon that has its configuration, and one that has its host key.
Settled == {"read", "generate", "open", "write", "listen", "tls", "serving"}
Keyed == {"listen", "tls", "serving"}

\* Functions of whatever they hold are enough for launch, config and known.
Types ==
    /\ pc \in [Daemons -> Phases]
    /\ file \in [Paths -> Int]
    /\ starts \in Nat
    /\ start \in [Daemons -> Nat]
    /\ signer \in [Daemons -> Int]
    /\ tls \in [Daemons -> BOOLEAN]
    /\ launch = [d \in Daemons |-> launch[d]]
    /\ config = [d \in Daemons |-> config[d]]
    /\ known = [p \in Paths |-> known[p]]

\* What a daemon is told and what it makes of it stays with it.
Started == \A d \in Daemons : pc[d] # "down" => start[d] > 0 /\ launch[d] \in Launches
Configured ==
    \A d \in Daemons : pc[d] \in Settled =>
        config[d] = Resolved(d) /\ Validate(config[d]) /\ KeyPath(d) \in Paths
Secured ==
    \A d \in Daemons : pc[d] = "serving" => tls[d] = (config[d].cert # None)

\* Whoever makes a key does so alone and where there is none, but for races.
Alone ==
    \A d \in Daemons : pc[d] \in Making /\ KeyPath(d) \notin raced =>
        /\ ~IsKey(file[KeyPath(d)])
        /\ \A e \in Daemons \ {d} : pc[e] \in Making => KeyPath(e) # KeyPath(d)

\* Whoever writes to a file that is gone was disturbed.
Disturbed ==
    \A d \in Daemons \cap unlinked : pc[d] = "write" /\ KeyPath(d) \in raced

\* A daemon that has a key has that of the file.
HasFileKey ==
    \A d \in Daemons : pc[d] \in Keyed /\ KeyPath(d) \notin raced =>
        IsKey(signer[d]) /\ file[KeyPath(d)] = signer[d]

\* The file still holds what clients have seen.
SeenIsThere ==
    \A p \in Paths \ (raced \cup lost) :
        \A k \in known[p] : IsKey(k) /\ file[p] = k

IInv ==
    /\ Types /\ Started /\ Configured /\ Secured
    /\ Alone /\ Disturbed /\ HasFileKey /\ SeenIsThere

-----------------------------------------------------------------------------
\* The invariant holds in the initial states.
LEMMA InitInvariant == Init => IInv
BY StartsNatural
   DEF Init, IInv, Types, Phases, Absent, NoKey, Started, Configured, Settled,
       Secured, Alone, Making, Disturbed, HasFileKey, Keyed, SeenIsThere

\* Daemons go, and the files stay.
LEMMA GoneKeepsInvariant ==
    ASSUME IInv, NEW ds \in SUBSET Daemons, Gone(ds),
           UNCHANGED <<file, starts, known, raced, lost>>
    PROVE  IInv'
<1>1. /\ pc' \in [Daemons -> Phases]
      /\ \A d \in Daemons : pc'[d] # "down" =>
           /\ pc'[d] = pc[d] /\ start'[d] = start[d] /\ launch'[d] = launch[d]
           /\ config'[d] = config[d] /\ signer'[d] = signer[d] /\ tls'[d] = tls[d]
  BY DEF Gone, IInv, Types, Phases
<1>2. Types'
  BY <1>1 DEF Gone, IInv, Types, NoKey
<1>3. Started' /\ Configured' /\ Secured'
  BY <1>1 DEF IInv, Started, Configured, Settled, Resolved, KeyPath, Secured
<1>4. Alone' /\ HasFileKey'
  BY <1>1 DEF IInv, Alone, Making, HasFileKey, Keyed, KeyPath
<1>5. Disturbed'
  <2>1. \A d \in Daemons \cap unlinked' : pc'[d] = pc[d] /\ config'[d] = config[d]
    BY DEF Gone
  <2> QED BY <2>1 DEF Gone, IInv, Disturbed, KeyPath
<1>6. SeenIsThere'
  BY DEF IInv, SeenIsThere
<1> QED BY <1>2, <1>3, <1>4, <1>5, <1>6 DEF IInv

\* os.Exit keeps the invariant.
LEMMA ExitKeepsInvariant ==
    ASSUME IInv, NEW d \in Daemons, NEW from, Exits(d, from)
    PROVE  IInv'
BY GoneKeepsInvariant DEF Exits, fileVars, historyVars

\* A start, and the way to the configuration.
LEMMA BeginningKeepsInvariant ==
    ASSUME IInv, NEW d \in Daemons, Start(d) \/ ParseFlags(d) \/ Daemonize(d)
    PROVE  IInv'
<1>1. CASE \E from : Exits(d, from)
  BY <1>1, ExitKeepsInvariant
<1>2. CASE ~\E from : Exits(d, from)
  <2>1. /\ pc'[d] \in {"flags", "daemonize", "config"}
        /\ pc' = [pc EXCEPT ![d] = pc'[d]]
        /\ UNCHANGED <<file, unlinked, config, signer, tls, known, raced, lost>>
        /\ pc[d] # "write"
    BY <1>2 DEF Start, ParseFlags, Daemonize, Step, fileVars, historyVars, IInv, Types
  <2>2. /\ starts' \in Nat /\ start' \in [Daemons -> Nat]
        /\ launch' = [e \in Daemons |-> launch'[e]]
        /\ start'[d] > 0 /\ launch'[d] \in Launches
        /\ \A e \in Daemons \ {d} : start'[e] = start[e] /\ launch'[e] = launch[e]
    BY <1>2 DEF Start, ParseFlags, Daemonize, Step, IInv, Types, Started
  <2>3. Types'
    BY <2>1, <2>2 DEF IInv, Types, Phases
  <2>4. Started' /\ Configured' /\ Secured'
    BY <2>1, <2>2 DEF IInv, Types, Started, Configured, Settled, Resolved, KeyPath,
                      Secured
  <2>5. Alone' /\ HasFileKey' /\ SeenIsThere'
    BY <2>1 DEF IInv, Types, Alone, Making, HasFileKey, Keyed, KeyPath, SeenIsThere
  <2>6. Disturbed'
    BY <2>1 DEF IInv, Types, Disturbed, KeyPath
  <2> QED BY <2>3, <2>4, <2>5, <2>6 DEF IInv
<1> QED BY <1>1, <1>2

\* The configuration is resolved.
LEMMA ConfigureKeepsInvariant ==
    ASSUME IInv, NEW d \in Daemons, Configure(d)
    PROVE  IInv'
<1>1. CASE Exits(d, "config")
  BY <1>1, ExitKeepsInvariant
<1>2. CASE ~Exits(d, "config")
  <2>1. /\ pc[d] = "config" /\ pc' = [pc EXCEPT ![d] = "read"]
        /\ config' = [config EXCEPT ![d] = Resolved(d)] /\ Validate(Resolved(d))
        /\ UNCHANGED <<file, unlinked, starts, launch, start, signer, tls, known,
                       raced, lost>>
    BY <1>2 DEF Configure, Step, fileVars, historyVars
  <2>2. config'[d] = Resolved(d) /\ \A e \in Daemons \ {d} : config'[e] = config[e]
    BY <2>1 DEF IInv, Types
  <2>3. Resolved(d).hostkey \in Paths
    BY <2>1, PathsOfLaunches DEF IInv, Started, Resolved
  <2>4. Types'
    BY <2>1 DEF IInv, Types, Phases
  <2>5. Started' /\ Configured' /\ Secured'
    BY <2>1, <2>2, <2>3 DEF IInv, Types, Started, Configured, Settled, Resolved,
                            KeyPath, Secured
  <2>6. Alone' /\ HasFileKey' /\ SeenIsThere'
    BY <2>1, <2>2 DEF IInv, Types, Alone, Making, HasFileKey, Keyed, KeyPath,
                      SeenIsThere
  <2>7. Disturbed'
    BY <2>1, <2>2 DEF IInv, Types, Disturbed, KeyPath
  <2> QED BY <2>4, <2>5, <2>6, <2>7 DEF IInv
<1> QED BY <1>1, <1>2

\* A step of a settled daemon that leaves the files and its settings alone keeps
\* what does not depend on the host key.
LEMMA StepKeepsSettings ==
    ASSUME IInv, NEW d \in Daemons, NEW from \in Settled, NEW to \in Settled,
           Step(d, from, to), to # "serving",
           UNCHANGED <<config, tls>>
    PROVE  Started' /\ Configured' /\ Secured' /\ pc' \in [Daemons -> Phases]
<1>1. /\ pc[d] = from /\ pc' = [pc EXCEPT ![d] = to]
      /\ UNCHANGED <<launch, start, config, tls>>
  BY DEF Step
<1> QED BY <1>1 DEF IInv, Types, Phases, Started, Configured, Settled, Resolved, KeyPath,
                    Secured

\* A file is found to be missing, or holds a key.
LEMMA ReadKeepsInvariant ==
    ASSUME IInv, NEW d \in Daemons, FindNoKey(d) \/ LoadKey(d) \/ LoadFails(d)
    PROVE  IInv'
<1>1. CASE LoadFails(d)
  BY <1>1, ExitKeepsInvariant DEF LoadFails
<1>2. CASE FindNoKey(d)
  <2>1. /\ pc[d] = "read" /\ pc' = [pc EXCEPT ![d] = "generate"]
        /\ file[KeyPath(d)] = Absent
        /\ (\E e \in Daemons : pc[e] \in Making /\ KeyPath(e) = KeyPath(d))
             => KeyPath(d) \in raced'
        /\ raced \subseteq raced'
        /\ UNCHANGED <<file, unlinked, starts, launch, start, config, signer, tls,
                       known, lost>>
    BY <1>2 DEF FindNoKey, Step, fileVars, Missing
  <2>2. Started' /\ Configured' /\ Secured' /\ pc' \in [Daemons -> Phases]
    BY <1>2, StepKeepsSettings DEF FindNoKey, Settled
  <2>3. Types'
    BY <2>1, <2>2 DEF IInv, Types
  <2>4. Alone'
    BY <2>1 DEF IInv, Types, Alone, Making, KeyPath, IsKey, Absent
  <2>5. HasFileKey' /\ SeenIsThere'
    BY <2>1 DEF IInv, Types, HasFileKey, Keyed, KeyPath, SeenIsThere
  <2>6. Disturbed'
    BY <2>1 DEF IInv, Types, Disturbed, KeyPath
  <2> QED BY <2>2, <2>3, <2>4, <2>5, <2>6 DEF IInv
<1>3. CASE LoadKey(d)
  <2>1. /\ pc[d] = "read" /\ pc' = [pc EXCEPT ![d] = "listen"]
        /\ IsKey(file[KeyPath(d)])
        /\ signer' = [signer EXCEPT ![d] = file[KeyPath(d)]]
        /\ UNCHANGED <<file, unlinked, starts, launch, start, config, tls, known,
                       raced, lost>>
    BY <1>3 DEF LoadKey, Step, fileVars, historyVars
  <2>2. Started' /\ Configured' /\ Secured' /\ pc' \in [Daemons -> Phases]
    BY <1>3, StepKeepsSettings DEF LoadKey, Settled
  <2>3. file[KeyPath(d)] \in Int
    BY <2>1 DEF IInv, Types, Configured, Settled
  <2>4. Types'
    BY <2>1, <2>2, <2>3 DEF IInv, Types
  <2>5. Alone' /\ HasFileKey' /\ SeenIsThere'
    BY <2>1 DEF IInv, Types, Alone, Making, HasFileKey, Keyed, KeyPath, SeenIsThere
  <2>6. Disturbed'
    BY <2>1 DEF IInv, Types, Disturbed, KeyPath
  <2> QED BY <2>2, <2>4, <2>5, <2>6 DEF IInv
<1> QED BY <1>1, <1>2, <1>3

\* Nobody has seen a key of a file that is being made, and nobody else has it.
LEMMA OnlyItsMaker ==
    ASSUME IInv, NEW d \in Daemons, pc[d] \in Making, KeyPath(d) \notin raced
    PROVE  /\ KeyPath(d) \notin lost => known[KeyPath(d)] = {}
           /\ \A e \in Daemons \ {d} :
                pc[e] \in Making \cup Keyed => KeyPath(e) # KeyPath(d)
<1>1. KeyPath(d) \in Paths /\ ~IsKey(file[KeyPath(d)])
  BY DEF IInv, Configured, Settled, Making, Alone
<1> QED BY <1>1 DEF IInv, Alone, HasFileKey, SeenIsThere

\* The key is generated and the file opened.
LEMMA MakingKeepsInvariant ==
    ASSUME IInv, NEW d \in Daemons, Generate(d) \/ OpenFile(d)
    PROVE  IInv'
<1>1. CASE \E from : Exits(d, from)
  BY <1>1, ExitKeepsInvariant
<1>2. CASE ~\E from : Exits(d, from)
  <2>1. /\ pc[d] \in Making /\ pc[d] # "write"
        /\ \E to \in Making : pc' = [pc EXCEPT ![d] = to]
        /\ file' = file \/ file' = [file EXCEPT ![KeyPath(d)] = Torn]
        /\ UNCHANGED <<unlinked, starts, launch, start, config, signer, tls, known,
                       raced, lost>>
    BY <1>2 DEF Generate, OpenFile, Step, fileVars, historyVars, Making
  <2>2. Started' /\ Configured' /\ Secured' /\ pc' \in [Daemons -> Phases]
    BY <1>2, StepKeepsSettings DEF Generate, OpenFile, Settled
  <2>3. Types'
    BY <2>1, <2>2 DEF IInv, Types, Torn
  <2>4. KeyPath(d) \in Paths
    BY <2>1 DEF IInv, Configured, Settled, Making
  <2>5. /\ \A p \in Paths \ {KeyPath(d)} : file'[p] = file[p]
        /\ IsKey(file'[KeyPath(d)]) => IsKey(file[KeyPath(d)])
    BY <2>1, <2>4 DEF IInv, Types, Torn, IsKey
  <2>6. \A e \in Daemons : (pc'[e] \in Making) = (pc[e] \in Making)
                           /\ (pc'[e] \in Keyed) = (pc[e] \in Keyed)
    BY <2>1 DEF IInv, Types, Making, Keyed
  <2>7. \A e \in Daemons : pc[e] \in Making \cup Keyed => KeyPath(e) \in Paths
    BY DEF IInv, Configured, Settled, Making, Keyed
  <2>8. Alone'
    BY <2>1, <2>5, <2>6, <2>7 DEF IInv, Alone, KeyPath
  <2>9. ASSUME NEW e \in Daemons, pc'[e] \in Keyed, KeyPath(e) \notin raced
        PROVE  IsKey(signer[e]) /\ file'[KeyPath(e)] = signer[e]
    <3>1. pc[e] \in Keyed /\ e # d
      BY <2>1, <2>6, <2>9 DEF Making, Keyed
    <3>2. KeyPath(e) # KeyPath(d)
      BY <2>1, <2>9, <3>1, OnlyItsMaker
    <3> QED BY <2>5, <2>7, <2>9, <3>1, <3>2 DEF IInv, HasFileKey
  <2>10. HasFileKey'
    BY <2>1, <2>9 DEF HasFileKey, KeyPath
  <2>11. SeenIsThere'
    <3>1. KeyPath(d) \notin raced \cup lost => known[KeyPath(d)] = {}
      BY <2>1, OnlyItsMaker
    <3> QED BY <2>1, <2>5, <3>1 DEF IInv, SeenIsThere
  <2>12. Disturbed'
    BY <2>1 DEF IInv, Types, Disturbed, KeyPath
  <2> QED BY <2>2, <2>3, <2>8, <2>10, <2>11, <2>12 DEF IInv
<1> QED BY <1>1, <1>2

\* What is written is found in the file by whoever was not disturbed.
LEMMA WritingTells ==
    ASSUME IInv, NEW d \in Daemons, pc[d] = "write", NEW content \in Int,
           Write(d, content)
    PROVE  /\ KeyPath(d) \in Paths
           /\ file' \in [Paths -> Int]
           /\ \A p \in Paths \ {KeyPath(d)} : file'[p] = file[p]
           /\ KeyPath(d) \notin raced => file'[KeyPath(d)] = content
           /\ d \in unlinked => file' = file
<1>1. KeyPath(d) \in Paths /\ file \in [Paths -> Int]
  BY DEF IInv, Types, Configured, Settled
<1>2. d \in unlinked => KeyPath(d) \in raced
  BY DEF IInv, Disturbed
<1> QED BY <1>1, <1>2 DEF Write

\* The file is written, in whole or in part.
LEMMA WriteKeepsInvariant ==
    ASSUME IInv, NEW d \in Daemons, WriteKey(d) \/ WriteFails(d)
    PROVE  IInv'
<1>1. pc[d] = "write" /\ KeyPath(d) \in Paths
  BY DEF WriteKey, WriteFails, Step, IInv, Configured, Settled
<1>2. \A e \in Daemons : pc[e] \in Making \cup Keyed => KeyPath(e) \in Paths
  BY DEF IInv, Configured, Settled, Making, Keyed
<1>3. CASE WriteKey(d)
  <2>1. /\ pc' = [pc EXCEPT ![d] = "listen"]
        /\ Write(d, start[d]) /\ unlinked' = unlinked \ {d}
        /\ signer' = [signer EXCEPT ![d] = start[d]]
        /\ UNCHANGED <<starts, launch, start, config, tls, known, raced, lost>>
    BY <1>3 DEF WriteKey, Step, historyVars
  <2>2. start[d] \in Int /\ IsKey(start[d])
    BY <1>1 DEF IInv, Types, Started, IsKey
  <2>3. Started' /\ Configured' /\ Secured' /\ pc' \in [Daemons -> Phases]
    BY <1>3, StepKeepsSettings DEF WriteKey, Settled
  <2>4. /\ file' \in [Paths -> Int]
        /\ \A p \in Paths \ {KeyPath(d)} : file'[p] = file[p]
        /\ KeyPath(d) \notin raced => file'[KeyPath(d)] = start[d]
    BY <1>1, <2>1, <2>2, WritingTells
  <2>5. Types'
    BY <2>1, <2>2, <2>3, <2>4 DEF IInv, Types
  <2>6. /\ signer'[d] = start[d] /\ pc'[d] = "listen"
        /\ \A e \in Daemons \ {d} : pc'[e] = pc[e] /\ signer'[e] = signer[e]
    BY <1>1, <2>1 DEF IInv, Types
  <2>7. Alone' /\ Disturbed'
    BY <1>1, <1>2, <2>1, <2>4, <2>6 DEF IInv, Alone, Disturbed, KeyPath, Making
  <2>8. HasFileKey'
    BY <1>1, <1>2, <2>1, <2>2, <2>4, <2>6, OnlyItsMaker DEF IInv, HasFileKey, KeyPath,
                                                      Making, Keyed
  <2>9. SeenIsThere'
    BY <1>1, <2>1, <2>4, <2>6, OnlyItsMaker DEF IInv, SeenIsThere, Making
  <2> QED BY <2>3, <2>5, <2>7, <2>8, <2>9 DEF IInv
<1>4. CASE WriteFails(d)
  <2>1. /\ Write(d, Torn) /\ Torn \in Int /\ ~IsKey(Torn)
        /\ Gone({d}) /\ UNCHANGED <<starts, known, raced, lost>>
    BY <1>4 DEF WriteFails, historyVars, Torn, IsKey
  <2>2. /\ pc' \in [Daemons -> Phases] /\ pc'[d] = "down"
        /\ unlinked' = unlinked \ {d}
        /\ \A e \in Daemons \ {d} :
             /\ pc'[e] = pc[e] /\ start'[e] = start[e] /\ launch'[e] = launch[e]
             /\ config'[e] = config[e] /\ signer'[e] = signer[e] /\ tls'[e] = tls[e]
    BY <2>1 DEF Gone, IInv, Types, Phases
  <2>3. /\ file' \in [Paths -> Int]
        /\ \A p \in Paths \ {KeyPath(d)} : file'[p] = file[p]
        /\ KeyPath(d) \notin raced => ~IsKey(file'[KeyPath(d)])
    BY <1>1, <2>1, WritingTells
  <2>4. Types'
    <3>1. /\ start' \in [Daemons -> Nat] /\ signer' \in [Daemons -> Int]
          /\ tls' \in [Daemons -> BOOLEAN]
      BY <2>1 DEF Gone, IInv, Types, NoKey
    <3>2. /\ launch' = [e \in Daemons |-> launch'[e]]
          /\ config' = [e \in Daemons |-> config'[e]]
      BY <2>1 DEF Gone
    <3> QED BY <2>1, <2>2, <2>3, <3>1, <3>2 DEF IInv, Types
  <2>5. Started' /\ Configured' /\ Secured'
    BY <2>2 DEF IInv, Started, Configured, Settled, Resolved, KeyPath, Secured
  <2>6. Alone' /\ Disturbed'
    BY <1>1, <1>2, <2>1, <2>2, <2>3 DEF IInv, Alone, Disturbed, KeyPath, Making
  <2>7. HasFileKey'
    BY <1>1, <1>2, <2>1, <2>2, <2>3, OnlyItsMaker DEF IInv, HasFileKey, KeyPath, Making,
                                                 Keyed
  <2>8. SeenIsThere'
    BY <1>1, <2>1, <2>3, OnlyItsMaker DEF IInv, SeenIsThere, Making
  <2> QED BY <2>4, <2>5, <2>6, <2>7, <2>8 DEF IInv
<1> QED BY <1>3, <1>4

\* The daemon listens and serves.
LEMMA ServeKeepsInvariant ==
    ASSUME IInv, NEW d \in Daemons, Listen(d) \/ Serve(d)
    PROVE  IInv'
<1>1. CASE \E from : Exits(d, from)
  BY <1>1, ExitKeepsInvariant
<1>2. CASE Listen(d) /\ ~\E from : Exits(d, from)
  <2>1. /\ pc[d] = "listen" /\ pc' = [pc EXCEPT ![d] = "tls"]
        /\ UNCHANGED <<file, unlinked, starts, launch, start, config, signer, tls,
                       known, raced, lost>>
    BY <1>2 DEF Listen, Step, fileVars, historyVars
  <2>2. Started' /\ Configured' /\ Secured' /\ pc' \in [Daemons -> Phases]
    BY <1>2, StepKeepsSettings DEF Listen, Settled
  <2>3. Types'
    BY <2>1, <2>2 DEF IInv, Types
  <2>4. Alone' /\ HasFileKey' /\ SeenIsThere'
    BY <2>1 DEF IInv, Types, Alone, Making, HasFileKey, Keyed, KeyPath, SeenIsThere
  <2>5. Disturbed'
    BY <2>1 DEF IInv, Types, Disturbed, KeyPath
  <2> QED BY <2>2, <2>3, <2>4, <2>5 DEF IInv
<1>3. CASE Serve(d) /\ ~\E from : Exits(d, from)
  <2>1. /\ pc[d] = "tls" /\ pc' = [pc EXCEPT ![d] = "serving"]
        /\ tls' = [tls EXCEPT ![d] = config[d].cert # None]
        /\ known' = [known EXCEPT ![KeyPath(d)] = @ \cup {signer[d]}]
        /\ UNCHANGED <<file, unlinked, starts, launch, start, config, signer, raced,
                       lost>>
    BY <1>3 DEF Serve, Step, fileVars
  <2>2. Types'
    BY <2>1 DEF IInv, Types, Phases
  <2>3. Started' /\ Configured' /\ Secured'
    BY <2>1 DEF IInv, Types, Started, Configured, Settled, Resolved, KeyPath, Secured
  <2>4. Alone' /\ HasFileKey'
    BY <2>1 DEF IInv, Types, Alone, Making, HasFileKey, Keyed, KeyPath
  <2>5. SeenIsThere'
    BY <2>1 DEF IInv, Types, HasFileKey, Keyed, SeenIsThere
  <2>6. Disturbed'
    BY <2>1 DEF IInv, Types, Disturbed, KeyPath
  <2> QED BY <2>2, <2>3, <2>4, <2>5, <2>6 DEF IInv
<1> QED BY <1>1, <1>2, <1>3

\* Files reach the disk, are lost or are removed.
LEMMA WorldKeepsInvariant ==
    ASSUME IInv, PowerLoss \/ \E p \in Paths : Sync(p) \/ Remove(p)
    PROVE  IInv'
<1>1. CASE PowerLoss
  <2>1. /\ \A p \in Paths : file'[p] \in {file[p], Torn, Absent}
        /\ file' = [p \in Paths |-> file'[p]]
        /\ lost' = lost \cup {p \in Paths : IsKey(file[p]) /\ file'[p] # file[p]}
        /\ Gone(Daemons) /\ UNCHANGED <<starts, known, raced>>
    BY <1>1 DEF PowerLoss
  <2>2. \A d \in Daemons : pc'[d] = "down"
    BY <2>1 DEF Gone
  <2>3. Types'
    BY <2>1 DEF Gone, IInv, Types, Phases, NoKey, Torn, Absent
  <2>4. Started' /\ Configured' /\ Secured' /\ Alone' /\ HasFileKey'
    BY <2>2 DEF Started, Configured, Settled, Secured, Alone, Making, HasFileKey, Keyed
  <2>5. SeenIsThere'
    BY <2>1 DEF IInv, SeenIsThere
  <2>6. Disturbed'
    BY <2>1 DEF Gone, Disturbed
  <2> QED BY <2>3, <2>4, <2>5, <2>6 DEF IInv
<1>2. ASSUME NEW p \in Paths, Sync(p)
      PROVE  IInv'
  BY <1>2 DEF Sync, daemonVars, historyVars, IInv, Types, Started, Configured, Resolved,
              KeyPath, Secured, Alone, Disturbed, HasFileKey, SeenIsThere
<1>3. ASSUME NEW p \in Paths, Remove(p)
      PROVE  IInv'
  <2>1. /\ file[p] = Torn /\ file' = [file EXCEPT ![p] = Absent]
        /\ unlinked' = unlinked \cup {d \in Daemons : pc[d] = "write" /\ KeyPath(d) = p}
        /\ (\E d \in Daemons : pc[d] = "write" /\ KeyPath(d) = p) => p \in raced'
        /\ raced \subseteq raced'
        /\ UNCHANGED <<starts, pc, launch, start, config, signer, tls, known, lost>>
    BY <1>3 DEF Remove, daemonVars, historyVars
  <2>2. \A q \in Paths : file'[q] = file[q] \/ (q = p /\ ~IsKey(file'[q]))
    BY <2>1 DEF IInv, Types, IsKey, Absent
  <2>3. Types' /\ Started' /\ Configured' /\ Secured'
    BY <2>1 DEF IInv, Types, Absent, Started, Configured, Resolved, KeyPath, Secured
  <2>4. ~IsKey(file[p])
    BY <2>1 DEF IsKey, Torn
  <2>5. \A e \in Daemons : pc[e] \in Making \cup Keyed => KeyPath(e) \in Paths
    BY DEF IInv, Configured, Settled, Making, Keyed
  <2>6. Alone' /\ HasFileKey' /\ SeenIsThere'
    BY <2>1, <2>2, <2>4, <2>5 DEF IInv, Alone, HasFileKey, KeyPath, SeenIsThere
  <2>7. Disturbed'
    BY <2>1 DEF IInv, Disturbed, KeyPath
  <2> QED BY <2>3, <2>6, <2>7 DEF IInv
<1> QED BY <1>1, <1>2, <1>3

\* Every step keeps the invariant.
LEMMA NextInvariant == IInv /\ [Next]_vars => IInv'
<1> SUFFICES ASSUME IInv, [Next]_vars PROVE IInv'
  OBVIOUS
<1>1. CASE UNCHANGED vars
  BY <1>1 DEF vars, fileVars, daemonVars, historyVars, IInv, Types, Started, Configured,
              Resolved, KeyPath, Secured, Alone, Disturbed, HasFileKey, SeenIsThere
<1>2. ASSUME NEW d \in Daemons, Start(d) \/ Main(d) \/ Crash(d)
      PROVE  IInv'
  BY <1>2, BeginningKeepsInvariant, ConfigureKeepsInvariant, ReadKeepsInvariant,
     MakingKeepsInvariant, WriteKeepsInvariant, ServeKeepsInvariant,
     ExitKeepsInvariant DEF Main, Crash
<1>3. CASE PowerLoss \/ \E p \in Paths : Sync(p) \/ Remove(p)
  BY <1>3, WorldKeepsInvariant
<1> QED BY <1>1, <1>2, <1>3 DEF Next

\* The inductive invariant holds in every reachable state.
THEOREM Invariant == Spec => []IInv
BY InitInvariant, NextInvariant, PTL DEF Spec

-----------------------------------------------------------------------------
(* What follows from it.                                                   *)

\* The key a daemon serves is the one the next daemon will read, unless two
\* daemons made one at the same time, or the file was removed under the hands
\* of the one that made it (keys.go:23-38).
THEOREM FileKeyServed == Spec => []ServesFileKey
<1>1. IInv => ServesFileKey
  BY DEF IInv, HasFileKey, Keyed, ServesFileKey
<1> QED BY <1>1, Invariant, PTL

\* Clients see one host key of a file, however often daemons start, crash and
\* fail, but for such a race and the loss of a file (keys.go:15-19).
THEOREM IdentityIsOne == Spec => []OneIdentity
<1>1. ASSUME IInv, NEW p \in Paths \ (raced \cup lost)
      PROVE  Cardinality(known[p]) <= 1
  <2>1. known[p] \subseteq {file[p]}
    BY <1>1 DEF IInv, SeenIsThere
  <2>2. IsFiniteSet({file[p]}) /\ Cardinality({file[p]}) = 1
    BY FS_Singleton
  <2> QED BY <2>1, <2>2, FS_Subset
<1>2. IInv => OneIdentity
  BY <1>1 DEF OneIdentity
<1> QED BY <1>2, Invariant, PTL

\* Each setting comes from where the precedence says, with TLS exactly if there
\* are both files for it (main.go:148-183, 222-231).
THEOREM ServedAsConfigured == Spec => []ServesAsConfigured
<1>1. ASSUME NEW l, NEW f \in Fields
      PROVE  Merge(Defaults, l.overlay, CliOverlay(l.flags))[f] = Documented(l, f)
  BY DEF Merge, Layer, CliOverlay, Documented
<1>2. ASSUME IInv, NEW d \in Daemons, pc[d] = "serving"
      PROVE  /\ \A f \in Fields : config[d][f] = Documented(launch[d], f)
             /\ tls[d] = (Documented(launch[d], "cert") # None)
             /\ tls[d] = (Documented(launch[d], "key") # None)
  <2>1. /\ config[d] = Resolved(d) /\ Validate(config[d])
        /\ tls[d] = (config[d].cert # None)
    BY <1>2 DEF IInv, Configured, Settled, Secured
  <2>2. \A f \in Fields : config[d][f] = Documented(launch[d], f)
    BY <1>1, <2>1 DEF Resolved
  <2>3. /\ config[d].cert = Documented(launch[d], "cert")
        /\ config[d].key = Documented(launch[d], "key")
    BY <2>2 DEF Fields
  <2> QED BY <2>1, <2>2, <2>3 DEF Validate
<1>3. IInv => ServesAsConfigured
  BY <1>2 DEF ServesAsConfigured
<1> QED BY <1>3, Invariant, PTL

-----------------------------------------------------------------------------
(* A start is short.                                                       *)

\* How many steps a daemon may still take before it serves or is gone; one
\* that has to daemonize runs through its flags twice.
Left == [down |-> 0, serving |-> 1, tls |-> 2, listen |-> 3, write |-> 4,
         open |-> 5, generate |-> 6, read |-> 7, config |-> 8,
         daemonize |-> 9, flags |-> 10]
StepsLeft(d) ==
    IF pc[d] \in {"flags", "daemonize"} /\ ~env[d]
    THEN Left[pc[d]] + 2 ELSE Left[pc[d]]

\* Every step of main brings its end nearer, and nothing but another start
\* puts it off: with whatever arguments, the child that daemonize starts does
\* not daemonize again and again (main.go:65-99).
StartsGetOn ==
    [][\A d \in Daemons :
          /\ Main(d) => StepsLeft(d)' < StepsLeft(d)
          /\ pc[d] # "down" => StepsLeft(d)' <= StepsLeft(d)]_vars

\* A daemon that is gone has no steps left.
LEMMA GoneHasNoSteps ==
    ASSUME Types, NEW ds \in SUBSET Daemons, Gone(ds), NEW d \in Daemons
    PROVE  /\ d \in ds => StepsLeft(d)' = 0
           /\ d \notin ds => StepsLeft(d)' = StepsLeft(d)
<1>1. pc'[d] = IF d \in ds THEN "down" ELSE pc[d]
  BY DEF Gone
<1>2. d \notin ds => (env'[d] <=> env[d])
  BY DEF Gone
<1> QED BY <1>1, <1>2 DEF StepsLeft, Left

\* The steps left can be counted.
LEMMA LeftNatural == \A phase \in Phases : Left[phase] \in 0..10
BY DEF Phases, Left

\* Every phase has its rank.
LEMMA StepsLeftNatural ==
    ASSUME Types, NEW d \in Daemons
    PROVE  /\ StepsLeft(d) \in 0..12
           /\ pc[d] # "down" => StepsLeft(d) > 0
<1>1. pc[d] \in Phases
  BY DEF Types
<1>2. StepsLeft(d) \in 0..12
  BY <1>1, LeftNatural DEF StepsLeft
<1>3. pc[d] # "down" => StepsLeft(d) > 0
  BY <1>1 DEF StepsLeft, Left, Phases
<1> QED BY <1>2, <1>3

EnvType == env \in [Daemons -> BOOLEAN]

\* Only daemonize marks the environment.
LEMMA EnvInvariant == Spec => []EnvType
<1>1. Init => EnvType
  BY DEF Init, EnvType
<1>2. ASSUME EnvType, [Next]_vars PROVE EnvType'
  <2>1. CASE UNCHANGED env
    BY <1>2, <2>1 DEF EnvType
  <2>2. ASSUME NEW ds, Gone(ds) PROVE EnvType'
    BY <1>2, <2>2 DEF Gone, EnvType
  <2>3. ASSUME NEW d \in Daemons, Daemonize(d) PROVE EnvType'
    BY <1>2, <2>2, <2>3 DEF Daemonize, Exits, EnvType
  <2>4. ASSUME NEW d \in Daemons, Start(d) \/ Crash(d) PROVE EnvType'
    BY <2>1, <2>2, <2>4 DEF Start, Crash, Exits
  <2>5. ASSUME NEW d \in Daemons, Main(d) PROVE EnvType'
    BY <2>1, <2>2, <2>3, <2>5
       DEF Main, ParseFlags, Configure, FindNoKey, LoadKey, LoadFails,
           Generate, OpenFile, WriteKey, WriteFails, Listen, Serve, Exits
  <2>6. ASSUME NEW p \in Paths, Sync(p) \/ Remove(p) PROVE EnvType'
    BY <2>1, <2>6 DEF Sync, Remove, daemonVars
  <2> QED
    BY <1>2, <2>1, <2>2, <2>4, <2>5, <2>6 DEF Next, PowerLoss, vars, daemonVars
<1> QED BY <1>1, <1>2, PTL DEF Spec

\* d goes on and the others stay where they are.
LEMMA GoingOn ==
    ASSUME Types, EnvType, NEW d \in Daemons, NEW from, NEW to \in Phases,
           Step(d, from, to), env' = env \/ env' = [env EXCEPT ![d] = TRUE]
    PROVE  /\ pc[d] = from /\ pc'[d] = to
           /\ \A e \in Daemons \ {d} : StepsLeft(e)' = StepsLeft(e)
<1>1. pc[d] = from /\ pc' = [pc EXCEPT ![d] = to]
  BY DEF Step
<1>2. \A e \in Daemons \ {d} : pc'[e] = pc[e] /\ env'[e] = env[e]
  BY <1>1 DEF Types, EnvType
<1> QED BY <1>1, <1>2 DEF StepsLeft, Types

\* A step of main, or a crash, is one step less for d and leaves the others.
LEMMA MainGetsOn ==
    ASSUME Types, EnvType, NEW d \in Daemons, Main(d) \/ Crash(d)
    PROVE  /\ StepsLeft(d)' < StepsLeft(d)
           /\ \A e \in Daemons \ {d} : StepsLeft(e)' = StepsLeft(e)
<1>1. ASSUME NEW from \in Phases \ {"down"}, pc[d] = from, Gone({d})
      PROVE  /\ StepsLeft(d)' < StepsLeft(d)
             /\ \A e \in Daemons \ {d} : StepsLeft(e)' = StepsLeft(e)
  <2>1. StepsLeft(d) \in 0..12 /\ StepsLeft(d) > 0
    BY <1>1, StepsLeftNatural
  <2> QED BY <1>1, <2>1, GoneHasNoSteps
<1>2. CASE ParseFlags(d)
  <2>1. /\ pc[d] = "flags" /\ pc'[d] \in {"config", "daemonize"}
        /\ \A e \in Daemons \ {d} : StepsLeft(e)' = StepsLeft(e)
        /\ env' = env
    BY <1>2, GoingOn DEF ParseFlags, Phases
  <2> QED BY <2>1 DEF StepsLeft, Left
<1>3. CASE Daemonize(d)
  <2>1. CASE env[d] /\ Step(d, "daemonize", "config") /\ env' = env
    BY <2>1, GoingOn DEF Phases, StepsLeft, Left
  <2>2. CASE /\ ~env[d] /\ Step(d, "daemonize", "flags")
             /\ env' = [env EXCEPT ![d] = TRUE]
    <3>1. /\ pc[d] = "daemonize" /\ pc'[d] = "flags"
          /\ \A e \in Daemons \ {d} : StepsLeft(e)' = StepsLeft(e)
      BY <2>2, GoingOn DEF Phases
    <3>2. env'[d]
      BY <2>2 DEF EnvType
    <3> QED BY <2>2, <3>1, <3>2 DEF StepsLeft, Left
  <2>3. CASE Exits(d, "daemonize")
    BY <1>1, <2>3 DEF Exits, Phases
  <2> QED BY <1>3, <2>1, <2>2, <2>3 DEF Daemonize
<1>4. CASE Configure(d) \/ FindNoKey(d) \/ LoadKey(d)
  BY <1>1, <1>4, GoingOn
     DEF Configure, FindNoKey, LoadKey, Exits, Phases, StepsLeft, Left
<1>5. CASE LoadFails(d) \/ WriteFails(d)
  BY <1>1, <1>5 DEF LoadFails, WriteFails, Exits, Phases
<1>6. CASE Generate(d) \/ OpenFile(d) \/ WriteKey(d)
  BY <1>1, <1>6, GoingOn
     DEF Generate, OpenFile, WriteKey, Exits, Phases, StepsLeft, Left
<1>7. CASE Listen(d) \/ Serve(d)
  BY <1>1, <1>7, GoingOn DEF Listen, Serve, Exits, Phases, StepsLeft, Left
<1>8. CASE Crash(d)
  BY <1>1, <1>8 DEF Crash, Exits
<1> QED
  BY <1>2, <1>3, <1>4, <1>5, <1>6, <1>7, <1>8 DEF Main

\* A start takes at most twelve steps (main.go:65-248).
THEOREM StartsAreShort == Spec => StartsGetOn
<1>1. ASSUME Types, Types', EnvType, [Next]_vars, ~UNCHANGED vars,
             NEW d \in Daemons
      PROVE  /\ Main(d) => StepsLeft(d)' < StepsLeft(d)
             /\ pc[d] # "down" => StepsLeft(d)' <= StepsLeft(d)
  <2>1. Main(d) => StepsLeft(d)' < StepsLeft(d)
    BY <1>1, MainGetsOn
  <2>2. ASSUME StepsLeft(d)' = StepsLeft(d) \/ StepsLeft(d)' < StepsLeft(d)
        PROVE  StepsLeft(d)' <= StepsLeft(d)
    <3>1. pc'[d] \in Phases /\ StepsLeft(d) \in 0..12
      BY <1>1, StepsLeftNatural DEF Types
    <3>2. StepsLeft(d)' \in 0..12
      BY <3>1, LeftNatural DEF StepsLeft
    <3> QED BY <2>2, <3>1, <3>2
  <2>3. ASSUME pc[d] # "down"
        PROVE  StepsLeft(d)' = StepsLeft(d) \/ StepsLeft(d)' < StepsLeft(d)
    <3>1. CASE \E e \in Daemons : Start(e)
      <4>1. PICK e \in Daemons : Start(e)
        BY <3>1
      <4>2. pc'[d] = pc[d] /\ env' = env
        BY <1>1, <2>3, <4>1 DEF Start, Types
      <4> QED BY <4>2 DEF StepsLeft, Left
    <3>2. CASE \E e \in Daemons : Main(e) \/ Crash(e)
      BY <1>1, <3>2, MainGetsOn
    <3>3. CASE PowerLoss
      BY <1>1, <2>3, <3>3, GoneHasNoSteps, StepsLeftNatural DEF PowerLoss
    <3>4. CASE \E p \in Paths : Sync(p) \/ Remove(p)
      BY <3>4 DEF Sync, Remove, daemonVars, StepsLeft
    <3> QED BY <1>1, <3>1, <3>2, <3>3, <3>4 DEF Next
  <2> QED BY <2>1, <2>2, <2>3
<1>2. Types /\ Types' /\ EnvType /\ [Next]_vars =>
        [\A d \in Daemons :
            /\ Main(d) => StepsLeft(d)' < StepsLeft(d)
            /\ pc[d] # "down" => StepsLeft(d)' <= StepsLeft(d)]_vars
  BY <1>1
<1>3. IInv => Types
  BY DEF IInv
<1> QED BY <1>2, <1>3, Invariant, EnvInvariant, PTL DEF Spec, StartsGetOn
=============================================================================
