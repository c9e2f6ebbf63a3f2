----------------------------- MODULE AuthProofs -----------------------------
(***************************************************************************)
(* Proofs about Auth, for any keys, any listings and any number of changes.*)
(***************************************************************************)
EXTENDS Auth, TLAPS

\* The types the proofs need; what is offered does not matter to them.
Types ==
    /\ pc \in Phases
    /\ home \in BOOLEAN /\ dir \in BOOLEAN
    /\ homeWas \in BOOLEAN /\ dirWas \in BOOLEAN
    /\ passwd \in Accounts(name)
    /\ changes \in 0..MaxChanges
    /\ path \in 0..(changes + 1)   \* files that come later were never seen
    /\ fd \in 0..(changes + 1)
    /\ files \in [Inodes -> [listed : Listings \cup {{}}, safe : BOOLEAN,
                             wasSafe : BOOLEAN]]

\* The history covers the present.
Remembered ==
    /\ home => homeWas
    /\ dir => dirWas
    /\ passwd.uid \in uids
    /\ \A i \in Inodes : files[i].safe => files[i].wasSafe

\* What the callback has established when it is past a check.
PastLookup ==
    pc \notin {"offer", "lookup", "refused"} => Permitted /\ u.uid \in uids
PastHome == pc \notin {"offer", "lookup", "home", "refused"} => homeWas
PastDir == pc \notin {"offer", "lookup", "home", "dir", "refused"} => dirWas
PastOpen == pc \in {"stat", "read"} \/ Granted => fd # NoFile
PastStat == pc = "read" \/ Granted => files[fd].wasSafe
Established == PastLookup /\ PastHome /\ PastDir /\ PastOpen /\ PastStat

\* There is a child only in the end, and its uid is one the account had.
ChildStarted == child # NoChild => pc = "started" /\ child \in uids

IInv == Types /\ Remembered /\ Established /\ ChildStarted

-----------------------------------------------------------------------------
\* The invariant holds in the initial states.
LEMMA InitInvariant == Init => IInv
<1> SUFFICES ASSUME Init PROVE IInv
  OBVIOUS
<1>1. Types
  BY ChangesNatural DEF Init, Types, Phases, Inodes, NoFile, NewFile
<1>2. Remembered
  BY DEF Init, Remembered, Inodes, NewFile
<1>3. Established /\ ChildStarted
  BY DEF Init, Established, PastLookup, PastHome, PastDir, PastOpen, PastStat,
         Granted, ChildStarted
<1> QED BY <1>1, <1>2, <1>3 DEF IInv

\* A change of files or accounts adds to the history, and takes no file and no
\* verdict from the callback.
LEMMA ChangeKeepsInvariant ==
    ASSUME IInv, ChangeAccount \/ ChangeDirs \/ ChangeFile \/ ReplaceFile
    PROVE  IInv'
<1>1. /\ changes' \in 0..MaxChanges /\ changes' = changes + 1
      /\ homeWas' = (homeWas \/ home') /\ dirWas' = (dirWas \/ dir')
      /\ uids' = uids \cup {passwd'.uid}
      /\ UNCHANGED <<root, name, pc, u, fd, child>>
  BY ChangesNatural
     DEF ChangeAccount, ChangeDirs, ChangeFile, ReplaceFile, Change, connVars,
         IInv, Types
<1>2. /\ passwd' \in Accounts(name) /\ home' \in BOOLEAN /\ dir' \in BOOLEAN
      /\ path' \in 0..(changes' + 1)
  BY ChangesNatural
     DEF ChangeAccount, ChangeDirs, ChangeFile, ReplaceFile, Change, IInv, Types,
         Inodes, NoFile
<1>3. /\ files' \in [Inodes -> [listed : Listings \cup {{}}, safe : BOOLEAN,
                                wasSafe : BOOLEAN]]
      /\ \A i \in Inodes : files'[i].safe => files'[i].wasSafe
      /\ \A i \in 1..(changes + 1) : files[i].wasSafe => files'[i].wasSafe
  <2>1. CASE UNCHANGED files
    BY <2>1 DEF IInv, Types, Remembered
  <2>2. CASE ChangeFile
    BY <2>2, ChangesNatural
       DEF ChangeFile, IInv, Types, Remembered, NoFile, Inodes
  <2>3. CASE ReplaceFile
    <3>1. CASE UNCHANGED files
      BY <2>1, <3>1
    <3>2. CASE \E listed \in Listings, safe \in BOOLEAN :
                 files' = [files EXCEPT ![changes + 2] = NewFile(listed, safe)]
      <4>1. PICK listed \in Listings, safe \in BOOLEAN :
                 files' = [files EXCEPT ![changes + 2] = NewFile(listed, safe)]
        BY <3>2
      <4>2. \A i \in 1..(changes + 1) : i \in Inodes /\ i # changes + 2
        BY ChangesNatural DEF IInv, Types, Inodes
      <4> QED
        BY <4>1, <4>2 DEF IInv, Types, Remembered, NewFile
    <3> QED BY <2>3, <3>1, <3>2 DEF ReplaceFile
  <2> QED
    BY <2>1, <2>2, <2>3 DEF ChangeAccount, ChangeDirs
<1>4. Types'
  BY <1>1, <1>2, <1>3 DEF IInv, Types, Accounts
<1>5. Remembered'
  BY <1>1, <1>3 DEF IInv, Types, Remembered
<1>6. Established'
  <2>1. fd # NoFile => fd \in 1..(changes + 1)
    BY ChangesNatural DEF IInv, Types, NoFile
  <2>2. PastLookup' /\ PastHome' /\ PastDir'
    BY <1>1 DEF IInv, Established, PastLookup, PastHome, PastDir, Permitted
  <2>3. PastOpen' /\ PastStat'
    BY <1>1, <1>3, <2>1 DEF IInv, Established, PastOpen, PastStat, Granted
  <2> QED BY <2>2, <2>3 DEF Established
<1>7. ChildStarted'
  BY <1>1 DEF IInv, ChildStarted
<1> QED BY <1>4, <1>5, <1>6, <1>7 DEF IInv

\* A refusal gives up what was established.
LEMMA RefusalKeepsInvariant ==
    ASSUME IInv, NEW from \in Phases \ {"started"}, Refuse(from)
    PROVE  IInv'
<1>1. /\ pc = from /\ pc' \in {"offer", "refused"} /\ fd' = NoFile
      /\ UNCHANGED <<root, name, passwd, home, dir, path, files, changes, u, child,
                     homeWas, dirWas, uids>>
  BY DEF Refuse, Step, worldVars, historyVars
<1>2. Types' /\ Remembered'
  <2>1. pc' \in Phases /\ fd' \in 0..(changes' + 1)
    BY <1>1, ChangesNatural DEF Phases, IInv, Types, NoFile
  <2> QED BY <1>1, <2>1 DEF IInv, Types, Remembered
<1>3. Established'
  BY <1>1 DEF Established, PastLookup, PastHome, PastDir, PastOpen, PastStat,
              Granted
<1>4. ChildStarted'
  BY <1>1 DEF IInv, ChildStarted
<1> QED BY <1>2, <1>3, <1>4 DEF IInv

\* A key is offered, and the history begins anew; or none is left.
LEMMA OfferKeepsInvariant ==
    ASSUME IInv, Offer \/ NoKeyLeft
    PROVE  IInv'
<1>1. CASE Offer
  <2>1. /\ pc = "offer" /\ pc' = "lookup"
        /\ homeWas' = home /\ dirWas' = dir /\ uids' = {passwd.uid}
        /\ UNCHANGED <<root, name, passwd, home, dir, path, files, changes, u, fd,
                       child>>
    BY <1>1 DEF Offer, Step, worldVars
  <2>2. Types' /\ Remembered'
    BY <2>1 DEF IInv, Types, Remembered, Phases, Accounts
  <2>3. Established' /\ ChildStarted'
    BY <2>1 DEF IInv, Established, PastLookup, PastHome, PastDir, PastOpen,
                PastStat, Granted, ChildStarted
  <2> QED BY <2>2, <2>3 DEF IInv
<1>2. CASE NoKeyLeft
  <2>1. /\ pc = "offer" /\ pc' = "refused"
        /\ UNCHANGED <<root, name, passwd, home, dir, path, files, changes, u, fd,
                       child, homeWas, dirWas, uids>>
    BY <1>2 DEF NoKeyLeft, Step, worldVars, historyVars
  <2>2. Types' /\ Remembered'
    BY <2>1 DEF IInv, Types, Remembered, Phases, Accounts
  <2>3. Established' /\ ChildStarted'
    BY <2>1 DEF IInv, Established, PastLookup, PastHome, PastDir, PastOpen,
                PastStat, Granted, ChildStarted
  <2> QED BY <2>2, <2>3 DEF IInv
<1> QED BY <1>1, <1>2

\* A check that is passed establishes what the next phases rely on.
LEMMA CheckKeepsInvariant ==
    ASSUME IInv,
           Lookup \/ LookupFails \/ CheckHome \/ CheckDir \/ OpenFile \/ CheckFile
             \/ ReadFile \/ Sign
    PROVE  IInv'
<1>1. CASE \E from \in Phases \ {"started"} : Refuse(from)
  BY <1>1, RefusalKeepsInvariant
<1>2. CASE /\ \/ Step("lookup", "home") /\ Permitted /\ u' = passwd /\ fd' = fd
              \/ Step("home", "dir") /\ home /\ UNCHANGED <<u, fd>>
              \/ Step("dir", "open") /\ dir /\ UNCHANGED <<u, fd>>
              \/ /\ Step("open", "stat") /\ path # NoFile /\ u' = u /\ fd' = path
              \/ Step("stat", "read") /\ files[fd].safe /\ UNCHANGED <<u, fd>>
              \/ Step("read", "sign") /\ UNCHANGED <<u, fd>>
              \/ Step("sign", "accepted") /\ UNCHANGED <<u, fd>>
           /\ UNCHANGED historyVars
  <2>1. /\ pc' \in Phases
        /\ UNCHANGED <<root, name, passwd, home, dir, path, files, changes, child,
                       homeWas, dirWas, uids>>
    BY <1>2 DEF Step, worldVars, historyVars, Phases
  <2>2. fd' \in 0..(changes' + 1)
    BY <1>2, <2>1 DEF IInv, Types
  <2>3. Types' /\ Remembered'
    BY <2>1, <2>2 DEF IInv, Types, Remembered
  <2>4. ChildStarted'
    BY <1>2, <2>1 DEF IInv, ChildStarted, Step
  <2>5. PastLookup' /\ PastHome' /\ PastDir'
    BY <1>2, <2>1 DEF IInv, Types, Remembered, Established, PastLookup, PastHome,
                      PastDir, Permitted, Step
  <2>6. PastOpen' /\ PastStat'
    <3>1. fd # NoFile => fd \in Inodes
      BY ChangesNatural DEF IInv, Types, Inodes, NoFile
    <3> QED
      BY <1>2, <2>1, <3>1 DEF IInv, Remembered, Established, PastOpen, PastStat,
                              Granted, Step
  <2> QED BY <2>3, <2>4, <2>5, <2>6 DEF IInv, Established
<1> QED
  BY <1>1, <1>2
     DEF Lookup, LookupFails, CheckHome, CheckDir, OpenFile, CheckFile, Verified,
         ReadFile, Sign, Phases

\* The child gets the uid that was looked up, or the daemon's own, which is then
\* the user's.
LEMMA ChildKeepsInvariant ==
    ASSUME IInv, StartChild
    PROVE  IInv'
<1>1. /\ pc = "accepted" /\ pc' = "started" /\ child' \in Credentials
      /\ UNCHANGED <<root, name, passwd, home, dir, path, files, changes, u, fd,
                     homeWas, dirWas, uids>>
  BY DEF StartChild, worldVars, historyVars
<1>2. child' \in uids
  <2>1. CASE root
    BY <1>1, <2>1 DEF Credentials, IInv, Established, PastLookup
  <2>2. CASE ~root
    <3>1. child' = OwnUid /\ name = "own"
      BY <1>1, <2>2 DEF Credentials, IInv, Established, PastLookup, Permitted
    <3> QED BY <3>1 DEF IInv, Types, Accounts, Remembered
  <2> QED BY <2>1, <2>2
<1>3. Types' /\ Remembered'
  BY <1>1 DEF IInv, Types, Remembered, Phases, Accounts
<1>4. Established' /\ ChildStarted'
  BY <1>1, <1>2 DEF IInv, Established, PastLookup, PastHome, PastDir, PastOpen,
                    PastStat, Granted, Permitted, ChildStarted
<1> QED BY <1>3, <1>4 DEF IInv

\* Every step keeps the invariant.
LEMMA NextInvariant == IInv /\ [Next]_vars => IInv'
<1> SUFFICES ASSUME IInv, [Next]_vars PROVE IInv'
  OBVIOUS
<1>1. CASE UNCHANGED vars
  BY <1>1 DEF vars, worldVars, connVars, historyVars, IInv, Types, Remembered,
              Established, PastLookup, PastHome, PastDir, PastOpen, PastStat,
              Granted, Permitted, ChildStarted, Accounts
<1>2. CASE Next
  BY <1>1, <1>2, ChangeKeepsInvariant, OfferKeepsInvariant, CheckKeepsInvariant,
     ChildKeepsInvariant
     DEF Next, Callback, Over
<1> QED BY <1>1, <1>2

\* The inductive invariant holds in every reachable state.
THEOREM Invariant == Spec => []IInv
<1>1. Init => IInv
  BY InitInvariant
<1>2. IInv /\ [Next]_vars => IInv'
  BY NextInvariant
<1> QED BY <1>1, <1>2, PTL DEF Spec

-----------------------------------------------------------------------------
\* Whoever is let in was permitted, the directories were safe at some time since
\* the key was offered, and so was the file that was read (auth.go:136-155).
THEOREM AcceptedWereAuthorized == Spec => []AcceptedWasAuthorized
<1>1. IInv => AcceptedWasAuthorized
  BY DEF IInv, Established, PastLookup, PastHome, PastDir, PastStat, Granted,
         AcceptedWasAuthorized
<1> QED BY <1>1, Invariant, PTL

\* A child has a uid the user's account had while it was authenticated
\* (proc_unix.go:50-73).
THEOREM ChildrenRunAsUser == Spec => []ChildRunsAsUser
<1>1. IInv => ChildRunsAsUser
  BY DEF IInv, ChildStarted, ChildRunsAsUser
<1> QED BY <1>1, Invariant, PTL

-----------------------------------------------------------------------------
(* The keys that were tried, in a second invariant next to IInv.           *)

\* All keys offered but the present one have failed, and there is a try left
\* for it.
Tried ==
    /\ offers \in Seq(Keys)
    /\ tried \in 0..Len(offers)
    /\ pc \in {"offer", "refused"} => failures = tried
    /\ pc \notin {"offer", "refused"} => failures = tried - 1
    /\ failures \in Nat
    /\ pc # "refused" => failures < MaxAuthTries
    /\ tried <= MaxAuthTries

\* As long as nothing changes, a user in order is refused for keys that are not
\* listed, and for nothing else.
OnlyUnlistedFailed ==
    InOrder /\ changes = 0 =>
        /\ pc # "refused"
        /\ \A i \in 1..failures : offers[i] \notin files[path].listed
        /\ pc \in {"stat", "read"} => fd = path

Attempts == Tried /\ OnlyUnlistedFailed

\* LoadSigners returns keys of the files.
LEMMA LoadedAreKeys == LoadSigners \subseteq Seq(Keys)
<1> SUFFICES ASSUME NEW s \in LoadSigners PROVE s \in Seq(Keys)
  OBVIOUS
<1>0. PICK n \in 1..Len(KeyFiles) :
        \E f \in [1..n -> DOMAIN KeyFiles] :
            s = [i \in 1..n |-> KeyFiles[f[i]]]
  BY DEF LoadSigners
<1>1. PICK f \in [1..n -> DOMAIN KeyFiles] :
        s = [i \in 1..n |-> KeyFiles[f[i]]]
  BY <1>0
<1>2. Len(KeyFiles) \in Nat /\ \A i \in DOMAIN KeyFiles : KeyFiles[i] \in Keys
  BY FilesInOrder DEF Keys
<1> QED BY <1>1, <1>2

\* No key has been tried yet.
LEMMA InitAttempts == Init => Attempts
BY LoadedAreKeys, TriesPositive DEF Init, Attempts, Tried, OnlyUnlistedFailed

\* The world stays as it is in all that the daemon and the client do.
LEMMA Undisturbed ==
    ASSUME UNCHANGED <<root, name, offers, worldVars>>
    PROVE  (InOrder /\ changes = 0)' = (InOrder /\ changes = 0)
BY DEF InOrder, Permitted, worldVars

\* A refusal uses up a try; where the user is in order it is for a key that is
\* not listed, so that a listed one is left and with it a try.
LEMMA RefusalKeepsAttempts ==
    ASSUME Attempts, NEW from \in Phases \ {"offer", "refused"}, Refuse(from),
           InOrder /\ changes = 0 => offers[tried] \notin files[path].listed
    PROVE  Attempts'
<1>1. /\ pc = from /\ fd' = NoFile /\ failures' = failures + 1
      /\ pc' = IF failures + 1 >= MaxAuthTries THEN "refused" ELSE "offer"
      /\ UNCHANGED <<root, name, offers, worldVars, tried>>
  BY DEF Refuse, Step, CutOff
<1>2. failures' = tried /\ Tried'
  BY <1>1, TriesPositive DEF Attempts, Tried
<1>3. ASSUME InOrder, changes = 0
      PROVE  /\ pc' = "offer"
             /\ \A i \in 1..failures' : offers[i] \notin files[path].listed
  <2>1. \A i \in 1..tried : offers[i] \notin files[path].listed
    BY <1>1, <1>3 DEF Attempts, Tried, OnlyUnlistedFailed
  <2>2. PICK i \in DOMAIN offers :
          i <= MaxAuthTries /\ offers[i] \in files[path].listed
    BY <1>3 DEF InOrder
  <2>3. tried < i
    BY <2>1, <2>2 DEF Attempts, Tried
  <2> QED BY <1>1, <1>2, <2>1, <2>2, <2>3, TriesPositive DEF Attempts, Tried
<1>4. OnlyUnlistedFailed'
  BY <1>1, <1>3, Undisturbed DEF OnlyUnlistedFailed, worldVars
<1> QED BY <1>2, <1>4 DEF Attempts

\* A key is offered; or none is left, which a user in order has one.
LEMMA OfferKeepsAttempts ==
    ASSUME Attempts, Offer \/ NoKeyLeft
    PROVE  Attempts'
<1>1. CASE Offer
  <2>1. /\ pc = "offer" /\ pc' = "lookup" /\ tried' = tried + 1
        /\ tried < Len(offers)
        /\ UNCHANGED <<root, name, offers, worldVars, failures, fd>>
    BY <1>1 DEF Offer, Step
  <2>2. Tried'
    BY <2>1, TriesPositive DEF Attempts, Tried
  <2>3. OnlyUnlistedFailed'
    BY <2>1, Undisturbed DEF Attempts, OnlyUnlistedFailed, worldVars
  <2> QED BY <2>2, <2>3 DEF Attempts
<1>2. CASE NoKeyLeft
  <2>1. /\ pc = "offer" /\ pc' = "refused" /\ tried = Len(offers)
        /\ UNCHANGED <<root, name, offers, worldVars, tried, failures, fd>>
    BY <1>2 DEF NoKeyLeft, Step
  <2>2. Tried'
    BY <2>1 DEF Attempts, Tried
  <2>3. ~(InOrder /\ changes = 0)
    BY <2>1 DEF Attempts, Tried, OnlyUnlistedFailed, InOrder
  <2>4. OnlyUnlistedFailed'
    BY <2>1, <2>3, Undisturbed DEF OnlyUnlistedFailed
  <2> QED BY <2>2, <2>4 DEF Attempts
<1> QED BY <1>1, <1>2

\* A check that is passed uses up nothing.
LEMMA PassKeepsAttempts ==
    ASSUME Attempts, NEW from \in Phases \ {"offer", "refused"},
           NEW to \in Phases \ {"offer", "refused"}, Step(from, to),
           UNCHANGED <<tried, failures>>,
           to \in {"stat", "read"} => fd' = path \/ (from = "stat" /\ fd' = fd)
    PROVE  Attempts'
<1>1. /\ pc = from /\ pc' = to
      /\ UNCHANGED <<root, name, offers, worldVars>>
  BY DEF Step
<1>2. Tried'
  BY <1>1 DEF Attempts, Tried
<1>3. OnlyUnlistedFailed'
  BY <1>1, Undisturbed DEF Attempts, OnlyUnlistedFailed, worldVars
<1> QED BY <1>2, <1>3 DEF Attempts

\* A check that fails a user in order, whom nothing has changed, is the one for
\* the key.
LEMMA CheckKeepsAttempts ==
    ASSUME Attempts, Callback
    PROVE  Attempts'
<1>1. CASE Offer \/ NoKeyLeft
  BY <1>1, OfferKeepsAttempts
<1>2. CASE Lookup \/ LookupFails
  BY <1>2, RefusalKeepsAttempts, PassKeepsAttempts
     DEF Lookup, LookupFails, InOrder, Phases
<1>3. CASE CheckHome
  BY <1>3, RefusalKeepsAttempts, PassKeepsAttempts DEF CheckHome, InOrder, Phases
<1>4. CASE CheckDir
  BY <1>4, RefusalKeepsAttempts, PassKeepsAttempts DEF CheckDir, InOrder, Phases
<1>5. CASE OpenFile
  BY <1>5, RefusalKeepsAttempts, PassKeepsAttempts DEF OpenFile, InOrder, Phases
<1>6. CASE CheckFile
  <2>1. CASE Refuse("stat") /\ ~Verified
    <3>1. ~(InOrder /\ changes = 0)
      BY <2>1 DEF Refuse, Step, Attempts, OnlyUnlistedFailed, InOrder, Verified
    <3> QED BY <2>1, <3>1, RefusalKeepsAttempts DEF Phases
  <2>2. CASE Step("stat", "read") /\ UNCHANGED <<tried, failures, u, fd>>
    BY <2>2, PassKeepsAttempts DEF Phases
  <2> QED BY <1>6, <2>1, <2>2 DEF CheckFile
<1>7. CASE ReadFile
  <2>1. CASE Refuse("read") /\ offers[tried] \notin files[fd].listed
    <3>1. InOrder /\ changes = 0 => fd = path
      BY <2>1 DEF Refuse, Step, Attempts, OnlyUnlistedFailed
    <3> QED BY <2>1, <3>1, RefusalKeepsAttempts DEF Phases
  <2>2. CASE Step("read", "sign") /\ UNCHANGED <<tried, failures>>
    BY <2>2, PassKeepsAttempts DEF Phases
  <2> QED BY <1>7, <2>1, <2>2 DEF ReadFile
<1>8. CASE Sign
  BY <1>8, PassKeepsAttempts DEF Sign, Phases
<1> QED
  BY <1>1, <1>2, <1>3, <1>4, <1>5, <1>6, <1>7, <1>8 DEF Callback

\* After a change nothing is promised but the count of tries.
LEMMA ChangeKeepsAttempts ==
    ASSUME IInv, Attempts,
           ChangeAccount \/ ChangeDirs \/ ChangeFile \/ ReplaceFile
    PROVE  Attempts'
<1>1. changes' = changes + 1 /\ changes \in Nat
  BY ChangesNatural
     DEF ChangeAccount, ChangeDirs, ChangeFile, ReplaceFile, Change, IInv, Types
<1>2. UNCHANGED <<offers, tried, failures, pc>>
  BY DEF ChangeAccount, ChangeDirs, ChangeFile, ReplaceFile, Change, connVars
<1> QED BY <1>1, <1>2 DEF Attempts, Tried, OnlyUnlistedFailed

\* What the failed tries mean holds in every reachable state (auth.go:59-94).
THEOREM AttemptsInvariant == Spec => []Attempts
<1>1. Init => Attempts
  BY InitAttempts
<1>2. IInv /\ Attempts /\ [Next]_vars => Attempts'
  <2> SUFFICES ASSUME IInv, Attempts, [Next]_vars PROVE Attempts'
    OBVIOUS
  <2>1. CASE UNCHANGED vars
    <3>1. UNCHANGED <<root, name, offers, worldVars, tried, failures, pc, fd>>
      BY <2>1 DEF vars, connVars
    <3>2. Tried'
      BY <3>1 DEF Attempts, Tried
    <3>3. OnlyUnlistedFailed'
      BY <3>1, Undisturbed DEF Attempts, OnlyUnlistedFailed, worldVars
    <3> QED BY <3>2, <3>3 DEF Attempts
  <2>2. CASE StartChild
    BY <2>2, Undisturbed
       DEF StartChild, Attempts, Tried, OnlyUnlistedFailed, worldVars
  <2> QED
    BY <2>1, <2>2, ChangeKeepsAttempts, CheckKeepsAttempts DEF Next, Over
<1> QED BY <1>1, <1>2, Invariant, PTL DEF Spec

\* A user in order who has a listed key among the first MaxAuthTries gets in,
\* unless something changes, for any number of keys and tries (auth.go:59-94,
\* server.go:144-148).
THEOREM AuthorizedAreAdmitted == Spec => []AuthorizedIsAdmitted
<1>1. Attempts => AuthorizedIsAdmitted
  BY DEF Attempts, OnlyUnlistedFailed, AuthorizedIsAdmitted
<1> QED BY <1>1, AttemptsInvariant, PTL

\* Nobody has more than MaxAuthTries keys looked at (server.go:147).
TriesBounded == tried <= MaxAuthTries
\* For any number of keys (server.go:147).
THEOREM TriesAreBounded == Spec => []TriesBounded
<1>1. Attempts => TriesBounded
  BY DEF Attempts, Tried, TriesBounded
<1> QED BY <1>1, AttemptsInvariant, PTL
=============================================================================
