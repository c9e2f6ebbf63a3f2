-------------------------------- MODULE Auth --------------------------------
(***************************************************************************)
(* One connection from authentication to its first child: LoadSigners of   *)
(* internal/client/signers.go, publicKeyCallback with loadAuthorizedKeys   *)
(* and openVerifiedAuthorizedKeys of internal/server/auth.go, the checks   *)
(* of perms_unix.go, the user record serveConn passes on, and              *)
(* credentialsFor of proc_unix.go, on Unix.  Meanwhile users edit, replace *)
(* and remove the files that are checked, and accounts change.             *)
(*                                                                         *)
(* "Safe" stands for the verdict of checkInfoPerms: owned by the user or   *)
(* by root, and not writable for others.  The file is read in one step.    *)
(* golang.org/x/crypto/ssh asks the callback once for a key, before the    *)
(* client signs, and keeps the answer.  Supplementary groups are left out. *)
(***************************************************************************)
EXTENDS Integers, Sequences

CONSTANTS
    KeyFiles,      \* the client's key files in their order
    Listings,      \* sets of keys that files list
    MaxAuthTries,  \* of ssh.ServerConfig
    MaxChanges     \* bound on the changes of files and accounts

Keys == {KeyFiles[i] : i \in DOMAIN KeyFiles}

ASSUME FilesInOrder == KeyFiles \in Seq(Keys)
ASSUME ListingsOfKeys == Listings \subseteq SUBSET Keys
ASSUME TriesPositive == MaxAuthTries \in Nat \ {0}
ASSUME ChangesNatural == MaxChanges \in Nat

VARIABLES
    root,      \* the daemon runs as root
    name,      \* the user asked for: the daemon's "own" or "another"
    passwd,    \* the account of that name
    home, dir, \* the home directory and .ssh are safe
    path,      \* the file that is authorized_keys, or NoFile
    files,     \* what each file lists, whether it is safe, and was ever
    changes,   \* how many changes there were
    offers,    \* the keys the client has
    tried,     \* how many it has offered
    failures,  \* how many of them failed
    pc,        \* where the callback or the connection is, see Phases
    u,         \* the account it has looked up
    fd,        \* the file it has opened
    child,     \* the uid of the child, or NoChild
    homeWas, dirWas, uids   \* history: what held since the callback began

worldVars == <<passwd, home, dir, path, files, changes>>
connVars == <<tried, failures, pc, u, fd, child>>
historyVars == <<homeWas, dirWas, uids>>
vars == <<root, name, offers, worldVars, connVars, historyVars>>

Phases == {"offer", "lookup", "home", "dir", "open", "stat", "read", "sign", "accepted",
           "started", "refused"}

NoFile == 0
Inodes == 1..(MaxChanges + 1)
NoChild == -2
Malformed == -1   \* an id that is not a number
RootUid == 0
OwnUid == 1
Unknown == [uid |-> Malformed, gid |-> Malformed]   \* no such account

\* The account of the daemon is in order; another may be anything.
Accounts(n) ==
    IF n = "own" THEN {[uid |-> OwnUid, gid |-> 1]}
    ELSE {Unknown, [uid |-> 2, gid |-> 2], [uid |-> 3, gid |-> 3],
          [uid |-> 2, gid |-> Malformed]}

\* LoadSigners may return the keys of some files in the files' order; it skips
\* those that cannot be read or parsed, and without any key the client ends.
LoadSigners ==
    LET Orders(n) == {f \in [1..n -> DOMAIN KeyFiles] :
                        \A i, j \in 1..n : i < j => f[i] < f[j]}
    IN  UNION {{[i \in 1..n |-> KeyFiles[f[i]]] : f \in Orders(n)} :
               n \in 1..Len(KeyFiles)}

NewFile(listed, safe) == [listed |-> listed, safe |-> safe, wasSafe |-> safe]

Init ==
    /\ root \in BOOLEAN
    /\ name \in {"own", "another"}
    /\ passwd \in Accounts(name)
    /\ home \in BOOLEAN /\ dir \in BOOLEAN
    /\ path \in {NoFile, 1}
    /\ \E listed \in Listings, safe \in BOOLEAN :
         files = [i \in Inodes |-> IF i = path THEN NewFile(listed, safe)
                                               ELSE NewFile({}, FALSE)]
    /\ changes = 0
    /\ offers \in LoadSigners
    /\ tried = 0 /\ failures = 0
    /\ pc = "offer"
    /\ u = Unknown
    /\ fd = NoFile
    /\ child = NoChild
    /\ homeWas = home /\ dirWas = dir
    /\ uids = {passwd.uid}

-----------------------------------------------------------------------------
(* Users and administrators.                                               *)

\* What changes when nothing is left to be decided is left out.
Change ==
    /\ changes < MaxChanges
    /\ pc \notin {"started", "refused"}
    /\ changes' = changes + 1
    /\ homeWas' = (homeWas \/ home')
    /\ dirWas' = (dirWas \/ dir')
    /\ uids' = uids \cup {passwd'.uid}
    /\ UNCHANGED <<root, name, offers, connVars>>

ChangeAccount ==
    /\ passwd' \in Accounts(name)
    /\ UNCHANGED <<home, dir, path, files>>
    /\ Change

\* chmod or chown of a directory
ChangeDirs ==
    /\ pc # "accepted"
    /\ home' \in BOOLEAN /\ dir' \in BOOLEAN
    /\ UNCHANGED <<passwd, path, files>>
    /\ Change

\* The file is edited in place, or its mode or owner changes.
ChangeFile ==
    /\ path # NoFile /\ pc # "accepted"
    /\ \E listed \in Listings, safe \in BOOLEAN :
         files' = [files EXCEPT ![path] =
                     [listed |-> listed, safe |-> safe,
                      wasSafe |-> files[path].wasSafe \/ safe]]
    /\ UNCHANGED <<passwd, home, dir, path>>
    /\ Change

\* Another file is put in its place, as editors do, or it is removed.
ReplaceFile ==
    /\ pc # "accepted"
    /\ \/ path' = NoFile /\ UNCHANGED files
       \/ /\ changes < MaxChanges
          /\ path' = changes + 2
          /\ \E listed \in Listings, safe \in BOOLEAN :
               files' = [files EXCEPT ![changes + 2] = NewFile(listed, safe)]
    /\ UNCHANGED <<passwd, home, dir>>
    /\ Change

-----------------------------------------------------------------------------
(* The callback.                                                           *)

Step(from, to) ==
    /\ pc = from
    /\ pc' = to
    /\ UNCHANGED <<root, name, offers, worldVars, child>>

\* Mutant: one failure too many cuts the client off.
CutOff_Early(n) == n >= MaxAuthTries - 1

\* NewServerConn gives up.
CutOff(n) == n >= MaxAuthTries

\* The callback refuses the key the client has offered.
Refuse(from) ==
    /\ Step(from, IF CutOff(failures + 1) THEN "refused" ELSE "offer")
    /\ failures' = failures + 1
    /\ fd' = NoFile
    /\ UNCHANGED <<tried, u, historyVars>>

\* The client offers its next key; only the daemon's own user is served
\* without root.
Offer ==
    /\ tried < Len(offers)
    /\ tried' = tried + 1
    /\ Step("offer", "lookup")
    /\ homeWas' = home /\ dirWas' = dir
    /\ uids' = {passwd.uid}
    /\ UNCHANGED <<failures, u, fd>>

\* It has no key left.
NoKeyLeft ==
    /\ tried = Len(offers)
    /\ Step("offer", "refused")
    /\ UNCHANGED <<tried, failures, u, fd, historyVars>>

Permitted == root \/ name = "own"

\* user.Lookup, and the uid is parsed.
Lookup ==
    /\ Permitted /\ passwd.uid # Malformed
    /\ Step("lookup", "home")
    /\ u' = passwd
    /\ UNCHANGED <<tried, failures, fd, historyVars>>

LookupFails ==
    /\ ~Permitted \/ passwd.uid = Malformed
    /\ Refuse("lookup")

\* checkPathPerms of the home directory and of .ssh
CheckHome ==
    \/ /\ home
       /\ Step("home", "dir")
       /\ UNCHANGED <<tried, failures, u, fd, historyVars>>
    \/ ~home /\ Refuse("home")

CheckDir ==
    \/ /\ dir
       /\ Step("dir", "open")
       /\ UNCHANGED <<tried, failures, u, fd, historyVars>>
    \/ ~dir /\ Refuse("dir")

OpenFile ==
    \/ /\ path # NoFile
       /\ Step("open", "stat")
       /\ fd' = path
       /\ UNCHANGED <<tried, failures, u, historyVars>>
    \/ path = NoFile /\ Refuse("open")

\* Mutant: the path is checked and not the file that was opened.
Verified_Path == path # NoFile /\ files[path].safe

\* f.Stat and checkInfoPerms
Verified == files[fd].safe

CheckFile ==
    \/ /\ Step("stat", "read")
       /\ Verified
       /\ UNCHANGED <<tried, failures, u, fd, historyVars>>
    \/ Refuse("stat") /\ ~Verified

\* The file is read, and the key looked for in it.
ReadFile ==
    \/ /\ Step("read", "sign")
       /\ offers[tried] \in files[fd].listed
       /\ UNCHANGED <<tried, failures, u, fd, historyVars>>
    \/ Refuse("read") /\ offers[tried] \notin files[fd].listed

\* The client signs with the key, and the answer is still the same.
Sign ==
    /\ Step("sign", "accepted")
    /\ UNCHANGED <<tried, failures, u, fd, historyVars>>

-----------------------------------------------------------------------------
(* The child of a session.                                                 *)

\* Mutant: without credentials the child is started all the same.
Credentials_Ignored ==
    IF ~root THEN {OwnUid} ELSE IF u.gid = Malformed THEN {RootUid} ELSE {u.uid}

\* The uid a child gets from credentialsFor, if any: without root there is
\* nothing to change, and an id that is not a number is an error.
Credentials ==
    IF ~root THEN {OwnUid} ELSE IF u.gid = Malformed THEN {} ELSE {u.uid}

StartChild ==
    /\ pc = "accepted"
    /\ pc' = "started"
    /\ child' \in Credentials
    /\ UNCHANGED <<root, name, offers, worldVars, tried, failures, u, fd,
                   historyVars>>

Over ==
    /\ \/ pc \in {"started", "refused"}
       \/ pc = "accepted" /\ Credentials = {}
    /\ UNCHANGED vars

Callback ==
    \/ Offer \/ NoKeyLeft \/ Lookup \/ LookupFails \/ CheckHome \/ CheckDir
    \/ OpenFile \/ CheckFile \/ ReadFile \/ Sign

Next ==
    \/ ChangeAccount \/ ChangeDirs \/ ChangeFile \/ ReplaceFile
    \/ Callback \/ StartChild \/ Over

Spec == Init /\ [][Next]_vars

-----------------------------------------------------------------------------
(* Properties.                                                             *)

Granted == pc \in {"sign", "accepted", "started"}

\* "refuses auth if ~/.ssh, authorized_keys, or the home directory are
\* group/world-writable or owned by the wrong user" (README.md:141-142), while
\* all of them change: at some time since the key was offered each directory
\* was safe, and the very file that was read, not just the one that had its
\* name, was safe at some time (auth.go:136-155).
AcceptedWasAuthorized ==
    Granted => Permitted /\ homeWas /\ dirWas /\ files[fd].wasSafe

\* A user in order, who has one of the first MaxAuthTries keys on a safe file,
\* gets in, unless something changes (auth.go:59-94, server.go:144-148).
InOrder ==
    /\ Permitted /\ passwd.uid # Malformed
    /\ home /\ dir /\ path # NoFile /\ files[path].safe
    /\ \E i \in DOMAIN offers : i <= MaxAuthTries /\ offers[i] \in files[path].listed
AuthorizedIsAdmitted == InOrder /\ changes = 0 => pc # "refused"

\* A child runs as the user that was authenticated, never as root for lack of
\* an id, also if the account has changed since (server.go:268-275,
\* proc_unix.go:50-73).
ChildRunsAsUser == child # NoChild => child \in uids
=============================================================================
