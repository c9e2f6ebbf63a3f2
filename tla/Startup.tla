------------------------------ MODULE Startup ------------------------------
(***************************************************************************)
(* The start of wsshd: main of cmd/wsshd/main.go from its flags to         *)
(* hs.Serve, with daemonize and with LoadOrGenerateHostKey of              *)
(* internal/server/keys.go.  Several daemons start, stop and crash on one  *)
(* machine and may share a host key file; the machine may lose power.      *)
(*                                                                         *)
(* A daemon is one slot, the process that daemonizes and its child         *)
(* included, of which only one goes on.  A host key is the number of the   *)
(* start that generated it: keys are never generated twice.                *)
(***************************************************************************)
EXTENDS Config, FiniteSets

CONSTANTS
    Daemons,
    Paths,       \* host key paths
    Launches,    \* command lines and configuration files, see NoLaunch
    MaxStarts    \* bound on the number of starts

ASSUME StartsNatural == MaxStarts \in Nat
ASSUME PathsOfLaunches ==
    \A l \in Launches :
        Merge(Defaults, l.overlay, CliOverlay(l.flags)).hostkey \in Paths

VARIABLES
    file,     \* the host key files: Absent, Torn or a key
    dirty,    \* a file's content is not on the disk yet
    unlinked, \* the daemons that write to a file which is no longer in its place
    starts,   \* how often a daemon was started
    pc,       \* where each daemon is, see Phases
    launch,   \* what it was started with
    env,      \* it has _WSSHD_DAEMON in its environment
    start,    \* the number of its start
    config,   \* resolved
    signer,   \* its host key, or NoKey
    tls,      \* it serves TLS
    known,    \* history: the keys clients have seen of each path
    raced,    \* history: while a daemon was making a file, another one found
              \* none, or an operator removed it
    lost      \* history: a power loss took a complete key

fileVars == <<file, dirty, unlinked>>
daemonVars == <<pc, launch, env, start, config, signer, tls>>
historyVars == <<known, raced, lost>>
vars == <<fileVars, starts, daemonVars, historyVars>>

Absent == -1
Torn == 0       \* empty, or cut short
NoKey == 0
IsKey(content) == content > 0

\* In the order of the code; "down" before a start and after the exit.
Phases == {"down", "flags", "daemonize", "config", "read", "generate", "open",
           "write", "listen", "tls", "serving"}
Making == {"generate", "open", "write"}

\* flags is a function on the flags given; -D and -config are apart, and so is
\* an argument that is not a flag, after which no flag is seen.
NoLaunch == [flags |-> NoOverlay, foreground |-> FALSE, positional |-> FALSE,
             file |-> "none", overlay |-> NoOverlay]

\* The path daemon d uses.
KeyPath(d) == config[d].hostkey

Init ==
    /\ file = [p \in Paths |-> Absent]
    /\ dirty = [p \in Paths |-> FALSE]
    /\ unlinked = {}
    /\ starts = 0
    /\ pc = [d \in Daemons |-> "down"]
    /\ launch = [d \in Daemons |-> NoLaunch]
    /\ env = [d \in Daemons |-> FALSE]
    /\ start = [d \in Daemons |-> 0]
    /\ config = [d \in Daemons |-> Defaults]
    /\ signer = [d \in Daemons |-> NoKey]
    /\ tls = [d \in Daemons |-> FALSE]
    /\ known = [p \in Paths |-> {}]
    /\ raced = {}
    /\ lost = {}

\* A shell or the service manager starts daemon d.
Start(d) ==
    /\ pc[d] = "down"
    /\ starts < MaxStarts
    /\ starts' = starts + 1
    /\ start' = [start EXCEPT ![d] = starts + 1]
    /\ \E l \in Launches : launch' = [launch EXCEPT ![d] = l]
    /\ pc' = [pc EXCEPT ![d] = "flags"]
    /\ UNCHANGED <<fileVars, env, config, signer, tls, historyVars>>

\* The daemons ds are gone: they fail, crash, or are stopped.
Gone(ds) ==
    /\ pc' = [d \in Daemons |-> IF d \in ds THEN "down" ELSE pc[d]]
    /\ launch' = [d \in Daemons |-> IF d \in ds THEN NoLaunch ELSE launch[d]]
    /\ env' = [d \in Daemons |-> d \notin ds /\ env[d]]
    /\ start' = [d \in Daemons |-> IF d \in ds THEN 0 ELSE start[d]]
    /\ config' = [d \in Daemons |-> IF d \in ds THEN Defaults ELSE config[d]]
    /\ signer' = [d \in Daemons |-> IF d \in ds THEN NoKey ELSE signer[d]]
    /\ tls' = [d \in Daemons |-> d \notin ds /\ tls[d]]
    /\ unlinked' = unlinked \ ds

Step(d, from, to) ==
    /\ pc[d] = from
    /\ pc' = [pc EXCEPT ![d] = to]
    /\ UNCHANGED <<starts, launch, start>>

\* d exits at phase "from" and leaves the files as they are.
Exits(d, from) ==
    /\ pc[d] = from
    /\ Gone({d})
    /\ UNCHANGED <<file, dirty, starts, historyVars>>

-----------------------------------------------------------------------------
(* Flags, daemon and configuration.                                        *)

\* flag.Parse; the -D that daemonize has appended comes after the arguments.
Foreground(d) ==
    launch[d].foreground \/ (env[d] /\ ~launch[d].positional)

ParseFlags(d) ==
    /\ Step(d, "flags", IF Foreground(d) THEN "config" ELSE "daemonize")
    /\ UNCHANGED <<fileVars, env, config, signer, tls, historyVars>>

\* Mutant: daemonize relies on the -D it appends.
Daemonize_Unmarked(d) ==
    \/ /\ Step(d, "daemonize", "flags")
       /\ env' = [env EXCEPT ![d] = TRUE]
       /\ UNCHANGED <<fileVars, config, signer, tls, historyVars>>
    \/ Exits(d, "daemonize")

\* daemonize: the child returns at once; the parent starts it and exits, so
\* that the child goes on from the top, or exits without a child.
Daemonize(d) ==
    \/ /\ env[d]
       /\ Step(d, "daemonize", "config")
       /\ UNCHANGED <<fileVars, env, config, signer, tls, historyVars>>
    \/ /\ ~env[d]
       /\ Step(d, "daemonize", "flags")
       /\ env' = [env EXCEPT ![d] = TRUE]
       /\ UNCHANGED <<fileVars, config, signer, tls, historyVars>>
    \/ ~env[d] /\ Exits(d, "daemonize")

\* The configuration d is started with.
Resolved(d) ==
    Merge(Defaults, launch[d].overlay, CliOverlay(launch[d].flags))

\* Load, Merge and Validate.
Configure(d) ==
    \/ /\ Step(d, "config", "read")
       /\ launch[d].file \in {"none", "good"}
       /\ Validate(Resolved(d))
       /\ config' = [config EXCEPT ![d] = Resolved(d)]
       /\ UNCHANGED <<fileVars, env, signer, tls, historyVars>>
    \/ /\ launch[d].file = "bad" \/ ~Validate(Resolved(d))
       /\ Exits(d, "config")

-----------------------------------------------------------------------------
(* LoadOrGenerateHostKey.                                                  *)

\* Mutant: a file that cannot be parsed is as good as none.
Missing_Unparsed(p) == ~IsKey(file[p])

Missing(p) == file[p] = Absent

\* os.ReadFile finds no file.
FindNoKey(d) ==
    LET p == KeyPath(d)
        Makers == {e \in Daemons : pc[e] \in Making /\ KeyPath(e) = p}
    IN  /\ Step(d, "read", "generate")
        /\ Missing(p)
        /\ raced' = IF file[p] = Absent /\ Makers # {}
                    THEN raced \cup {p} ELSE raced
        /\ UNCHANGED <<fileVars, env, config, signer, tls, known, lost>>

\* os.ReadFile and ParsePrivateKey succeed.
LoadKey(d) ==
    /\ Step(d, "read", "listen")
    /\ IsKey(file[KeyPath(d)])
    /\ signer' = [signer EXCEPT ![d] = file[KeyPath(d)]]
    /\ UNCHANGED <<fileVars, env, config, tls, historyVars>>

\* The file is there and cannot be read or parsed.
LoadFails(d) ==
    /\ ~Missing(KeyPath(d))
    /\ Exits(d, "read")

\* GenerateKey and MkdirAll.
Generate(d) ==
    \/ /\ Step(d, "generate", "open")
       /\ UNCHANGED <<fileVars, env, config, signer, tls, historyVars>>
    \/ Exits(d, "generate")

\* os.WriteFile opens the file and truncates it.
OpenFile(d) ==
    \/ /\ Step(d, "open", "write")
       /\ file' = [file EXCEPT ![KeyPath(d)] = Torn]
       /\ dirty' = [dirty EXCEPT ![KeyPath(d)] = TRUE]
       /\ UNCHANGED <<unlinked, env, config, signer, tls, historyVars>>
    \/ Exits(d, "open")

\* What is written through the descriptor of d; into a file that has been
\* removed, nobody will find it.
Write(d, content) ==
    IF d \in unlinked
    THEN UNCHANGED <<file, dirty>>
    ELSE /\ file' = [file EXCEPT ![KeyPath(d)] = content]
         /\ dirty' = [dirty EXCEPT ![KeyPath(d)] = TRUE]

\* os.WriteFile writes the key that was generated.
WriteKey(d) ==
    /\ Step(d, "write", "listen")
    /\ Write(d, start[d])
    /\ unlinked' = unlinked \ {d}
    /\ signer' = [signer EXCEPT ![d] = start[d]]
    /\ UNCHANGED <<env, config, tls, historyVars>>

\* Mutant: the error of WriteFile is ignored.
WriteFails_Ignored(d) ==
    /\ Step(d, "write", "listen")
    /\ Write(d, Torn)
    /\ unlinked' = unlinked \ {d}
    /\ signer' = [signer EXCEPT ![d] = start[d]]
    /\ UNCHANGED <<env, config, tls, historyVars>>

\* The disk is full: less than the key is written.
WriteFails(d) ==
    /\ pc[d] = "write"
    /\ Write(d, Torn)
    /\ Gone({d})
    /\ UNCHANGED <<starts, historyVars>>

-----------------------------------------------------------------------------
(* The listener.                                                           *)

AddressTaken(d) ==
    \E e \in Daemons :
        pc[e] \in {"tls", "serving"} /\ config[e].addr = config[d].addr

Listen(d) ==
    \/ /\ ~AddressTaken(d)
       /\ Step(d, "listen", "tls")
       /\ UNCHANGED <<fileVars, env, config, signer, tls, historyVars>>
    \/ Exits(d, "listen")

\* The certificate is loaded, if there is one, and hs.Serve called.
Serve(d) ==
    \/ /\ Step(d, "tls", "serving")
       /\ tls' = [tls EXCEPT ![d] = config[d].cert # None]
       /\ known' = [known EXCEPT ![KeyPath(d)] = @ \cup {signer[d]}]
       /\ UNCHANGED <<fileVars, env, config, signer, raced, lost>>
    \/ /\ config[d].cert # None
       /\ Exits(d, "tls")

-----------------------------------------------------------------------------
(* The world.                                                              *)

\* d crashes, is killed, or is stopped and ends.
Crash(d) == \E from \in Phases \ {"down"} : Exits(d, from)

\* The kernel writes a file to the disk.
Sync(p) ==
    /\ dirty[p]
    /\ dirty' = [dirty EXCEPT ![p] = FALSE]
    /\ UNCHANGED <<file, unlinked, starts, daemonVars, historyVars>>

\* Nothing in the code waits for that: content that is not on the disk may be
\* lost or cut short.
PowerLoss ==
    /\ \E survives \in [Paths -> {"whole", "torn", "absent"}] :
         /\ \A p \in Paths : dirty[p] \/ survives[p] = "whole"
         /\ file' = [p \in Paths |->
                       CASE survives[p] = "whole"  -> file[p]
                         [] survives[p] = "torn"   -> Torn
                         [] survives[p] = "absent" -> Absent]
    /\ lost' = lost \cup {p \in Paths : IsKey(file[p]) /\ file'[p] # file[p]}
    /\ dirty' = [p \in Paths |-> FALSE]
    /\ Gone(Daemons)
    /\ UNCHANGED <<starts, known, raced>>

\* An operator removes a file that no daemon starts with.  One that has the
\* file open goes on writing to it.
Remove(p) ==
    LET Writers == {d \in Daemons : pc[d] = "write" /\ KeyPath(d) = p}
    IN  /\ file[p] = Torn
        /\ file' = [file EXCEPT ![p] = Absent]
        /\ dirty' = [dirty EXCEPT ![p] = FALSE]
        /\ unlinked' = unlinked \cup Writers
        /\ raced' = IF Writers # {} THEN raced \cup {p} ELSE raced
        /\ UNCHANGED <<starts, daemonVars, known, lost>>

Main(d) ==
    \/ ParseFlags(d) \/ Daemonize(d) \/ Configure(d)
    \/ FindNoKey(d) \/ LoadKey(d) \/ LoadFails(d) \/ Generate(d)
    \/ OpenFile(d) \/ WriteKey(d) \/ WriteFails(d) \/ Listen(d) \/ Serve(d)

Next ==
    \/ \E d \in Daemons : Start(d) \/ Main(d) \/ Crash(d)
    \/ \E p \in Paths : Sync(p) \/ Remove(p)
    \/ PowerLoss

Spec == Init /\ [][Next]_vars

\* The scheduler runs every process.
FairSpec == Spec /\ \A d \in Daemons : WF_vars(Main(d))

-----------------------------------------------------------------------------
(* Properties.                                                             *)

\* Clients see one host key for as long as the file is used, through crashes
\* in the write, full disks and files the operator removes because they are
\* torn (keys.go:15-19) -- except after two first starts at the same time,
\* after the removal of a file under the hands of the daemon that writes it,
\* and after a power loss, since the file is not synced.
OneIdentity ==
    \A p \in Paths \ (raced \cup lost) : Cardinality(known[p]) <= 1

\* The key a daemon serves is the one the next daemon will read
\* (keys.go:23-38), with the same exceptions of two first starts and of the
\* removal of a file that is being written.
ServesFileKey ==
    \A d \in Daemons :
        pc[d] = "serving" /\ KeyPath(d) \notin raced =>
            file[KeyPath(d)] = signer[d]

\* "Precedence: explicit CLI flag > config file > built-in default"
\* (README.md:76-77), where an empty -trusted-proxies is no flag
\* (README.md:175-180).
Documented(l, f) ==
    IF f \in DOMAIN l.flags /\ (f = "trusted_proxies" => l.flags[f] # {})
    THEN l.flags[f]
    ELSE IF f \in DOMAIN l.overlay THEN l.overlay[f] ELSE Defaults[f]

\* A daemon that serves, detached or not, does so as it was told: each setting
\* comes from where the precedence says, and with TLS exactly if a certificate
\* was given, and a key with it (main.go:148-183, 222-231).
ServesAsConfigured ==
    \A d \in Daemons : pc[d] = "serving" =>
        /\ \A f \in Fields : config[d][f] = Documented(launch[d], f)
        /\ tls[d] = (Documented(launch[d], "cert") # None)
        /\ tls[d] = (Documented(launch[d], "key") # None)

\* A start comes to an end, whatever the arguments make of the appended -D
\* (main.go:65-99).
StartEnds ==
    \A d \in Daemons : pc[d] = "flags" ~> pc[d] \in {"serving", "down"}
=============================================================================
