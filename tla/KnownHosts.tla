----------------------------- MODULE KnownHosts -----------------------------
(***************************************************************************)
(* Host key verification: HostKeyCallback and appendKnownHost of           *)
(* internal/client/hostkey.go, in several runs of the client that share    *)
(* one known_hosts file and connect to one host.                           *)
(*                                                                         *)
(* The file is the set of keys it holds for the host; a file that does not *)
(* exist holds none.  Its last line may lack the newline, because it was   *)
(* edited by hand or a write was cut short; what is appended then becomes  *)
(* part of that line.                                                      *)
(***************************************************************************)
EXTENDS Integers, FiniteSets

CONSTANTS
    Runs,      \* runs of the client
    Keys,      \* keys the host may have
    Torn       \* whether a line may lack its newline, see torn

ASSUME TornBoolean == Torn \subseteq BOOLEAN

VARIABLES
    hostKey,   \* the key the server presents
    file,      \* the keys the file has for the host
    torn,      \* its last line lacks the newline
    garbled,   \* it does not parse
    pc,        \* where a run is, see Phases
    base,      \* the keys it had when it was read
    baseErr,   \* the file did not parse when it was read
    key,       \* the key it was presented
    damaged    \* history: an entry was cut short or follows an incomplete line

fileVars == <<file, torn, garbled, damaged>>
runVars == <<pc, base, baseErr, key>>
vars == <<hostKey, fileVars, runVars>>

Phases == {"start", "loaded", "prompt", "append", "opened", "accepted", "refused"}

Init ==
    /\ hostKey \in Keys
    /\ file \in {{}} \cup {{k} : k \in Keys}
    /\ torn \in Torn
    /\ garbled = FALSE /\ damaged = FALSE
    /\ pc = [r \in Runs |-> "start"]
    /\ base = [r \in Runs |-> {}]
    /\ baseErr = [r \in Runs |-> FALSE]
    /\ key = [r \in Runs |-> hostKey]

Goto(r, from, to) ==
    /\ pc[r] = from
    /\ pc' = [pc EXCEPT ![r] = to]

\* The host gets another key.
Rekey ==
    /\ hostKey' \in Keys \ {hostKey}
    /\ UNCHANGED <<fileVars, runVars>>

-----------------------------------------------------------------------------
\* HostKeyCallback: the file is read before the client connects.
HostKeyCallback(r) ==
    /\ Goto(r, "start", "loaded")
    /\ base' = [base EXCEPT ![r] = IF garbled THEN {} ELSE file]
    /\ baseErr' = [baseErr EXCEPT ![r] = garbled]
    /\ UNCHANGED <<hostKey, fileVars, key>>

\* The host is in the snapshot of the run.
Knows(r) == base[r] # {}

\* The callback is called with the key of the server.
Presented(r) ==
    /\ pc[r] = "loaded"
    /\ key' = [key EXCEPT ![r] = hostKey]
    /\ UNCHANGED <<hostKey, fileVars, base, baseErr>>

Refuse(r) ==
    /\ Presented(r)
    /\ baseErr[r] \/ (Knows(r) /\ hostKey \notin base[r])
    /\ Goto(r, "loaded", "refused")

AcceptKnown(r) ==
    /\ Presented(r)
    /\ ~baseErr[r] /\ Knows(r) /\ hostKey \in base[r]
    /\ Goto(r, "loaded", "accepted")

\* Mutant: a changed key is taken for an unknown host.
Unknown_Changed(r) ==
    /\ Presented(r)
    /\ ~baseErr[r] /\ (Knows(r) => hostKey \notin base[r])
    /\ Goto(r, "loaded", "append") \/ Goto(r, "loaded", "prompt")

\* An unknown host: with AcceptNew it is appended, otherwise the user is asked.
Unknown(r) ==
    /\ Presented(r)
    /\ ~baseErr[r] /\ ~Knows(r)
    /\ Goto(r, "loaded", "append") \/ Goto(r, "loaded", "prompt")

\* The user answers yes; or no, or the input ends.
Answer(r) ==
    /\ Goto(r, "prompt", "append") \/ Goto(r, "prompt", "refused")
    /\ UNCHANGED <<hostKey, fileVars, base, baseErr, key>>

\* appendKnownHost: the path is a symlink or cannot be opened.
AppendFails(r) ==
    /\ Goto(r, "append", "refused")
    /\ UNCHANGED <<hostKey, fileVars, base, baseErr, key>>

\* os.OpenFile with O_APPEND and O_CREATE; a new file is empty.
OpenFile(r) ==
    /\ Goto(r, "append", "opened")
    /\ UNCHANGED <<hostKey, fileVars, base, baseErr, key>>

\* Mutant: the file is written anew.
WriteEntry_Truncates(r) ==
    /\ Goto(r, "opened", "accepted")
    /\ file' = {key[r]}
    /\ torn' = FALSE /\ garbled' = FALSE
    /\ UNCHANGED <<damaged, hostKey, base, baseErr, key>>

\* f.WriteString appends the entry in one write.  After a line without
\* newline it is lost in that line's comment, or makes its key unreadable.
WriteEntry(r) ==
    /\ Goto(r, "opened", "accepted")
    /\ torn' = FALSE
    /\ damaged' = (damaged \/ torn)
    /\ IF torn THEN garbled' \in {garbled, TRUE} /\ UNCHANGED file
               ELSE file' = file \cup {key[r]} /\ UNCHANGED garbled
    /\ UNCHANGED <<hostKey, base, baseErr, key>>

\* f.WriteString returns an error before anything was written.
WriteFails(r) ==
    /\ Goto(r, "opened", "refused")
    /\ UNCHANGED <<hostKey, fileVars, base, baseErr, key>>

\* f.WriteString returns an error after a part: the line does not parse, or
\* it is no entry, or only its newline is missing.
WriteCutShort(r) ==
    /\ TRUE \in Torn
    /\ Goto(r, "opened", "refused")
    /\ torn' = TRUE /\ damaged' = TRUE
    /\ garbled' \in {garbled, TRUE}
    /\ file' = file \/ (~torn /\ file' = file \cup {key[r]})
    /\ UNCHANGED <<hostKey, base, baseErr, key>>

Run(r) ==
    \/ HostKeyCallback(r) \/ Refuse(r) \/ AcceptKnown(r) \/ Unknown(r)
    \/ Answer(r) \/ AppendFails(r) \/ OpenFile(r) \/ WriteEntry(r)
    \/ WriteFails(r) \/ WriteCutShort(r)

Next == Rekey \/ \E r \in Runs : Run(r)

Spec == Init /\ [][Next]_vars

-----------------------------------------------------------------------------
(* Properties.                                                             *)

TypeOK ==
    /\ hostKey \in Keys
    /\ file \subseteq Keys
    /\ torn \in BOOLEAN /\ garbled \in BOOLEAN /\ damaged \in BOOLEAN
    /\ pc \in [Runs -> Phases]
    /\ base \in [Runs -> SUBSET Keys]
    /\ baseErr \in [Runs -> BOOLEAN]
    /\ key \in [Runs -> Keys]
    /\ \A r \in Runs :
         baseErr[r] => base[r] = {} /\ pc[r] \in {"loaded", "refused"}

\* "key appended to the known_hosts file and accepted" (hostkey.go:34-35):
\* whatever other runs append meanwhile, a key that was accepted is in the
\* file, where the next run finds it.  Only a line that was not complete when
\* the next entry was appended can undo that.
AcceptedIsRecorded ==
    \A r \in Runs :
        pc[r] = "accepted" => (key[r] \in file /\ ~garbled) \/ damaged

\* A file that recorded the host is authoritative for every run that starts
\* after that: only by a run that is already under way, and that knew no key,
\* does a second key get into it (hostkey.go:42-91).
KeyAddedByUnaware ==
    [][file' # file /\ file # {} =>
          \E r \in Runs : pc[r] = "opened" /\ pc'[r] # pc[r] /\ ~Knows(r)]_vars
=============================================================================
