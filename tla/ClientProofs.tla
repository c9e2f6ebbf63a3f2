---------------------------- MODULE ClientProofs ----------------------------
(***************************************************************************)
(* Proofs about the client: about KnownHosts, for any number of runs and   *)
(* keys, and about ClientConn, for any limit on failed pings.              *)
(***************************************************************************)
EXTENDS ClientConn, KnownHosts, TLAPS

-----------------------------------------------------------------------------
(* Host key verification.                                                  *)

\* The file only grows, so that what a run has read of it stays true; a run
\* that is about to append has read that the host is unknown.
Snapshots ==
    \A r \in Runs :
        /\ base[r] \subseteq file
        /\ pc[r] \in {"prompt", "append", "opened"} => base[r] = {}

\* Only damage makes the file unreadable.
GarbledIsDamaged == garbled => damaged

IInv == TypeOK /\ Snapshots /\ GarbledIsDamaged /\ AcceptedIsRecorded

-----------------------------------------------------------------------------
\* The invariant holds in the initial states.
LEMMA InitInvariant == Init => IInv
BY TornBoolean
   DEF Init, IInv, TypeOK, Snapshots, GarbledIsDamaged, AcceptedIsRecorded, Phases

\* A run that reads the file or decides without it changes only its own part.
LEMMA DecisionKeepsInvariant ==
    ASSUME IInv, NEW r \in Runs,
           HostKeyCallback(r) \/ Refuse(r) \/ AcceptKnown(r) \/ Unknown(r)
    PROVE  IInv'
<1>1. CASE HostKeyCallback(r)
  BY <1>1 DEF HostKeyCallback, Goto, IInv, TypeOK, Snapshots, GarbledIsDamaged,
              AcceptedIsRecorded, Phases, fileVars
<1>2. CASE Refuse(r)
  BY <1>2 DEF Refuse, Presented, Goto, IInv, TypeOK, Snapshots, GarbledIsDamaged,
              AcceptedIsRecorded, Phases, fileVars
<1>3. CASE AcceptKnown(r)
  BY <1>3 DEF AcceptKnown, Presented, Goto, IInv, TypeOK, Snapshots,
              GarbledIsDamaged, AcceptedIsRecorded, Phases, fileVars
<1>4. CASE Unknown(r)
  BY <1>4 DEF Unknown, Presented, Knows, Goto, IInv, TypeOK, Snapshots,
              GarbledIsDamaged, AcceptedIsRecorded, Phases, fileVars
<1> QED BY <1>1, <1>2, <1>3, <1>4

\* The steps on the way to the append leave the file alone.
LEMMA ApproachKeepsInvariant ==
    ASSUME IInv, NEW r \in Runs,
           Answer(r) \/ AppendFails(r) \/ OpenFile(r) \/ WriteFails(r)
    PROVE  IInv'
BY DEF Answer, AppendFails, OpenFile, WriteFails, Goto, IInv, TypeOK, Snapshots,
       GarbledIsDamaged, AcceptedIsRecorded, Phases, fileVars

\* An append records the key, or finds or leaves damage.
LEMMA AppendKeepsInvariant ==
    ASSUME IInv, NEW r \in Runs, WriteEntry(r) \/ WriteCutShort(r)
    PROVE  IInv'
<1>1. CASE WriteEntry(r)
  <2>1. CASE torn
    BY <1>1, <2>1 DEF WriteEntry, Goto, IInv, TypeOK, Snapshots,
                      GarbledIsDamaged, AcceptedIsRecorded, Phases
  <2>2. CASE ~torn
    <3>1. /\ file' = file \cup {key[r]} /\ garbled' = garbled
          /\ damaged' = damaged /\ torn' = FALSE
          /\ pc' = [pc EXCEPT ![r] = "accepted"]
          /\ UNCHANGED <<hostKey, base, baseErr, key>>
      BY <1>1, <2>2 DEF WriteEntry, Goto, IInv, TypeOK
    <3>2. TypeOK' /\ Snapshots' /\ GarbledIsDamaged'
      BY <1>1, <3>1 DEF WriteEntry, Goto, IInv, TypeOK, Snapshots,
                        GarbledIsDamaged, Phases
    <3>3. AcceptedIsRecorded'
      BY <3>1 DEF IInv, TypeOK, GarbledIsDamaged, AcceptedIsRecorded
    <3> QED BY <3>2, <3>3 DEF IInv
  <2> QED BY <2>1, <2>2
<1>2. CASE WriteCutShort(r)
  <2>1. file' \subseteq Keys /\ file \subseteq file'
    BY <1>2 DEF WriteCutShort, IInv, TypeOK
  <2> QED
    BY <1>2, <2>1 DEF WriteCutShort, Goto, IInv, TypeOK, Snapshots,
                      GarbledIsDamaged, AcceptedIsRecorded, Phases
<1> QED BY <1>1, <1>2

\* Every step keeps the invariant.
LEMMA NextKeepsInvariant == IInv /\ [Next]_vars => IInv'
<1> SUFFICES ASSUME IInv, [Next]_vars PROVE IInv'
  OBVIOUS
<1>1. CASE Rekey
  BY <1>1 DEF Rekey, IInv, TypeOK, Snapshots, GarbledIsDamaged,
              AcceptedIsRecorded, fileVars, runVars
<1>2. ASSUME NEW r \in Runs, Run(r) PROVE IInv'
  BY <1>2, DecisionKeepsInvariant, ApproachKeepsInvariant, AppendKeepsInvariant
     DEF Run
<1>3. CASE UNCHANGED vars
  BY <1>3 DEF vars, IInv, TypeOK, Snapshots, GarbledIsDamaged,
              AcceptedIsRecorded, fileVars, runVars
<1> QED BY <1>1, <1>2, <1>3 DEF Next

\* The invariant holds in every reachable state (hostkey.go:39-117).
THEOREM Invariant == Spec => []IInv
BY InitInvariant, NextKeepsInvariant, PTL DEF Spec

\* Every variable keeps its type, and a run that could not read the file is
\* not on its way to append (hostkey.go:39-49).
THEOREM TypeCorrect == Spec => []TypeOK
<1>1. IInv => TypeOK
  BY DEF IInv
<1> QED BY <1>1, Invariant, PTL

\* A key that was accepted is in the file, unless a line was damaged, however
\* many runs append to it (hostkey.go:34-35, 109-116).
THEOREM AcceptedKeysAreRecorded == Spec => []AcceptedIsRecorded
<1>1. IInv => AcceptedIsRecorded
  BY DEF IInv
<1> QED BY <1>1, Invariant, PTL

\* Only a run that has read the host as unknown, and is past that, adds a key
\* (hostkey.go:42-116).
THEOREM OnlyUnawareRunsAdd == Spec => KeyAddedByUnaware
<1>1. ASSUME IInv, Next, file' # file
      PROVE  \E r \in Runs : pc[r] = "opened" /\ pc'[r] # pc[r] /\ ~Knows(r)
  <2>1. PICK r \in Runs : WriteEntry(r) \/ WriteCutShort(r)
    BY <1>1 DEF Next, Rekey, Run, HostKeyCallback, Refuse, AcceptKnown, Unknown,
                Presented, Answer, AppendFails, OpenFile, WriteFails, fileVars
  <2>2. pc[r] = "opened" /\ pc'[r] # pc[r]
    BY <1>1, <2>1 DEF WriteEntry, WriteCutShort, Goto, IInv, TypeOK
  <2>3. ~Knows(r)
    BY <1>1, <2>2 DEF IInv, Snapshots, Knows
  <2> QED BY <2>2, <2>3
<1>2. IInv /\ [Next]_vars =>
        [file' # file /\ file # {} =>
           \E r \in Runs : pc[r] = "opened" /\ pc'[r] # pc[r] /\ ~Knows(r)]_vars
  BY <1>1
<1> QED BY <1>2, Invariant, PTL DEF Spec, KeyAddedByUnaware

\* A run that has accepted the host's key either knew it, or knew no key at
\* all: a changed key is never accepted, whatever other runs append after the
\* file was read (hostkey.go:55-80).
NoChangedKey ==
    \A r \in Runs :
        pc[r] = "accepted" /\ Knows(r) => key[r] \in base[r]

\* A run that accepts has compared its key with those it had read.
LEMMA StepAcceptsNoChangedKey ==
    ASSUME IInv, NoChangedKey, [Next]_vars
    PROVE  NoChangedKey'
<1> SUFFICES ASSUME NEW r \in Runs, pc'[r] = "accepted", base'[r] # {}
             PROVE  key'[r] \in base'[r]
  BY DEF NoChangedKey, Knows
<1>1. CASE UNCHANGED <<pc[r], base[r], key[r]>>
  BY <1>1 DEF NoChangedKey, Knows
<1>2. CASE Run(r)
  <2>1. CASE AcceptKnown(r)
    BY <2>1 DEF AcceptKnown, Presented, IInv, TypeOK
  <2>2. CASE WriteEntry(r)
    BY <2>2 DEF WriteEntry, Goto, IInv, TypeOK, Snapshots
  <2>3. CASE HostKeyCallback(r) \/ Refuse(r) \/ Unknown(r)
    BY <2>3 DEF HostKeyCallback, Refuse, Unknown, Presented, Goto, IInv, TypeOK
  <2>4. CASE \/ Answer(r) \/ AppendFails(r) \/ OpenFile(r) \/ WriteFails(r)
             \/ WriteCutShort(r)
    BY <2>4 DEF Answer, AppendFails, OpenFile, WriteFails, WriteCutShort, Goto,
                IInv, TypeOK
  <2> QED BY <1>2, <2>1, <2>2, <2>3, <2>4 DEF Run
<1>3. ASSUME NEW q \in Runs \ {r}, Run(q)
      PROVE  UNCHANGED <<pc[r], base[r], key[r]>>
  <2>1. CASE HostKeyCallback(q) \/ Refuse(q) \/ AcceptKnown(q) \/ Unknown(q)
    BY <1>3, <2>1 DEF HostKeyCallback, Refuse, AcceptKnown, Unknown, Presented,
                      Goto, IInv, TypeOK
  <2>2. CASE \/ Answer(q) \/ AppendFails(q) \/ OpenFile(q) \/ WriteEntry(q)
             \/ WriteFails(q) \/ WriteCutShort(q)
    BY <1>3, <2>2 DEF Answer, AppendFails, OpenFile, WriteEntry, WriteFails,
                      WriteCutShort, Goto, IInv, TypeOK
  <2> QED BY <1>3, <2>1, <2>2 DEF Run
<1>4. CASE Rekey \/ UNCHANGED vars
  BY <1>1, <1>4 DEF Rekey, vars, runVars
<1> QED BY <1>1, <1>2, <1>3, <1>4 DEF Next

\* For any number of runs that append to the file meanwhile
\* (hostkey.go:55-80).
THEOREM ChangedKeysAreRefused == Spec => []NoChangedKey
<1>1. Init => NoChangedKey
  BY DEF Init, NoChangedKey
<1> QED BY <1>1, StepAcceptsNoChangedKey, Invariant, PTL DEF Spec

\* What the file holds for the host it holds for ever: a run opens it to
\* append, and no run undoes what another has recorded (hostkey.go:99-117).
THEOREM RecordsAreKept == Spec => [][file \subseteq file']_vars
<1>1. ASSUME Next PROVE file \subseteq file'
  BY <1>1 DEF Next, Rekey, Run, HostKeyCallback, Refuse, AcceptKnown, Unknown,
              Presented, Answer, AppendFails, OpenFile, WriteEntry, WriteFails,
              WriteCutShort, fileVars
<1> QED BY <1>1, PTL DEF Spec

-----------------------------------------------------------------------------
(* The connection and its keepalive.                                       *)

USE MaxPingFailuresPositive

\* The last n pings have failed, and the one before them, if it is still
\* remembered, was answered.
LastFailed(n) ==
    /\ n <= Len(outcomes)
    /\ \A i \in DOMAIN outcomes : i > Len(outcomes) - n => outcomes[i] = FALSE
    /\ n < Len(outcomes) => outcomes[Len(outcomes) - n] = TRUE

\* The counter of keepalive is the number of pings that have failed in a row;
\* at the limit keepalive goes on to close the connection, and never before.
CountsFailures ==
    /\ LastFailed(failures)
    /\ kpc = "closing" => failures = MaxPingFailures
    /\ kpc \in {"none", "waiting", "pinging"} => failures < MaxPingFailures

\* What Connect has built at each of its stages, and in which order it comes
\* apart.
Stages ==
    /\ cpc \in {"start", "dialing"} => ws = "none"
    /\ cpc = "handshake" => ws # "none" /\ mux = "none"
    /\ cpc = "failed" => ws # "open" /\ mux = "none"
    /\ cpc = "connected" <=> mux # "none"
    /\ kpc = "none" <=> ws = "none"
    /\ wpc = "none" <=> mux = "none"
    /\ spc = "none" <=> mux = "none"
    /\ done => ws = "closed"
    /\ ws = "closed" /\ ~done => kpc = "ended"
    /\ mux = "down" => done
    /\ mux # "none" => ws # "none"
    /\ sshDone <=> wpc = "ended"

\* No goroutine of the client gives up what it watches while that still runs:
\* keepalive ends on a closed connection only; the one in client.Wait and the
\* SSH keepalive end when the SSH connection is down, and it goes down closing
\* the WebSocket.  A connection of which Connect reports an error is not left
\* open (client.go:56-86, transport.go:103-141).
NothingEndsEarly ==
    /\ kpc = "ended" => ws = "closed"
    /\ wpc = "ended" \/ spc = "ended" => mux = "down"
    /\ mux = "down" => ws = "closed" /\ done
    /\ cpc = "failed" => ws # "open"

\* Once MaxPingFailures pings in a row have failed keepalive sends no other:
\* the other half of BlipsSpared (transport.go:120-129).
GivesUpInTime ==
    kpc \in {"waiting", "pinging"} =>
        \/ Len(outcomes) < MaxPingFailures
        \/ \E i \in DOMAIN outcomes : outcomes[i]

ConnInv == ConnTypeOK /\ CountsFailures /\ Stages /\ NothingEndsEarly

\* The initial state satisfies the invariant.
LEMMA InitConn ==
    ASSUME ConnInit
    PROVE  ConnInv
<1>1. outcomes \in Seq(BOOLEAN) /\ Len(outcomes) <= MaxPingFailures
  BY DEF ConnInit
<1>2. ConnTypeOK
  <2>1. /\ cpc \in {"start", "dialing", "handshake", "connected", "failed"}
        /\ ws \in {"none", "open", "closed"}
        /\ link \in {"up", "stalled", "broken"}
        /\ kpc \in {"none", "waiting", "pinging", "closing", "ended"}
        /\ failures \in 0..MaxPingFailures
        /\ mux \in {"none", "up", "down"}
        /\ wpc \in {"none", "waiting", "ended"}
        /\ spc \in {"none", "waiting", "sending", "ended"}
    BY DEF ConnInit
  <2>2. timeUp \in BOOLEAN /\ done \in BOOLEAN /\ sshDone \in BOOLEAN
    BY DEF ConnInit
  <2> QED BY <1>1, <2>1, <2>2 DEF ConnTypeOK
<1>3. CountsFailures
  BY DEF ConnInit, CountsFailures, LastFailed
<1>4. Stages /\ NothingEndsEarly
  BY DEF ConnInit, Stages, NothingEndsEarly
<1> QED BY <1>2, <1>3, <1>4 DEF ConnInv

\* The last outcome is the new one, and before it come the older ones, or all
\* of them but the oldest.
RecordedAs(answered) ==
    /\ outcomes' \in Seq(BOOLEAN)
    /\ \/ /\ Len(outcomes) < MaxPingFailures
          /\ Len(outcomes') = Len(outcomes) + 1
          /\ \A i \in 1..Len(outcomes) : outcomes'[i] = outcomes[i]
       \/ /\ Len(outcomes) = MaxPingFailures
          /\ Len(outcomes') = MaxPingFailures
          /\ \A i \in 1..(Len(outcomes) - 1) : outcomes'[i] = outcomes[i + 1]
    /\ outcomes'[Len(outcomes')] = answered

\* Record appends to the history, which forgets what is older than the limit.
LEMMA Recorded ==
    ASSUME ConnTypeOK,
           NEW answered \in BOOLEAN, Record(answered)
    PROVE  RecordedAs(answered)
<1> DEFINE all == Append(outcomes, answered)
<1>1. /\ all \in Seq(BOOLEAN) /\ Len(all) = Len(outcomes) + 1
      /\ \A i \in 1..Len(outcomes) : all[i] = outcomes[i]
      /\ all[Len(all)] = answered
      /\ Len(outcomes) \in Nat /\ Len(outcomes) <= MaxPingFailures
  BY DEF ConnTypeOK
<1>2. CASE Len(all) <= MaxPingFailures
  <2>1. outcomes' = all
    BY <1>1, <1>2 DEF Record
  <2> QED BY <1>1, <1>2, <2>1 DEF RecordedAs
<1>3. CASE Len(all) > MaxPingFailures
  <2>1. outcomes' = Tail(all)
    BY <1>1, <1>3 DEF Record
  <2>2. /\ Tail(all) \in Seq(BOOLEAN) /\ Len(Tail(all)) = Len(all) - 1
        /\ \A i \in 1..(Len(all) - 1) : Tail(all)[i] = all[i + 1]
    BY <1>1
  <2>3. Len(outcomes) = MaxPingFailures /\ Len(all) = MaxPingFailures + 1
    BY <1>1, <1>3
  <2> HIDE DEF all
  <2>4. outcomes'[Len(outcomes')] = answered
    BY <1>1, <2>1, <2>2, <2>3
  <2>5. \A i \in 1..(Len(outcomes) - 1) : outcomes'[i] = outcomes[i + 1]
    BY <1>1, <2>1, <2>2, <2>3
  <2> QED BY <2>1, <2>2, <2>3, <2>4, <2>5 DEF RecordedAs
<1> QED BY <1>1, <1>2, <1>3

\* An answer starts the count anew, a failure continues it.
LEMMA PingKeepsCount ==
    ASSUME ConnTypeOK, CountsFailures,
           PingAnswered \/ PingFails
    PROVE  ConnTypeOK' /\ CountsFailures'
<1>1. /\ outcomes \in Seq(BOOLEAN) /\ Len(outcomes) \in Nat
      /\ failures \in 0..MaxPingFailures /\ failures < MaxPingFailures
      /\ failures <= Len(outcomes)
  <2>1. kpc = "pinging"
    BY DEF PingAnswered, PingFails
  <2>2. outcomes \in Seq(BOOLEAN) /\ failures \in 0..MaxPingFailures
    BY DEF ConnTypeOK
  <2>3. failures < MaxPingFailures /\ failures <= Len(outcomes)
    BY <2>1 DEF CountsFailures, LastFailed
  <2> QED BY <2>2, <2>3
<1>2. CASE PingAnswered
  <2>1. Record(TRUE) /\ failures' = 0 /\ kpc' = "waiting"
    BY <1>2 DEF PingAnswered
  <2>1a. RecordedAs(TRUE)
    BY <2>1, Recorded, Zenon
  <2>2. outcomes' \in Seq(BOOLEAN) /\ Len(outcomes') \in 1..MaxPingFailures
        /\ outcomes'[Len(outcomes')] = TRUE
    BY <1>1, <2>1a, <2>1 DEF RecordedAs
  <2>3. LastFailed(failures)'
    BY <2>1, <2>2 DEF LastFailed
  <2> QED
    BY <1>2, <2>1, <2>2, <2>3
       DEF CountsFailures, ConnTypeOK, PingAnswered, connectVars,
           wsVars, sshVars
<1>3. CASE PingFails
  <2>1. /\ Record(FALSE) /\ failures' = failures + 1
        /\ kpc' = IF failures + 1 >= MaxPingFailures THEN "closing" ELSE "waiting"
    BY <1>3 DEF PingFails
  <2>1a. RecordedAs(FALSE)
    BY <2>1, Recorded, Zenon
  <2>2. /\ outcomes' \in Seq(BOOLEAN) /\ Len(outcomes') \in 1..MaxPingFailures
        /\ outcomes'[Len(outcomes')] = FALSE
        /\ failures + 1 <= Len(outcomes')
    BY <1>1, <2>1a, <2>1 DEF RecordedAs
  <2>3. ASSUME NEW i \in DOMAIN outcomes', i > Len(outcomes') - (failures + 1)
        PROVE  outcomes'[i] = FALSE
    <3>1. i \in 1..Len(outcomes')
      BY <2>2, <2>3
    <3>2. CASE i = Len(outcomes')
      BY <2>2, <3>2
    <3>3. CASE i < Len(outcomes')
      <4>1. PICK j \in DOMAIN outcomes :
              outcomes'[i] = outcomes[j] /\ j > Len(outcomes) - failures
        <5>1. CASE Len(outcomes) < MaxPingFailures
          BY <1>1, <2>1a, <2>1, <2>3, <3>1, <3>3, <5>1 DEF RecordedAs
        <5>2. CASE Len(outcomes) = MaxPingFailures
          <6>1. i + 1 \in DOMAIN outcomes /\ i + 1 > Len(outcomes) - failures
            BY <1>1, <2>1a, <2>1, <2>3, <3>1, <3>3, <5>2 DEF RecordedAs
          <6> QED
            BY <1>1, <2>1a, <2>1, <3>1, <3>3, <5>2, <6>1 DEF RecordedAs
        <5> QED BY <5>1, <5>2, <2>1a, <2>1 DEF RecordedAs
      <4> QED BY <4>1 DEF CountsFailures, LastFailed
    <3>4. i = Len(outcomes') \/ i < Len(outcomes')
      BY <2>2, <3>1
    <3> QED BY <3>2, <3>3, <3>4
  <2>4. ASSUME failures + 1 < Len(outcomes')
        PROVE  outcomes'[Len(outcomes') - (failures + 1)] = TRUE
    <3>1. failures < Len(outcomes)
      BY <1>1, <2>1a, <2>1, <2>4 DEF RecordedAs
    <3>2. outcomes[Len(outcomes) - failures] = TRUE
      BY <3>1 DEF CountsFailures, LastFailed
    <3>3. CASE Len(outcomes) < MaxPingFailures
      BY <1>1, <2>1a, <2>1, <3>1, <3>2, <3>3 DEF RecordedAs
    <3>4. CASE Len(outcomes) = MaxPingFailures
      <4> DEFINE k == Len(outcomes') - (failures + 1)
      <4>1. k \in 1..(Len(outcomes) - 1) /\ k + 1 = Len(outcomes) - failures
        BY <1>1, <2>1a, <2>1, <2>4, <3>4 DEF RecordedAs
      <4>2. outcomes'[k] = outcomes[k + 1]
        BY <1>1, <2>1a, <2>1, <3>4, <4>1 DEF RecordedAs
      <4> QED BY <3>2, <4>1, <4>2
    <3> QED BY <3>3, <3>4, <2>1a, <2>1 DEF RecordedAs
  <2>5. LastFailed(failures)'
    BY <2>1, <2>2, <2>3, <2>4 DEF LastFailed
  <2>6. CountsFailures'
    BY <1>1, <2>1, <2>5 DEF CountsFailures
  <2>7. ConnTypeOK'
    BY <1>1, <1>3, <2>1, <2>2
       DEF ConnTypeOK, PingFails, connectVars, wsVars,
           sshVars
  <2> QED BY <2>6, <2>7
<1> QED BY <1>2, <1>3

\* The other steps of the keepalive, and those of Connect, of the network and
\* of the SSH connection, leave the count alone.
LEMMA OtherStepsKeepCount ==
    ASSUME ConnInv,
           \/ Network \/ Server \/ Connect \/ SshKeepalive
           \/ SeeDone \/ Ping \/ KeepaliveCloses
           \/ MuxEnds \/ WaitReturns
    PROVE  ConnTypeOK' /\ CountsFailures'
<1> USE DEF ConnInv, ConnTypeOK, CountsFailures, LastFailed, Stages,
            connectVars, wsVars, keepaliveVars, sshVars,
            CloseConn
<1>1. CASE Network
  BY <1>1 DEF Network, Stall, Resume, Break
<1>2. CASE Server
  BY <1>2 DEF Server, DialSucceeds, DialRefused,
              HandshakeSucceeds, HandshakeRefused
<1>3. CASE Connect
  BY <1>3 DEF Connect, StartDial, TimesUp, DialTimesOut,
              HandshakeAborts
<1>4. CASE SshKeepalive
  BY <1>4 DEF SshKeepalive, SeeSshDone, SendKeepalive,
              KeepaliveReply, SendFails
<1>5. CASE SeeDone \/ Ping \/ KeepaliveCloses
  BY <1>5 DEF SeeDone, Ping, KeepaliveCloses
<1>6. CASE MuxEnds \/ WaitReturns
  BY <1>6 DEF MuxEnds, WaitReturns
<1> QED BY <1>1, <1>2, <1>3, <1>4, <1>5, <1>6

\* Connect builds in order, and what it has built comes apart in order.
LEMMA StepKeepsStages ==
    ASSUME ConnTypeOK, Stages, NothingEndsEarly, ConnNext
    PROVE  Stages' /\ NothingEndsEarly'
<1> USE DEF ConnTypeOK, Stages, NothingEndsEarly,
            connectVars, wsVars, keepaliveVars, sshVars,
            CloseConn
<1>1. CASE Network
  BY <1>1 DEF Network, Stall, Resume, Break
<1>2. CASE Server
  BY <1>2 DEF Server, DialSucceeds, DialRefused,
              HandshakeSucceeds, HandshakeRefused
<1>3. CASE Connect
  BY <1>3 DEF Connect, StartDial, TimesUp, DialTimesOut,
              HandshakeAborts
<1>4. CASE SeeDone \/ Ping \/ KeepaliveCloses
  BY <1>4 DEF SeeDone, Ping, KeepaliveCloses
<1>5. CASE PingAnswered \/ PingFails
  <2>1. /\ kpc = "pinging" /\ kpc' \in {"waiting", "closing"}
        /\ UNCHANGED <<cpc, ws, done, mux, wpc, sshDone, spc>>
    BY <1>5 DEF PingAnswered, PingFails
  <2> QED BY <2>1
<1>6. CASE MuxEnds \/ WaitReturns
  BY <1>6 DEF MuxEnds, WaitReturns
<1>7. CASE SshKeepalive
  BY <1>7 DEF SshKeepalive, SeeSshDone, SendKeepalive,
              KeepaliveReply, SendFails
<1>8. CASE Terminated
  BY <1>8 DEF Terminated, connVars
<1> QED
  BY <1>1, <1>2, <1>3, <1>4, <1>5, <1>6, <1>7, <1>8 DEF ConnNext, Keepalive

\* Every step keeps the invariant of the connection.
LEMMA StepKeepsConn ==
    ASSUME ConnInv, [ConnNext]_connVars
    PROVE  ConnInv'
<1>1. CASE ConnNext
  <2>1. Stages' /\ NothingEndsEarly'
    BY <1>1, StepKeepsStages DEF ConnInv
  <2>2. ConnTypeOK' /\ CountsFailures'
    <3>1. CASE Terminated
      BY <3>1 DEF Terminated, connVars, ConnInv, ConnTypeOK,
                  CountsFailures, LastFailed, connectVars, wsVars,
                  keepaliveVars, sshVars
    <3> QED
      BY <1>1, <3>1, PingKeepsCount, OtherStepsKeepCount
         DEF ConnInv, ConnNext, Keepalive
  <2> QED BY <2>1, <2>2 DEF ConnInv
<1>2. CASE UNCHANGED connVars
  BY <1>2 DEF connVars, ConnInv, ConnTypeOK, CountsFailures, LastFailed,
              Stages, NothingEndsEarly, connectVars, wsVars,
              keepaliveVars, sshVars
<1> QED BY <1>1, <1>2

\* The invariant of the connection holds in every reachable state.
THEOREM ConnInvariant == ConnSpec => []ConnInv
BY InitConn, StepKeepsConn, PTL DEF ConnSpec

\* Every variable of the connection keeps its type; the counter never passes
\* the limit.
THEOREM ConnTypeCorrect == ConnSpec => []ConnTypeOK
BY ConnInvariant, PTL DEF ConnInv

\* A brief blip never costs the connection: keepalive closes it only after
\* MaxPingFailures pings in a row have failed (transport.go:120-129).
THEOREM BlipsAreSpared == ConnSpec => []BlipsSpared
<1>1. ConnInv => BlipsSpared
  <2> SUFFICES ASSUME ConnInv, kpc = "closing"
               PROVE  /\ Len(outcomes) = MaxPingFailures
                      /\ \A i \in DOMAIN outcomes : outcomes[i] = FALSE
    BY DEF BlipsSpared
  <2>1. Len(outcomes) \in Nat /\ Len(outcomes) <= MaxPingFailures
    BY DEF ConnInv, ConnTypeOK
  <2>2. failures = MaxPingFailures /\ LastFailed(MaxPingFailures)
    BY DEF ConnInv, CountsFailures
  <2>3. Len(outcomes) = MaxPingFailures
    <3>1. MaxPingFailures <= Len(outcomes)
      BY <2>2 DEF LastFailed
    <3> QED BY <2>1, <3>1
  <2>4. ASSUME NEW i \in DOMAIN outcomes PROVE outcomes[i] = FALSE
    <3>1. i \in 1..Len(outcomes)
      BY <2>4 DEF ConnInv, ConnTypeOK
    <3>2. i > Len(outcomes) - MaxPingFailures
      BY <2>3, <3>1
    <3> QED BY <2>2, <2>4, <3>2 DEF LastFailed
  <2> QED BY <2>3, <2>4
<1> QED BY <1>1, ConnInvariant, PTL

\* And it does give up after that many, instead of pinging on.
THEOREM DeadServerGivenUp == ConnSpec => []GivesUpInTime
<1>1. ConnInv => GivesUpInTime
  <2> SUFFICES ASSUME ConnInv, kpc \in {"waiting", "pinging"},
                      Len(outcomes) >= MaxPingFailures
               PROVE  \E i \in DOMAIN outcomes : outcomes[i]
    BY DEF GivesUpInTime, ConnInv, ConnTypeOK
  <2>1. /\ Len(outcomes) \in Nat /\ DOMAIN outcomes = 1..Len(outcomes)
        /\ failures \in Nat /\ failures < MaxPingFailures
    BY DEF ConnInv, ConnTypeOK, CountsFailures
  <2>2. outcomes[Len(outcomes) - failures] = TRUE
    BY <2>1 DEF ConnInv, CountsFailures, LastFailed
  <2> QED BY <2>1, <2>2
<1> QED BY <1>1, ConnInvariant, PTL

\* The client's goroutines end in order, and an error of Connect leaves no
\* connection open (client.go:56-86, transport.go:103-141).
THEOREM GoroutinesEndInOrder == ConnSpec => []NothingEndsEarly
BY ConnInvariant, PTL DEF ConnInv
=============================================================================
