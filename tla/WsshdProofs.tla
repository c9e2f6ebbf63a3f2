---------------------------- MODULE WsshdProofs ----------------------------
(***************************************************************************)
(* The daemon implements its components: every behaviour of Wsshd is one   *)
(* of Admission and one of Session, so that what was proved of them holds  *)
(* of the daemon, for any number of clients and sessions.  On this rest    *)
(* the theorems about how connections and sessions are joined.             *)
(*                                                                         *)
(* AP and SP are the components with their theorems; their definitions are *)
(* those of A and S.                                                       *)
(***************************************************************************)
EXTENDS Wsshd, TLAPS, FiniteSetTheorems

AP == INSTANCE AdmissionProofs
SP == INSTANCE SessionProofs

-----------------------------------------------------------------------------
(* Wsshd implements Session.                                               *)

\* The two instances of Session are the same specification.
LEMMA SameSessionNext ==
    /\ S!Init <=> SP!Init
    /\ [S!Next]_S!vars <=> [SP!Next]_SP!vars
  <1>1. S!Init <=> SP!Init
    BY DEF S!Init, SP!Init
  <1>2. [S!Next]_S!vars <=> [SP!Next]_SP!vars
    BY Zenon DEF
       S!Open, S!Send, S!SendEOF, S!Lose, S!InputFails, S!Take, S!TakeSize,
       S!Refuse, S!TakeStart, S!StartFails, S!StartProcess, S!Kill,
       S!CloseInput, S!Write, S!Fork, S!DescendantExits, S!ChildExits,
       S!CopyOut, S!CopyOutEnds, S!CopyInEnds, S!ReapStep, S!WaitChild,
       S!WaitCopy, S!ReapClose, S!Report, S!CloseChannel, S!Release,
       S!ClientStep, S!HandlerStep, S!ChildStep, S!ReaperStep, S!ServerStep,
       S!SessionStep, S!Terminated, S!Next, S!Requests, S!SizeRequests,
       S!Started, S!vars, S!clientVars, S!handlerVars, S!ttyVars,
       S!childVars, S!outputVars, S!reapVars, SP!Open, SP!Send, SP!SendEOF,
       SP!Lose, SP!InputFails, SP!Take, SP!TakeSize, SP!Refuse, SP!TakeStart,
       SP!StartFails, SP!StartProcess, SP!Kill, SP!CloseInput, SP!Write,
       SP!Fork, SP!DescendantExits, SP!ChildExits, SP!CopyOut,
       SP!CopyOutEnds, SP!CopyInEnds, SP!ReapStep, SP!WaitChild, SP!WaitCopy,
       SP!ReapClose, SP!Report, SP!CloseChannel, SP!Release, SP!ClientStep,
       SP!HandlerStep, SP!ChildStep, SP!ReaperStep, SP!ServerStep,
       SP!SessionStep, SP!Terminated, SP!Next, SP!Requests, SP!SizeRequests,
       SP!Started, SP!vars, SP!clientVars, SP!handlerVars, SP!ttyVars,
       SP!childVars, SP!outputVars, SP!reapVars
  <1> QED
    BY <1>1, <1>2

\* A step of the daemon is one of its sessions', or leaves them alone.
LEMMA SessionsStep == [Next]_vars => [S!Next]_S!vars
  <1> SUFFICES ASSUME [Next]_vars PROVE [S!Next]_S!vars
    OBVIOUS
  <1>1. UNCHANGED sessionVars => UNCHANGED S!vars
    BY DEF sessionVars,
           S!vars, S!clientVars, S!handlerVars, S!ttyVars, S!childVars,
           S!outputVars, S!reapVars
  <1>2. ASSUME NEW s \in Sessions, S!SessionStep(s) PROVE S!Next
    BY <1>2 DEF S!Next
  <1>3. CASE UNCHANGED vars
    BY <1>1, <1>3 DEF vars
  <1>4. CASE \E c \in Conns : \E s \in Sessions : OpenSession(c, s)
    BY <1>4, <1>2 DEF OpenSession, S!SessionStep, S!ClientStep
  <1>5. CASE \E c \in Conns : StartServing(c) \/ EndServing(c)
                                \/ ConnServer(c) \/ ConnPeer(c)
    BY <1>5, <1>1 DEF StartServing, EndServing, ConnServer, ConnPeer
  <1>6. CASE Main
    BY <1>6, <1>1 DEF Main
  <1>7. CASE Terminated
    BY <1>7, <1>3 DEF Terminated
  <1>8. CASE \E s \in Sessions :
               DropChannel(s) \/ SessionPeer(s) \/ Copiers(s)
    BY <1>8, <1>2 DEF DropChannel, SessionPeer, Copiers, S!SessionStep,
                      S!ClientStep, S!ServerStep
  <1>9. CASE \E s \in Sessions : Handler(s) \/ Reaper(s) \/ SessionChild(s)
    BY <1>9, <1>2 DEF Handler, Reaper, SessionChild, S!SessionStep, S!ServerStep
  <1> QED
    BY <1>3, <1>4, <1>5, <1>6, <1>7, <1>8, <1>9 DEF Next

\* The daemon's sessions behave as Session says, whatever its connections do.
THEOREM ImplementsSession == Spec => SP!Spec
  <1>1. Init => SP!Init
    BY SameSessionNext DEF Init
  <1>2. [Next]_vars => [SP!Next]_SP!vars
    BY SessionsStep, SameSessionNext
  <1> QED
    BY <1>1, <1>2, PTL DEF Spec, SP!Spec

-----------------------------------------------------------------------------
(* Wsshd implements Admission.                                             *)

\* The two instances of Admission are the same specification.
LEMMA SameAdmissionNext ==
    /\ A!Init <=> AP!Init
    /\ [A!Next]_A!vars <=> [AP!Next]_AP!vars
  <1>1. A!Init <=> AP!Init
    BY DEF A!Init, AP!Init
  <1>2. [A!Next]_A!vars <=> [AP!Next]_AP!vars
    BY Zenon DEF
       A!Connect, A!Arrive, A!HeaderTimesOut, A!RejectRate, A!TakeSlot,
       A!RejectBusy, A!UpgradeFails, A!Upgrade, A!Spawn, A!ArmDeadline,
       A!HandshakeSucceeds, A!HandshakeRefused, A!HandshakeAborts,
       A!ReleaseSlot, A!ClearDeadline, A!ServeEnds, A!CloseConn, A!Done,
       A!PeerDrops, A!DeadlineExpires, A!Exit, A!ServeFails, A!Signal,
       A!ShutdownReturns, A!WaiterWaits, A!WaiterReturns, A!WaiterPanics,
       A!DrainCompletes, A!DrainTimesOut, A!ServerStep, A!PeerStep,
       A!DrainStep, A!Running, A!ConnStep, A!MainStep, A!Terminated, A!Next,
       A!Goto, A!HttpPhases, A!vars, A!connVars, A!mainVars, AP!Connect,
       AP!Arrive, AP!HeaderTimesOut, AP!RejectRate, AP!TakeSlot,
       AP!RejectBusy, AP!UpgradeFails, AP!Upgrade, AP!Spawn, AP!ArmDeadline,
       AP!HandshakeSucceeds, AP!HandshakeRefused, AP!HandshakeAborts,
       AP!ReleaseSlot, AP!ClearDeadline, AP!ServeEnds, AP!CloseConn, AP!Done,
       AP!PeerDrops, AP!DeadlineExpires, AP!Exit, AP!ServeFails, AP!Signal,
       AP!ShutdownReturns, AP!WaiterWaits, AP!WaiterReturns, AP!WaiterPanics,
       AP!DrainCompletes, AP!DrainTimesOut, AP!ServerStep, AP!PeerStep,
       AP!DrainStep, AP!Running, AP!ConnStep, AP!MainStep, AP!Terminated,
       AP!Next, AP!Goto, AP!HttpPhases, AP!vars, AP!connVars, AP!mainVars
  <1> QED
    BY <1>1, <1>2

\* A step of the daemon is one of its connections' or of main's, or leaves
\* them alone.
LEMMA ConnsStep == [Next]_vars => [A!Next]_A!vars
  <1> SUFFICES ASSUME [Next]_vars PROVE [A!Next]_A!vars
    OBVIOUS
  <1>1. UNCHANGED connVars => UNCHANGED A!vars
    BY DEF connVars, A!vars, A!connVars, A!mainVars
  <1>2. ASSUME NEW c \in Conns, A!ConnStep(c) PROVE A!Next
    BY <1>2 DEF A!Next
  <1>3. CASE UNCHANGED vars
    BY <1>1, <1>3 DEF vars
  <1>4. CASE \E c \in Conns : \E s \in Sessions : OpenSession(c, s)
    BY <1>4, <1>1 DEF OpenSession
  <1>5. CASE \E c \in Conns : StartServing(c) \/ EndServing(c)
                                \/ ConnServer(c) \/ ConnPeer(c)
    BY <1>5, <1>2 DEF StartServing, EndServing, ConnServer, ConnPeer,
                      A!ConnStep, A!ServerStep
  <1>6. CASE Main
    BY <1>6 DEF Main, A!Next
  <1>7. CASE Terminated
    BY <1>7, <1>3 DEF Terminated
  <1>8. CASE \E s \in Sessions :
               \/ DropChannel(s) \/ SessionPeer(s) \/ Copiers(s)
               \/ Handler(s) \/ Reaper(s) \/ SessionChild(s)
    BY <1>8, <1>1 DEF DropChannel, SessionPeer, Copiers, Handler, Reaper,
                      SessionChild
  <1> QED
    BY <1>3, <1>4, <1>5, <1>6, <1>7, <1>8 DEF Next

\* The daemon's connections behave as Admission says, whatever runs on them.
THEOREM ImplementsAdmission == Spec => AP!Spec
  <1>1. Init => AP!Init
    BY SameAdmissionNext DEF Init
  <1>2. [Next]_vars => [AP!Next]_AP!vars
    BY ConnsStep, SameAdmissionNext
  <1> QED
    BY <1>1, <1>2, PTL DEF Spec, AP!Spec

-----------------------------------------------------------------------------
(* What was proved of the components.                                      *)

\* Finite is the same in every instance.
LEMMA FiniteConstants == SP!IsFiniteSet(Sessions) /\ AP!IsFiniteSet(Conns)
  BY SessionConstants, AdmissionConstants
     DEF IsFiniteSet, SP!IsFiniteSet, AP!IsFiniteSet

\* There are never more than MaxChildren processes, whatever connections
\* their sessions came on.
THEOREM ProcessesAreCapped == Spec => []ProcessesCapped
  <1>1. SP!Spec => []SP!ProcessesCapped
    BY SP!ProcessesAreCapped, FiniteConstants, SessionConstants
  <1>2. SP!ProcessesCapped => ProcessesCapped
    BY DEF ProcessesCapped, S!ProcessesCapped, SP!ProcessesCapped,
           S!Processes, SP!Processes, S!Cardinality, SP!Cardinality
  <1> QED
    BY <1>1, <1>2, ImplementsSession, PTL

\* childrenSem remains a semaphore when sessions of several connections share
\* it.
THEOREM ChildrenSemaphore == Spec => ImplementsSemaphore
  <1>1. SP!Spec => SP!ImplementsSemaphore
    BY SP!ChildrenSemaphore, FiniteConstants, SessionConstants
  <1>2. SP!Slots!Init => S!Slots!Init
    BY DEF SP!Slots!Init, S!Slots!Init, SP!SlotHolders, S!SlotHolders,
           SP!ReapPhases, S!ReapPhases
  <1>3. [SP!Slots!Next]_SP!SlotHolders => [S!Slots!Next]_S!SlotHolders
    BY Zenon
       DEF SP!Slots!Next, S!Slots!Next, SP!Slots!Acquire, S!Slots!Acquire,
           SP!Slots!Release, S!Slots!Release, SP!Slots!Cardinality,
           S!Slots!Cardinality, SP!SlotHolders, S!SlotHolders,
           SP!ReapPhases, S!ReapPhases
  <1> QED
    BY <1>1, <1>2, <1>3, ImplementsSession, PTL
       DEF ImplementsSemaphore, S!ImplementsSemaphore, SP!ImplementsSemaphore,
           S!Slots!Spec, SP!Slots!Spec

\* The components' types.
LEMMA ComponentTypes == Spec => [](A!TypeOK /\ S!TypeOK)
  <1>1. SP!Spec => []SP!TypeOK
    BY SP!TypeCorrect, FiniteConstants, SessionConstants
  <1>2. SP!TypeOK => S!TypeOK
    BY DEF S!TypeOK, SP!TypeOK, S!Requests, SP!Requests, S!SizeRequests,
           SP!SizeRequests, S!ReapPhases, SP!ReapPhases
  <1>3. AP!Spec => []AP!TypeOK
    BY AP!TypeCorrect, FiniteConstants, AdmissionConstants
  <1>4. AP!TypeOK => A!TypeOK
    BY DEF A!TypeOK, AP!TypeOK, A!Phases, AP!Phases, A!SlotPhases,
           AP!SlotPhases, A!CountedPhases, AP!CountedPhases
  <1> QED
    BY <1>1, <1>2, <1>3, <1>4, ImplementsSession, ImplementsAdmission, PTL

\* What was proved of single sessions holds of those of the daemon, although
\* they come on connections that break, and share childrenSem with sessions
\* of other connections (session.go:110-135, 155-222, 340-377).
THEOREM SessionsKeepPromises ==
    Spec => [](/\ S!SlotAccounting
               /\ S!NothingLeft
               /\ S!PipeOutputBeforeStatus
               /\ S!PtyFollowsClient)
  <1>1. SP!Spec => []SP!SlotAccounting
    BY SP!SlotsAccounted, FiniteConstants, SessionConstants
  <1>2. SP!Spec => []SP!NothingLeft
    BY SP!NothingIsLeft, FiniteConstants, SessionConstants
  <1>3. SP!Spec => []SP!PipeOutputBeforeStatus
    BY SP!OutputComesFirst, FiniteConstants, SessionConstants
  <1>4. SP!Spec => []SP!PtyFollowsClient
    BY SP!SizesFollow, FiniteConstants, SessionConstants
  <1>5. SP!SlotAccounting => S!SlotAccounting
    BY DEF S!SlotAccounting, SP!SlotAccounting, S!SlotHolders, SP!SlotHolders,
           S!ReapPhases, SP!ReapPhases, S!Cardinality, SP!Cardinality
  <1>6. SP!NothingLeft => S!NothingLeft
    BY DEF S!NothingLeft, SP!NothingLeft
  <1>7. SP!PipeOutputBeforeStatus => S!PipeOutputBeforeStatus
    BY DEF S!PipeOutputBeforeStatus, SP!PipeOutputBeforeStatus
  <1>8. SP!PtyFollowsClient => S!PtyFollowsClient
    BY DEF S!PtyFollowsClient, SP!PtyFollowsClient
  <1> QED
    BY <1>1, <1>2, <1>3, <1>4, <1>5, <1>6, <1>7, <1>8, ImplementsSession, PTL

\* Likewise for connections, whatever sessions run on them: the handshake
\* slots and the wait group are accounted for, the deadline of the handshake
\* is cleared, and the goroutine in wg.Wait has a connection left to wake it
\* (server.go:202-228, 280-305).
THEOREM ConnectionsKeepPromises ==
    Spec => [](/\ A!SlotAccounting
               /\ A!CountedAccounting
               /\ A!ServingHasNoDeadline
               /\ A!NoLostWakeup)
  <1>1. AP!Spec => []AP!SlotAccounting
    BY AP!SlotsAccounted, FiniteConstants, AdmissionConstants
  <1>2. AP!Spec => []AP!CountedAccounting
    BY AP!ConnsCounted, FiniteConstants, AdmissionConstants
  <1>3. AP!Spec => []AP!ServingHasNoDeadline
    BY AP!ServingSpared, FiniteConstants, AdmissionConstants
  <1>4. AP!Spec => []AP!NoLostWakeup
    BY AP!WaiterIsWoken, FiniteConstants, AdmissionConstants
  <1>5. AP!SlotAccounting => A!SlotAccounting
    BY DEF A!SlotAccounting, AP!SlotAccounting, A!SlotHolders, AP!SlotHolders,
           A!SlotPhases, AP!SlotPhases, A!Cardinality, AP!Cardinality
  <1>6. AP!CountedAccounting => A!CountedAccounting
    BY DEF A!CountedAccounting, AP!CountedAccounting, A!Counted, AP!Counted,
           A!CountedPhases, AP!CountedPhases, A!Cardinality, AP!Cardinality
  <1>7. AP!ServingHasNoDeadline => A!ServingHasNoDeadline
    BY DEF A!ServingHasNoDeadline, AP!ServingHasNoDeadline
  <1>8. AP!NoLostWakeup => A!NoLostWakeup
    BY DEF A!NoLostWakeup, AP!NoLostWakeup, A!Counted, AP!Counted,
           A!CountedPhases, AP!CountedPhases
  <1> QED
    BY <1>1, <1>2, <1>3, <1>4, <1>5, <1>6, <1>7, <1>8, ImplementsAdmission, PTL

-----------------------------------------------------------------------------
(* How connections and sessions are joined.                                *)

Open(s) == chan[s] \in {"open", "closing"}

\* Every open channel is one of a connection that is being served.  For the
\* end of the channel loop this is what the mux promises (MuxIsClosed); that
\* nothing else breaks it is what the lemmas below show.
ChannelsAreServed ==
    \A s \in Sessions :
        Open(s) => owner[s] # NoConn /\ pc[owner[s]] = "serving"

\* Neither of the last two is inductive without the other: a connection that
\* starts to serve counts from 0 and may, because none of its channels is left.
Joined ==
    /\ TypeOK
    /\ ChannelsAreServed
    /\ CountCoversChannels

JoinTypes ==
    /\ owner \in [Sessions -> Conns \cup {NoConn}]
    /\ sessionCount \in [Conns -> 0..MaxSessionsPerConn]

\* No connection serves and no channel is open at the start.
LEMMA InitJoined == Init => ChannelsAreServed /\ CountCoversChannels /\ JoinTypes
  <1> SUFFICES ASSUME Init
               PROVE  ChannelsAreServed /\ CountCoversChannels /\ JoinTypes
    OBVIOUS
  <1>1. \A s \in Sessions : chan[s] = "none"
    BY DEF Init, S!Init
  <1>2. \A c \in Conns : OpenChannels(c) = {} /\ sessionCount[c] = 0
    BY <1>1 DEF Init, OpenChannels
  <1> QED
    BY <1>1, <1>2, FS_EmptySet, MaxSessionsPositive
       DEF Init, ChannelsAreServed, Open, CountCoversChannels, JoinTypes

\* The channels of a connection can be counted, and fewer count for less.
LEMMA ChannelsFinite ==
    ASSUME NEW c \in Conns
    PROVE  IsFiniteSet(OpenChannels(c)) /\ Cardinality(OpenChannels(c)) \in Nat
  <1>1. OpenChannels(c) \subseteq Sessions
    BY DEF OpenChannels
  <1> QED
    BY <1>1, SessionConstants, FS_Subset, FS_CardinalityType

\* With fewer channels their number is smaller.
LEMMA FewerChannels ==
    ASSUME NEW c \in Conns, OpenChannels(c)' \subseteq OpenChannels(c)
    PROVE  /\ Cardinality(OpenChannels(c)') \in Nat
           /\ Cardinality(OpenChannels(c)') <= Cardinality(OpenChannels(c))
  BY ChannelsFinite, FS_Subset, FS_CardinalityType

\* A step that opens no channel and ends no channel loop disturbs nothing.
LEMMA CarryJoined ==
    ASSUME Joined, UNCHANGED joinVars,
           \A s \in Sessions : Open(s)' => Open(s),
           \A c \in Conns : pc[c] = "serving" => pc'[c] = "serving"
    PROVE  ChannelsAreServed' /\ CountCoversChannels' /\ JoinTypes'
  <1>1. JoinTypes /\ JoinTypes' /\ owner' = owner /\ sessionCount' = sessionCount
    BY DEF Joined, TypeOK, JoinTypes, joinVars
  <1>2. ChannelsAreServed'
    BY <1>1 DEF Joined, ChannelsAreServed, Open, JoinTypes
  <1>3. ASSUME NEW c \in Conns
        PROVE  Cardinality(OpenChannels(c)') <= sessionCount'[c]
    <2>1. OpenChannels(c)' \subseteq OpenChannels(c)
      BY <1>1 DEF OpenChannels, Open
    <2>2. Cardinality(OpenChannels(c)) <= sessionCount[c]
      BY DEF Joined, CountCoversChannels
    <2>3. sessionCount[c] \in Int
      BY <1>1 DEF JoinTypes
    <2> QED
      BY <1>1, <2>1, <2>2, <2>3, FewerChannels, ChannelsFinite
  <1> QED
    BY <1>1, <1>2, <1>3 DEF CountCoversChannels

\* Only Open opens a channel.
LEMMA SessionOpensNothing ==
    ASSUME S!TypeOK, NEW s \in Sessions,
           \/ S!Lose(s) \/ S!Send(s) \/ S!SendEOF(s) \/ S!InputFails(s)
           \/ S!CopyOut(s) \/ S!CopyOutEnds(s) \/ S!CopyInEnds(s)
           \/ S!HandlerStep(s) \/ S!ReaperStep(s) \/ S!ChildStep(s)
    PROVE  \A t \in Sessions : Open(t)' => Open(t)
  <1> USE DEF Open, S!TypeOK
  <1>1. CASE S!Lose(s)
    BY <1>1 DEF S!Lose
  <1>2. CASE S!CloseChannel(s)
    BY <1>2 DEF S!CloseChannel
  <1>3. CASE S!Send(s) \/ S!SendEOF(s) \/ S!InputFails(s) \/ S!CopyOut(s)
               \/ S!CopyOutEnds(s) \/ S!CopyInEnds(s)
    BY <1>3 DEF S!Send, S!SendEOF, S!InputFails, S!CopyOut, S!CopyOutEnds,
                S!CopyInEnds, S!clientVars
  <1>4. CASE S!HandlerStep(s)
    BY <1>4 DEF S!HandlerStep, S!TakeSize, S!Refuse, S!TakeStart, S!StartFails,
                S!StartProcess, S!Kill, S!CloseInput, S!clientVars
  <1>5. CASE S!WaitChild(s) \/ S!WaitCopy(s) \/ S!ReapClose(s) \/ S!Report(s)
               \/ S!Release(s)
    BY <1>5 DEF S!WaitChild, S!WaitCopy, S!ReapClose, S!Report, S!Release,
                S!clientVars
  <1>6. CASE S!ChildStep(s)
    BY <1>6 DEF S!ChildStep, S!Write, S!Fork, S!DescendantExits, S!ChildExits,
                S!clientVars
  <1> QED
    BY <1>1, <1>2, <1>3, <1>4, <1>5, <1>6 DEF S!ReaperStep

\* Only ServeEnds ends a channel loop.
LEMMA ConnKeepsServing ==
    ASSUME A!TypeOK, NEW c \in Conns,
           \/ A!ServerStep(c) /\ ~A!ServeEnds(c)
           \/ A!PeerStep(c) \/ A!DeadlineExpires(c)
    PROVE  \A d \in Conns : pc[d] = "serving" => pc'[d] = "serving"
  <1> USE DEF A!TypeOK, A!Goto
  <1>1. CASE A!PeerStep(c) \/ A!DeadlineExpires(c)
    BY <1>1 DEF A!PeerStep, A!Connect, A!Arrive, A!HandshakeSucceeds,
                A!HandshakeRefused, A!PeerDrops, A!DeadlineExpires
  <1>2. CASE \/ A!HeaderTimesOut(c) \/ A!RejectRate(c) \/ A!TakeSlot(c)
             \/ A!RejectBusy(c) \/ A!UpgradeFails(c) \/ A!Upgrade(c)
             \/ A!Spawn(c)
    BY <1>2 DEF A!HeaderTimesOut, A!RejectRate, A!TakeSlot, A!RejectBusy,
                A!UpgradeFails, A!Upgrade, A!Spawn
  <1>3. CASE \/ A!ArmDeadline(c) \/ A!HandshakeAborts(c) \/ A!ReleaseSlot(c)
             \/ A!ClearDeadline(c) \/ A!CloseConn(c) \/ A!Done(c)
    BY <1>3 DEF A!ArmDeadline, A!HandshakeAborts, A!ReleaseSlot,
                A!ClearDeadline, A!CloseConn, A!Done
  <1> QED
    BY <1>1, <1>2, <1>3 DEF A!ServerStep

\* The channel loop accepts a session: one channel more and one counted more.
LEMMA OpenSessionJoined ==
    ASSUME Joined, NEW c \in Conns, NEW s \in Sessions, OpenSession(c, s)
    PROVE  ChannelsAreServed' /\ CountCoversChannels' /\ JoinTypes'
  <1> USE DEF OpenSession, connVars, JoinTypes
  <1>1. /\ owner \in [Sessions -> Conns \cup {NoConn}]
        /\ sessionCount \in [Conns -> 0..MaxSessionsPerConn]
        /\ chan \in [Sessions -> {"none", "open", "closing", "gone"}]
    BY DEF Joined, TypeOK, S!TypeOK
  <1>2. /\ pc' = pc /\ pc[c] = "serving" /\ chan[s] = "none"
        /\ chan' = [chan EXCEPT ![s] = "open"]
        /\ owner' = [owner EXCEPT ![s] = c]
        /\ sessionCount' = [sessionCount EXCEPT ![c] = @ + 1]
        /\ sessionCount[c] < MaxSessionsPerConn
    BY DEF S!Open
  <1>3. JoinTypes'
    BY <1>1, <1>2, MaxSessionsPositive
  <1>4. ChannelsAreServed'
    BY <1>1, <1>2, NoConnIsNone DEF Joined, ChannelsAreServed, Open
  <1>5. ASSUME NEW d \in Conns
        PROVE  Cardinality(OpenChannels(d)') <= sessionCount'[d]
    <2>1. Cardinality(OpenChannels(d)) <= sessionCount[d]
      BY DEF Joined, CountCoversChannels
    <2>2. sessionCount[d] \in Int
      BY <1>1
    <2>3. CASE d = c
      <3>1. OpenChannels(c)' = OpenChannels(c) \cup {s} /\ s \notin OpenChannels(c)
        BY <1>1, <1>2 DEF OpenChannels
      <3>2. Cardinality(OpenChannels(c)') = Cardinality(OpenChannels(c)) + 1
        BY <3>1, ChannelsFinite, FS_AddElement
      <3> QED
        BY <1>1, <1>2, <2>1, <2>2, <2>3, <3>2, ChannelsFinite
    <2>4. CASE d # c
      <3>1. OpenChannels(d)' \subseteq OpenChannels(d)
        BY <1>1, <1>2, <2>4 DEF OpenChannels
      <3>2. sessionCount'[d] = sessionCount[d]
        BY <1>1, <1>2, <2>4
      <3> QED
        BY <2>1, <2>2, <3>1, <3>2, FewerChannels, ChannelsFinite
    <2> QED
      BY <2>3, <2>4
  <1> QED
    BY <1>3, <1>4, <1>5 DEF CountCoversChannels

\* The channel loop starts: no channel is left from an earlier connection.
LEMMA StartServingJoined ==
    ASSUME Joined, NEW c \in Conns, StartServing(c)
    PROVE  ChannelsAreServed' /\ CountCoversChannels' /\ JoinTypes'
  <1> USE DEF JoinTypes
  <1>1. /\ owner \in [Sessions -> Conns \cup {NoConn}]
        /\ sessionCount \in [Conns -> 0..MaxSessionsPerConn]
        /\ pc \in [Conns -> A!Phases]
    BY DEF Joined, TypeOK, A!TypeOK
  <1>2. /\ owner' = owner /\ chan' = chan
        /\ sessionCount' = [sessionCount EXCEPT ![c] = 0]
        /\ pc[c] = "authenticated" /\ pc' = [pc EXCEPT ![c] = "serving"]
    BY DEF StartServing, sessionVars, A!ClearDeadline, A!Goto
  <1>3. JoinTypes'
    BY <1>1, <1>2, MaxSessionsPositive
  <1>4. ChannelsAreServed'
    BY <1>1, <1>2 DEF Joined, ChannelsAreServed, Open
  <1>5. ASSUME NEW d \in Conns
        PROVE  Cardinality(OpenChannels(d)') <= sessionCount'[d]
    <2>1. OpenChannels(d)' = OpenChannels(d)
      BY <1>2 DEF OpenChannels
    <2>2. CASE d = c
      <3>1. OpenChannels(c) = {}
        BY <1>2 DEF Joined, ChannelsAreServed, Open, OpenChannels
      <3> QED
        BY <1>1, <1>2, <2>1, <2>2, <3>1, FS_EmptySet
    <2>3. CASE d # c
      BY <1>1, <1>2, <2>1, <2>3 DEF Joined, CountCoversChannels
    <2> QED
      BY <2>2, <2>3
  <1> QED
    BY <1>3, <1>4, <1>5 DEF CountCoversChannels

\* The channel loop ends: the mux has closed every channel of the connection.
LEMMA EndServingJoined ==
    ASSUME Joined, NEW c \in Conns, EndServing(c)
    PROVE  ChannelsAreServed' /\ CountCoversChannels' /\ JoinTypes'
  <1>1. /\ owner \in [Sessions -> Conns \cup {NoConn}]
        /\ sessionCount \in [Conns -> 0..MaxSessionsPerConn]
        /\ pc \in [Conns -> A!Phases]
    BY DEF Joined, TypeOK, A!TypeOK
  <1>2. /\ owner' = owner /\ chan' = chan /\ sessionCount' = sessionCount
        /\ pc' = [pc EXCEPT ![c] = "closing"]
        /\ OpenChannels(c) = {}
    BY DEF EndServing, MuxIsClosed, sessionVars, joinVars, A!ServeEnds, A!Goto
  <1>3. ChannelsAreServed'
    BY <1>1, <1>2 DEF Joined, ChannelsAreServed, Open, OpenChannels
  <1>4. \A d \in Conns : OpenChannels(d)' = OpenChannels(d)
    BY <1>2 DEF OpenChannels
  <1> QED
    BY <1>1, <1>2, <1>3, <1>4 DEF Joined, CountCoversChannels, JoinTypes

\* Every step keeps connections and sessions joined.
LEMMA StepJoined ==
    ASSUME Joined, [Next]_vars
    PROVE  ChannelsAreServed' /\ CountCoversChannels' /\ JoinTypes'
  <1>1. A!TypeOK /\ S!TypeOK
    BY DEF Joined, TypeOK
  <1>2. UNCHANGED sessionVars => \A s \in Sessions : Open(s)' => Open(s)
    BY DEF sessionVars, Open
  <1>3. UNCHANGED connVars =>
          \A c \in Conns : pc[c] = "serving" => pc'[c] = "serving"
    BY DEF connVars
  <1>4. CASE UNCHANGED vars
    BY <1>2, <1>3, <1>4, CarryJoined DEF vars
  <1>5. CASE \E c \in Conns : \E s \in Sessions : OpenSession(c, s)
    BY <1>5, OpenSessionJoined
  <1>6. CASE \E c \in Conns : StartServing(c)
    BY <1>6, StartServingJoined
  <1>7. CASE \E c \in Conns : EndServing(c)
    BY <1>7, EndServingJoined
  <1>8. CASE \E c \in Conns : ConnServer(c) \/ ConnPeer(c)
    <2>1. PICK c \in Conns : ConnServer(c) \/ ConnPeer(c)
      BY <1>8
    <2>2. UNCHANGED joinVars /\ UNCHANGED sessionVars
      BY <2>1 DEF ConnServer, ConnPeer
    <2>3. \A d \in Conns : pc[d] = "serving" => pc'[d] = "serving"
      BY <1>1, <2>1, ConnKeepsServing DEF ConnServer, ConnPeer
    <2> QED
      BY <1>2, <2>2, <2>3, CarryJoined
  <1>9. CASE Main
    <2>1. pc' = pc
      BY <1>9 DEF Main, A!MainStep, A!DrainStep, A!Signal, A!ServeFails,
                  A!ShutdownReturns, A!WaiterWaits, A!WaiterReturns,
                  A!WaiterPanics, A!DrainCompletes, A!DrainTimesOut, A!connVars
    <2> QED
      BY <1>2, <1>9, <2>1, CarryJoined DEF Main
  <1>10. CASE Terminated
    BY <1>4, <1>10 DEF Terminated
  <1>11. CASE \E s \in Sessions :
                \/ DropChannel(s) \/ SessionPeer(s) \/ Copiers(s)
                \/ Handler(s) \/ Reaper(s) \/ SessionChild(s)
    <2>1. PICK s \in Sessions :
                \/ DropChannel(s) \/ SessionPeer(s) \/ Copiers(s)
                \/ Handler(s) \/ Reaper(s) \/ SessionChild(s)
      BY <1>11
    <2>2. UNCHANGED joinVars /\ UNCHANGED connVars
      BY <2>1 DEF DropChannel, SessionPeer, Copiers, Handler, Reaper,
                  SessionChild
    <2>3. \A t \in Sessions : Open(t)' => Open(t)
      BY <1>1, <2>1, SessionOpensNothing
         DEF DropChannel, SessionPeer, Copiers, Handler, Reaper, SessionChild
    <2> QED
      BY <1>3, <2>2, <2>3, CarryJoined
  <1> QED
    BY <1>4, <1>5, <1>6, <1>7, <1>8, <1>9, <1>10, <1>11 DEF Next

\* The invariant of the join holds in every reachable state of the daemon.
THEOREM Invariant == Spec => []Joined
  <1>1. ASSUME A!TypeOK, S!TypeOK, Init PROVE Joined
    BY <1>1, InitJoined DEF Joined, TypeOK, JoinTypes
  <1>2. ASSUME Joined, [Next]_vars, A!TypeOK', S!TypeOK' PROVE Joined'
    BY <1>2, StepJoined DEF Joined, TypeOK, JoinTypes
  <1> QED
    BY <1>1, <1>2, ComponentTypes, PTL DEF Spec

\* Every variable of the daemon keeps its type; no connection has had more
\* than MaxSessionsPerConn sessions.
THEOREM TypeCorrect == Spec => []TypeOK
  BY Invariant, PTL DEF Joined

\* sessionCount covers the open channels of every connection, so that the cap
\* holds (server.go:251-267).
THEOREM CountIsSafe == Spec => []CountCoversChannels
  BY Invariant, PTL DEF Joined

\* A drain that is found complete leaves no channel open, for any number of
\* connections and sessions, given what the mux promises (server.go:207-305).
THEOREM DrainIsComplete == Spec => DrainLeavesNoChannel
  <1>1. AP!Spec => AP!CleanDrain
    BY AP!DrainIsClean, FiniteConstants, AdmissionConstants
  <1>2. Joined /\ [waiter # "zero" /\ waiter' = "zero" => AP!Counted = {}]_AP!vars
          => [waiter # "zero" /\ waiter' = "zero" =>
                \A s \in Sessions : chan[s] \notin {"open", "closing"}]_vars
    <2> SUFFICES ASSUME Joined, NEW s \in Sessions, Open(s), AP!Counted = {}
                 PROVE  FALSE
      BY DEF Open, AP!vars, AP!connVars, AP!mainVars
    <2>1. owner[s] \in Conns /\ pc[owner[s]] = "serving"
      BY DEF Joined, ChannelsAreServed, TypeOK, Open
    <2>2. owner[s] \in AP!Counted
      BY <2>1 DEF AP!Counted, AP!CountedPhases
    <2> QED
      BY <2>2
  <1> QED
    BY <1>1, <1>2, ImplementsAdmission, Invariant, PTL
       DEF AP!CleanDrain, DrainLeavesNoChannel

\* The handshake slots remain a semaphore, whatever sessions run.
THEOREM HandshakeSemaphoreKept == Spec => A!ImplementsSemaphore
  <1>1. AP!Spec => AP!ImplementsSemaphore
    BY AP!HandshakeSemaphore, FiniteConstants, AdmissionConstants
  <1>2. AP!Slots!Init => A!Slots!Init
    BY DEF AP!Slots!Init, A!Slots!Init, AP!SlotHolders, A!SlotHolders,
           AP!SlotPhases, A!SlotPhases
  <1>3. [AP!Slots!Next]_AP!SlotHolders => [A!Slots!Next]_A!SlotHolders
    BY Zenon
       DEF AP!Slots!Next, A!Slots!Next, AP!Slots!Acquire, A!Slots!Acquire,
           AP!Slots!Release, A!Slots!Release, AP!Slots!Cardinality,
           A!Slots!Cardinality, AP!SlotHolders, A!SlotHolders,
           AP!SlotPhases, A!SlotPhases
  <1> QED
    BY <1>1, <1>2, <1>3, ImplementsAdmission, PTL
       DEF A!ImplementsSemaphore, AP!ImplementsSemaphore,
           A!Slots!Spec, AP!Slots!Spec
=============================================================================
