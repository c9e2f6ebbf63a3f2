-------------------------- MODULE AdmissionProofs --------------------------
(***************************************************************************)
(* Theorems about Admission for every set of clients and every limit: the  *)
(* inductive invariant, type correctness, the accounting of the handshake  *)
(* slots and of the wait group, what a clean drain means, and that         *)
(* handshakeSem implements Semaphore.                                      *)
(***************************************************************************)
EXTENDS Admission, TLAPS, FiniteSetTheorems

Bit(b) == IF b THEN 1 ELSE 0

\* TypeOK alone is not inductive: that Done leaves wg a natural number needs
\* the accounting, and so does the capacity that the semaphore promises.
IInv ==
    /\ TypeOK
    /\ SlotAccounting
    /\ CountedAccounting

\* The connections in a set of phases form a finite set.
LEMMA PhaseSetFinite ==
    ASSUME NEW H
    PROVE  /\ IsFiniteSet({x \in Conns : pc[x] \in H})
           /\ Cardinality({x \in Conns : pc[x] \in H}) \in Nat
  <1>1. {x \in Conns : pc[x] \in H} \subseteq Conns
    OBVIOUS
  <1>2. IsFiniteSet({x \in Conns : pc[x] \in H})
    BY <1>1, ConnsFinite, FS_Subset
  <1> QED
    BY <1>2, FS_CardinalityType

\* When c goes from one phase to another, the number of connections in H
\* changes by what c leaves and enters.
LEMMA GotoCounts ==
    ASSUME TypeOK,
           NEW c \in Conns, NEW from, NEW to, Goto(c, from, to),
           NEW H
    PROVE  Cardinality({x \in Conns : pc'[x] \in H})
             = Cardinality({x \in Conns : pc[x] \in H})
                 + Bit(to \in H) - Bit(from \in H)
  <1> DEFINE S == {x \in Conns : pc[x] \in H}
             T == {x \in Conns : pc'[x] \in H}
  <1> SUFFICES Cardinality(T) = Cardinality(S) + Bit(to \in H) - Bit(from \in H)
    OBVIOUS
  <1>1. /\ pc[c] = from
        /\ pc'[c] = to
        /\ \A x \in Conns \ {c} : pc'[x] = pc[x]
    BY DEF Goto, TypeOK
  <1>2. /\ IsFiniteSet(S)
        /\ Cardinality(S) \in Nat
    BY PhaseSetFinite
  <1>3. CASE from \in H <=> to \in H
    <2>1. T = S
      BY <1>1, <1>3
    <2>2. Bit(to \in H) = Bit(from \in H) /\ Bit(from \in H) \in Nat
      BY <1>3 DEF Bit
    <2> HIDE DEF S, T
    <2> QED
      BY <2>1, <2>2, <1>2
  <1>4. CASE from \notin H /\ to \in H
    <2>1. T = S \cup {c} /\ c \notin S
      BY <1>1, <1>4
    <2>2. Bit(to \in H) = 1 /\ Bit(from \in H) = 0
      BY <1>4 DEF Bit
    <2> HIDE DEF S, T
    <2>3. Cardinality(T) = Cardinality(S) + 1
      BY <2>1, <1>2, FS_AddElement
    <2> QED
      BY <2>2, <2>3, <1>2
  <1>5. CASE from \in H /\ to \notin H
    <2>1. T = S \ {c} /\ c \in S
      BY <1>1, <1>5
    <2>2. Bit(to \in H) = 0 /\ Bit(from \in H) = 1
      BY <1>5 DEF Bit
    <2> HIDE DEF S, T
    <2>3. Cardinality(T) = Cardinality(S) - 1
      BY <2>1, <1>2, FS_RemoveElement
    <2> QED
      BY <2>2, <2>3, <1>2
  <1> QED
    BY <1>3, <1>4, <1>5

\* The same for the two sets the counters stand for.
LEMMA GotoAccounts ==
    ASSUME TypeOK,
           NEW c \in Conns, NEW from, NEW to, Goto(c, from, to)
    PROVE  /\ Cardinality(SlotHolders')
                = Cardinality(SlotHolders)
                    + Bit(to \in SlotPhases) - Bit(from \in SlotPhases)
           /\ Cardinality(Counted')
                = Cardinality(Counted)
                    + Bit(to \in CountedPhases) - Bit(from \in CountedPhases)
  BY GotoCounts DEF SlotHolders, Counted

\* Both counts are those of finite sets.
LEMMA CountsAreNaturals ==
    /\ Cardinality(SlotHolders) \in Nat
    /\ Cardinality(Counted) \in Nat
  BY PhaseSetFinite DEF SlotHolders, Counted

\* No connection moves: both accounts stay as they are.
LEMMA StayAccounts ==
    ASSUME pc' = pc
    PROVE  SlotHolders' = SlotHolders /\ Counted' = Counted
  BY DEF SlotHolders, Counted

-----------------------------------------------------------------------------
\* The initial state satisfies the invariant.
LEMMA InitIInv == Init => IInv
  <1> SUFFICES ASSUME Init PROVE IInv
    OBVIOUS
  <1>1. SlotHolders = {} /\ Counted = {}
    BY DEF Init, SlotHolders, Counted, SlotPhases, CountedPhases
  <1>2. Cardinality({}) = 0
    BY FS_EmptySet
  <1>3. TypeOK
    BY MaxHandshakesPositive
       DEF Init, TypeOK, Phases, SlotPhases, CountedPhases
  <1> QED
    BY <1>1, <1>2, <1>3 DEF Init, IInv, SlotAccounting, CountedAccounting

\* Connection c goes from one phase to another and both counters follow.
Move(c, from, to) ==
    /\ Goto(c, from, to)
    /\ to \in Phases
    /\ handshakeSem' = handshakeSem
         + Bit(to \in SlotPhases) - Bit(from \in SlotPhases)
    /\ wg' = wg + Bit(to \in CountedPhases) - Bit(from \in CountedPhases)

\* The integers of the state, apart from its strings.
LEMMA IntFacts ==
    ASSUME IInv
    PROVE  /\ wg \in Nat
           /\ handshakeSem \in Nat
           /\ handshakeSem <= MaxHandshakes
  <1>1. wg \in Nat /\ handshakeSem \in 0..MaxHandshakes
    BY DEF IInv, TypeOK
  <1> QED
    BY <1>1, MaxHandshakesPositive

\* A move keeps both accounts, whichever phases it leads between.
LEMMA MoveAccounts ==
    ASSUME IInv, NEW c \in Conns, NEW from, NEW to, Move(c, from, to)
    PROVE  /\ SlotAccounting' /\ CountedAccounting'
           /\ pc' \in [Conns -> Phases]
           /\ wg' \in Nat
  <1>1. /\ handshakeSem' = Cardinality(SlotHolders')
        /\ wg' = Cardinality(Counted')
    BY GotoAccounts DEF Move, IInv, SlotAccounting, CountedAccounting
  <1>2. Cardinality(Counted') \in Nat
    <2>1. {x \in Conns : pc'[x] \in CountedPhases} \subseteq Conns
      OBVIOUS
    <2>2. IsFiniteSet({x \in Conns : pc'[x] \in CountedPhases})
      BY <2>1, ConnsFinite, FS_Subset
    <2> QED
      BY <2>2, FS_CardinalityType DEF Counted
  <1>3. pc' \in [Conns -> Phases]
    BY DEF Move, Goto, IInv, TypeOK
  <1> QED
    BY <1>1, <1>2, <1>3 DEF SlotAccounting, CountedAccounting

\* Every step for a connection is a Move of it, or moves nothing: the case
\* split on Next that the other proofs share.
LEMMA ConnStepMoves ==
    ASSUME IInv, NEW c \in Conns, ConnStep(c)
    PROVE  \/ \E from, to : Move(c, from, to)
           \/ UNCHANGED <<pc, handshakeSem, wg>>
  <1> USE IntFacts DEF mainVars, Phases, SlotPhases, CountedPhases, Bit
  <1>1. CASE Connect(c)
    <2>1. Move(c, "idle", "accepted")
      BY <1>1 DEF Move, Connect
    <2> QED
      BY <2>1
  <1>2. CASE Arrive(c)
    <2>1. Move(c, "accepted", "request")
      BY <1>2 DEF Move, Arrive
    <2> QED
      BY <2>1
  <1>3. CASE HeaderTimesOut(c)
    <2>1. Move(c, "accepted", "idle")
      BY <1>3 DEF Move, HeaderTimesOut
    <2> QED
      BY <2>1
  <1>4. CASE RejectRate(c) \/ RejectBusy(c)
    <2>1. Move(c, "request", "idle")
      BY <1>4 DEF Move, RejectRate, RejectBusy
    <2> QED
      BY <2>1
  <1>5. CASE TakeSlot(c)
    <2>1. Move(c, "request", "upgrading")
      BY <1>5 DEF Move, TakeSlot
    <2> QED
      BY <2>1
  <1>6. CASE UpgradeFails(c)
    <2>1. Move(c, "upgrading", "idle")
      BY <1>6 DEF Move, UpgradeFails
    <2> QED
      BY <2>1
  <1>7. CASE Upgrade(c)
    <2>1. Move(c, "upgrading", "hijacked")
      BY <1>7 DEF Move, Upgrade
    <2> QED
      BY <2>1
  <1>8. CASE Spawn(c)
    <2>1. Move(c, "hijacked", "spawned")
      BY <1>8 DEF Move, Spawn
    <2> QED
      BY <2>1
  <1>9. CASE ArmDeadline(c)
    <2>1. Move(c, "spawned", "handshake")
      BY <1>9 DEF Move, ArmDeadline
    <2> QED
      BY <2>1
  <1>10. CASE HandshakeSucceeds(c)
    <2>1. Move(c, "handshake", "shaken")
      BY <1>10 DEF Move, HandshakeSucceeds
    <2> QED
      BY <2>1
  <1>11. CASE HandshakeRefused(c) \/ HandshakeAborts(c)
    <2>1. Move(c, "handshake", "failed")
      BY <1>11 DEF Move, HandshakeRefused, HandshakeAborts
    <2> QED
      BY <2>1
  <1>12. CASE ReleaseSlot(c) /\ Goto(c, "shaken", "authenticated")
    <2>1. Move(c, "shaken", "authenticated")
      BY <1>12 DEF Move, ReleaseSlot
    <2> QED
      BY <2>1
  <1>13. CASE ReleaseSlot(c) /\ Goto(c, "failed", "closing")
    <2>1. Move(c, "failed", "closing")
      BY <1>13 DEF Move, ReleaseSlot
    <2> QED
      BY <2>1
  <1>14. CASE ClearDeadline(c)
    <2>1. Move(c, "authenticated", "serving")
      BY <1>14 DEF Move, ClearDeadline
    <2> QED
      BY <2>1
  <1>15. CASE ServeEnds(c)
    <2>1. Move(c, "serving", "closing")
      BY <1>15 DEF Move, ServeEnds
    <2> QED
      BY <2>1
  <1>16. CASE CloseConn(c)
    <2>1. Move(c, "closing", "closed")
      BY <1>16 DEF Move, CloseConn
    <2> QED
      BY <2>1
  <1>17. CASE Done(c)
    <2>1. Move(c, "closed", "idle")
      BY <1>17 DEF Move, Done
    <2> QED
      BY <2>1
  <1>18. CASE PeerDrops(c) \/ DeadlineExpires(c)
    BY <1>18 DEF PeerDrops, DeadlineExpires
  <1> QED
    BY <1>1, <1>2, <1>3, <1>4, <1>5, <1>6, <1>7, <1>8, <1>9, <1>10, <1>11,
       <1>12, <1>13, <1>14, <1>15, <1>16, <1>17, <1>18
       DEF ConnStep, ServerStep, PeerStep, ReleaseSlot

\* Steps of the goroutines that handle connection c.
LEMMA ConnStepIInv ==
    ASSUME IInv, NEW c \in Conns, ConnStep(c)
    PROVE  IInv'
  <1>1. /\ SlotAccounting' /\ CountedAccounting'
        /\ pc' \in [Conns -> Phases] /\ wg' \in Nat
    <2>1. CASE \E from, to : Move(c, from, to)
      BY <2>1, MoveAccounts
    <2>2. CASE UNCHANGED <<pc, handshakeSem, wg>>
      BY <2>2, StayAccounts DEF IInv, TypeOK, SlotAccounting, CountedAccounting
    <2> QED
      BY <2>1, <2>2, ConnStepMoves
  <1>2. handshakeSem' \in 0..MaxHandshakes
    <2>1. CASE TakeSlot(c) \/ UpgradeFails(c) \/ ReleaseSlot(c)
      BY <2>1, IntFacts, MaxHandshakesPositive
         DEF TakeSlot, UpgradeFails, ReleaseSlot
    <2>2. CASE handshakeSem' = handshakeSem
      BY <2>2 DEF IInv, TypeOK
    <2> QED
      BY <2>1, <2>2 DEF ConnStep, ServerStep, PeerStep, Connect, Arrive,
         HeaderTimesOut, RejectRate, RejectBusy, Upgrade, Spawn, ArmDeadline,
         HandshakeSucceeds, HandshakeRefused, HandshakeAborts, ClearDeadline,
         ServeEnds, CloseConn, Done, PeerDrops, DeadlineExpires
  <1>3. net' \in [Conns -> {"none", "open", "broken"}]
    BY DEF IInv, TypeOK, ConnStep, ServerStep, PeerStep, Connect, Arrive,
           HeaderTimesOut, RejectRate, TakeSlot, RejectBusy, UpgradeFails,
           Upgrade, Spawn, ArmDeadline, HandshakeSucceeds, HandshakeRefused,
           HandshakeAborts, ReleaseSlot, ClearDeadline, ServeEnds, CloseConn,
           Done, PeerDrops, DeadlineExpires
  <1>4. deadline' \in [Conns -> BOOLEAN]
    BY ArmOutcomesBoolean
       DEF IInv, TypeOK, ConnStep, ServerStep, PeerStep, Connect, Arrive,
           HeaderTimesOut, RejectRate, TakeSlot, RejectBusy, UpgradeFails,
           Upgrade, Spawn, ArmDeadline, HandshakeSucceeds, HandshakeRefused,
           HandshakeAborts, ReleaseSlot, ClearDeadline, ServeEnds, CloseConn,
           Done, PeerDrops, DeadlineExpires
  <1>5. /\ UNCHANGED <<main, outcome>>
        /\ waiter' \in {waiter, "woken"}
    BY DEF mainVars, ConnStep, ServerStep, PeerStep, Connect, Arrive,
           HeaderTimesOut, RejectRate, TakeSlot, RejectBusy, UpgradeFails,
           Upgrade, Spawn, ArmDeadline, HandshakeSucceeds, HandshakeRefused,
           HandshakeAborts, ReleaseSlot, ClearDeadline, ServeEnds, CloseConn,
           Done, PeerDrops, DeadlineExpires
  <1>6. TypeOK'
    BY <1>1, <1>2, <1>3, <1>4, <1>5 DEF IInv, TypeOK
  <1> QED
    BY <1>1, <1>6 DEF IInv

\* Steps of main and of the goroutine of WaitTimeout move no connection.
LEMMA MainStepIInv ==
    ASSUME IInv, MainStep
    PROVE  IInv'
  <1>1. pc' = pc /\ handshakeSem' = handshakeSem /\ wg' = wg
    BY DEF MainStep, DrainStep, Signal, ServeFails, ShutdownReturns,
           WaiterWaits, WaiterReturns, WaiterPanics, DrainCompletes,
           DrainTimesOut, connVars
  <1>2. TypeOK'
    BY <1>1 DEF IInv, TypeOK, MainStep, DrainStep, Signal, ServeFails, Exit,
           ShutdownReturns, WaiterWaits, WaiterReturns, WaiterPanics,
           DrainCompletes, DrainTimesOut, connVars
  <1> QED
    BY <1>1, <1>2, StayAccounts DEF IInv, SlotAccounting, CountedAccounting

\* Stuttering keeps the invariant.
LEMMA StutterIInv ==
    ASSUME IInv, UNCHANGED vars
    PROVE  IInv'
  BY StayAccounts DEF IInv, TypeOK, SlotAccounting, CountedAccounting, vars,
                      connVars, mainVars

\* The invariant holds in every reachable state.
THEOREM Invariant == Spec => []IInv
  <1>1. IInv /\ [Next]_vars => IInv'
    BY ConnStepIInv, MainStepIInv, StutterIInv DEF Next, Terminated
  <1> QED
    BY <1>1, InitIInv, PTL DEF Spec

\* Type correctness: among others, len(handshakeSem) stays within its
\* capacity and the wait group's counter never goes negative, which would
\* panic (server.go:207-219).
THEOREM TypeCorrect == Spec => []TypeOK
  BY Invariant, PTL DEF IInv

\* No handshake slot is lost or returned twice (server.go:196, 203, 219).
THEOREM SlotsAccounted == Spec => []SlotAccounting
  BY Invariant, PTL DEF IInv

\* The wait group counts the connections being served (server.go:207, 213).
THEOREM ConnsCounted == Spec => []CountedAccounting
  BY Invariant, PTL DEF IInv

-----------------------------------------------------------------------------
\* The counter is zero exactly when no counted connection is left.
LEMMA EmptyCounted == IInv => (wg = 0 <=> Counted = {})
  <1> SUFFICES ASSUME IInv PROVE wg = 0 <=> Counted = {}
    OBVIOUS
  <1>1. wg = Cardinality(Counted)
    BY DEF IInv, CountedAccounting
  <1>2. IsFiniteSet(Counted)
    BY PhaseSetFinite DEF Counted
  <1> QED
    BY <1>1, <1>2, FS_EmptySet

\* The deadline is only ever armed between server.go:215 and the clear at
\* 224, or until the connection is closed when the handshake failed.
DeadlinePhases == {"handshake", "shaken", "failed", "authenticated", "closing"}
DeadlineInv == \A c \in Conns : deadline[c] => pc[c] \in DeadlinePhases

\* The handshake deadline cannot cut a connection that is being served
\* (server.go:215, 224).
THEOREM ServingSpared == Spec => []ServingHasNoDeadline
  <1>1. Init => DeadlineInv
    BY DEF Init, DeadlineInv
  <1>2. IInv /\ DeadlineInv /\ [Next]_vars => DeadlineInv'
    <2> SUFFICES ASSUME IInv, DeadlineInv, [Next]_vars
                 PROVE  DeadlineInv'
      OBVIOUS
    <2>1. CASE UNCHANGED <<pc, deadline>>
      BY <2>1 DEF DeadlineInv
    <2>2. ASSUME NEW c \in Conns, ConnStep(c)
          PROVE  DeadlineInv'
      <3>1. \A x \in Conns \ {c} :
               pc'[x] = pc[x] /\ deadline'[x] = deadline[x]
        BY <2>2 DEF IInv, TypeOK, ConnStep, ServerStep, PeerStep, Goto,
           Connect, Arrive, HeaderTimesOut, RejectRate, TakeSlot, RejectBusy,
           UpgradeFails, Upgrade, Spawn, ArmDeadline, HandshakeSucceeds,
           HandshakeRefused, HandshakeAborts, ReleaseSlot, ClearDeadline,
           ServeEnds, CloseConn, Done, PeerDrops, DeadlineExpires
      <3>2. deadline'[c] => pc'[c] \in DeadlinePhases
        BY <2>2 DEF DeadlineInv, DeadlinePhases, IInv, TypeOK, ConnStep,
           ServerStep, PeerStep, Goto,
           Connect, Arrive, HeaderTimesOut, RejectRate, TakeSlot, RejectBusy,
           UpgradeFails, Upgrade, Spawn, ArmDeadline, HandshakeSucceeds,
           HandshakeRefused, HandshakeAborts, ReleaseSlot, ClearDeadline,
           ServeEnds, CloseConn, Done, PeerDrops, DeadlineExpires
      <3> QED
        BY <3>1, <3>2, <2>2 DEF DeadlineInv
    <2>3. CASE MainStep
      <3>1. UNCHANGED <<pc, deadline>>
        BY <2>3 DEF MainStep, DrainStep, Signal, ServeFails, ShutdownReturns,
           WaiterWaits, WaiterReturns, WaiterPanics, DrainCompletes,
           DrainTimesOut, connVars
      <3> QED
        BY <3>1, <2>1
    <2> QED
      BY <2>1, <2>2, <2>3 DEF Next, Terminated, vars, connVars
  <1>3. DeadlineInv => ServingHasNoDeadline
    BY DEF DeadlineInv, DeadlinePhases, ServingHasNoDeadline
  <1> QED
    BY <1>1, <1>2, <1>3, Invariant, PTL DEF Spec

\* A goroutine asleep in wg.Wait always has a connection left that will
\* wake it (server.go:213, 291).
THEOREM WaiterIsWoken == Spec => []NoLostWakeup
  <1> DEFINE Sleeps == waiter = "blocked" => wg # 0
  <1>1. Init => Sleeps
    BY DEF Init
  <1>2. IInv /\ Sleeps /\ [Next]_vars => Sleeps'
    <2> SUFFICES ASSUME IInv, Sleeps, [Next]_vars
                 PROVE  Sleeps'
      OBVIOUS
    <2>1. CASE \E c \in Conns : Done(c)
      BY <2>1, IntFacts DEF Done
    <2>2. CASE \E c \in Conns : Spawn(c)
      BY <2>2, IntFacts DEF Spawn, mainVars
    <2>3. CASE WaiterWaits
      BY <2>3 DEF WaiterWaits
    <2>4. CASE UNCHANGED wg /\ waiter' \in {waiter, "start", "zero"}
      BY <2>4
    <2> QED
      BY <2>1, <2>2, <2>3, <2>4
      DEF Next, Terminated, vars, connVars, mainVars, ConnStep, ServerStep,
          PeerStep, Connect, Arrive, HeaderTimesOut, RejectRate, TakeSlot,
          RejectBusy, UpgradeFails, Upgrade, ArmDeadline, HandshakeSucceeds,
          HandshakeRefused, HandshakeAborts, ReleaseSlot, ClearDeadline,
          ServeEnds, CloseConn, PeerDrops, DeadlineExpires, MainStep,
          DrainStep, Signal, ServeFails, ShutdownReturns, WaiterReturns,
          WaiterPanics, DrainCompletes, DrainTimesOut
  <1>3. IInv /\ Sleeps => NoLostWakeup
    BY EmptyCounted DEF NoLostWakeup
  <1> QED
    BY <1>1, <1>2, <1>3, Invariant, PTL DEF Spec

\* The drain is reported complete only when no counted connection is left
\* (server.go:280-305).
THEOREM DrainIsClean == Spec => CleanDrain
  <1>1. IInv /\ [Next]_vars =>
          (waiter # "zero" /\ waiter' = "zero" => Counted = {})
    <2> SUFFICES ASSUME IInv, [Next]_vars, waiter # "zero", waiter' = "zero"
                 PROVE  wg = 0
      BY EmptyCounted
    <2>1. WaiterWaits \/ WaiterReturns
      BY DEF Next, Terminated, vars, connVars, mainVars, ConnStep, ServerStep,
          PeerStep, Connect, Arrive, HeaderTimesOut, RejectRate, TakeSlot,
          RejectBusy, UpgradeFails, Upgrade, Spawn, ArmDeadline,
          HandshakeSucceeds, HandshakeRefused, HandshakeAborts, ReleaseSlot,
          ClearDeadline, ServeEnds, CloseConn, Done, PeerDrops,
          DeadlineExpires, MainStep, DrainStep, Signal, ServeFails,
          ShutdownReturns, WaiterPanics, DrainCompletes, DrainTimesOut
    <2> QED
      BY <2>1 DEF WaiterWaits, WaiterReturns
  <1> QED
    BY <1>1, Invariant, PTL DEF Spec, CleanDrain

\* A step of the daemon takes one slot, gives one back, or leaves the holders
\* alone.
LEMMA MoveIsSemaphoreStep ==
    ASSUME IInv, IInv', NEW c \in Conns, NEW from, NEW to, Move(c, from, to)
    PROVE  [Slots!Next]_SlotHolders
  <1>1. /\ pc[c] = from
        /\ pc'[c] = to
        /\ \A x \in Conns \ {c} : pc'[x] = pc[x]
    BY DEF Move, Goto, IInv, TypeOK
  <1>2. CASE from \in SlotPhases <=> to \in SlotPhases
    BY <1>1, <1>2 DEF SlotHolders
  <1>3. CASE from \notin SlotPhases /\ to \in SlotPhases
    <2>1. c \notin SlotHolders /\ SlotHolders' = SlotHolders \cup {c}
      BY <1>1, <1>3 DEF SlotHolders
    <2>2. handshakeSem' = handshakeSem + 1
      BY <1>3, IntFacts DEF Move, Bit
    <2>3. handshakeSem' \in 0..MaxHandshakes
      BY DEF IInv, TypeOK
    <2>4. handshakeSem < MaxHandshakes
      BY <2>2, <2>3, IntFacts, MaxHandshakesPositive
    <2>5. Cardinality(SlotHolders) < MaxHandshakes
      BY <2>4 DEF IInv, SlotAccounting
    <2>6. Slots!Cardinality(SlotHolders) = Cardinality(SlotHolders)
      BY DEF Slots!Cardinality, Cardinality
    <2> QED
      BY <2>1, <2>5, <2>6 DEF Slots!Next, Slots!Acquire
  <1>4. CASE from \in SlotPhases /\ to \notin SlotPhases
    <2>1. c \in SlotHolders /\ SlotHolders' = SlotHolders \ {c}
      BY <1>1, <1>4 DEF SlotHolders
    <2> QED
      BY <2>1 DEF Slots!Next, Slots!Release
  <1> QED
    BY <1>2, <1>3, <1>4

\* handshakeSem, taken and released in two goroutines, is a semaphore that
\* admits MaxHandshakes connections (server.go:183-219).
THEOREM HandshakeSemaphore == Spec => ImplementsSemaphore
  <1>1. Init => Slots!Init
    BY DEF Init, Slots!Init, SlotHolders, SlotPhases
  <1>2. IInv /\ IInv' /\ [Next]_vars => [Slots!Next]_SlotHolders
    <2> SUFFICES ASSUME IInv, IInv', [Next]_vars
                 PROVE  [Slots!Next]_SlotHolders
      OBVIOUS
    <2>1. CASE pc' = pc
      BY <2>1 DEF SlotHolders
    <2>2. ASSUME NEW c \in Conns, ConnStep(c)
          PROVE  [Slots!Next]_SlotHolders
      <3>1. CASE UNCHANGED <<pc, handshakeSem, wg>>
        BY <2>1, <3>1
      <3>2. ASSUME NEW from, NEW to, Move(c, from, to)
            PROVE  [Slots!Next]_SlotHolders
        BY <3>2, MoveIsSemaphoreStep
      <3> QED
        BY <2>2, <3>1, <3>2, ConnStepMoves
    <2>3. CASE MainStep
      BY <2>1, <2>3 DEF MainStep, DrainStep, Signal, ServeFails,
         ShutdownReturns, WaiterWaits, WaiterReturns, WaiterPanics,
         DrainCompletes, DrainTimesOut, connVars
    <2> QED
      BY <2>1, <2>2, <2>3 DEF Next, Terminated, vars, connVars
  <1> QED
    BY <1>1, <1>2, Invariant, PTL DEF Spec, ImplementsSemaphore, Slots!Spec

-----------------------------------------------------------------------------
(* The goroutines of a connection run forward.                             *)

\* How many steps of the daemon a connection is away from being cleaned up.
StepsLeft(c) ==
    LET left == [idle |-> 0, closed |-> 1, closing |-> 2, serving |-> 3,
                 authenticated |-> 4, shaken |-> 5, failed |-> 5,
                 handshake |-> 6, spawned |-> 7, hijacked |-> 8,
                 upgrading |-> 9, request |-> 10, accepted |-> 11]
    IN  left[pc[c]]

\* Every step that the daemon takes for a connection is one towards its end,
\* and until a client connects anew nothing sets it back, be it the peer, a
\* deadline, another connection or the shutdown: no path through
\* WebSocketHandler and serveConn leads back, so that a connection takes at
\* most eleven steps whatever fails on the way (server.go:188-276).
ConnsRunForward ==
    [][\A c \in Conns :
          /\ StepsLeft(c) \in 0..11
          /\ ServerStep(c) => StepsLeft(c)' < StepsLeft(c)
          /\ ~Connect(c) => StepsLeft(c)' <= StepsLeft(c)]_vars

\* Every phase has its rank.
LEMMA StepsLeftNatural ==
    ASSUME TypeOK, NEW c \in Conns
    PROVE  StepsLeft(c) \in 0..11
  <1>1. pc[c] \in Phases
    BY DEF TypeOK
  <1> QED
    BY <1>1, SMTT(30) DEF Phases, SlotPhases, CountedPhases, StepsLeft

\* A move of c sets what c has left, and nobody else's.
LEMMA GotoLeaves ==
    ASSUME TypeOK, NEW c \in Conns, NEW from, NEW to, Goto(c, from, to)
    PROVE  /\ pc[c] = from
           /\ pc'[c] = to
           /\ \A x \in Conns \ {c} : StepsLeft(x)' = StepsLeft(x)
  BY DEF TypeOK, Goto, StepsLeft

\* Every step of the daemon lowers the rank of its connection, and no other.
LEMMA ServerStepsForward ==
    ASSUME TypeOK, NEW c \in Conns, ServerStep(c)
    PROVE  /\ StepsLeft(c)' \in 0..11 /\ StepsLeft(c)' < StepsLeft(c)
           /\ \A x \in Conns \ {c} : StepsLeft(x)' = StepsLeft(x)
  <1> USE DEF StepsLeft
  <1>1. CASE HeaderTimesOut(c) \/ RejectRate(c) \/ RejectBusy(c)
    BY <1>1, GotoLeaves DEF HeaderTimesOut, RejectRate, RejectBusy
  <1>2. CASE TakeSlot(c) \/ UpgradeFails(c) \/ Upgrade(c) \/ Spawn(c)
    BY <1>2, GotoLeaves DEF TakeSlot, UpgradeFails, Upgrade, Spawn
  <1>3. CASE ArmDeadline(c) \/ HandshakeAborts(c) \/ ReleaseSlot(c)
    BY <1>3, GotoLeaves DEF ArmDeadline, HandshakeAborts, ReleaseSlot
  <1>4. CASE ClearDeadline(c) \/ ServeEnds(c) \/ CloseConn(c) \/ Done(c)
    BY <1>4, GotoLeaves DEF ClearDeadline, ServeEnds, CloseConn, Done
  <1> QED
    BY <1>1, <1>2, <1>3, <1>4 DEF ServerStep

\* Of the steps that are not the daemon's own only Connect sets one back.
LEMMA OtherStepsForward ==
    ASSUME TypeOK, NEW c \in Conns,
           PeerStep(c) \/ DeadlineExpires(c), ~Connect(c)
    PROVE  /\ StepsLeft(c)' <= StepsLeft(c)
           /\ \A x \in Conns \ {c} : StepsLeft(x)' = StepsLeft(x)
  <1> USE DEF StepsLeft
  <1>1. CASE Arrive(c) \/ HandshakeSucceeds(c) \/ HandshakeRefused(c)
    BY <1>1, GotoLeaves DEF Arrive, HandshakeSucceeds, HandshakeRefused
  <1>2. CASE PeerDrops(c) \/ DeadlineExpires(c)
    <2>1. pc' = pc
      BY <1>2 DEF PeerDrops, DeadlineExpires
    <2> QED
      BY <2>1, StepsLeftNatural
  <1> QED
    BY <1>1, <1>2 DEF PeerStep

\* A connection takes at most eleven steps until it is cleaned up, whatever
\* fails on the way (server.go:188-276).
THEOREM ConnectionsRunForward == Spec => ConnsRunForward
  <1>1. ASSUME IInv, [Next]_vars, NEW c \in Conns
        PROVE  /\ StepsLeft(c) \in 0..11
               /\ ServerStep(c) => StepsLeft(c)' < StepsLeft(c)
               /\ ~Connect(c) => StepsLeft(c)' <= StepsLeft(c)
    <2>1. TypeOK /\ StepsLeft(c) \in 0..11
      BY <1>1, StepsLeftNatural DEF IInv
    <2>2. ServerStep(c) => StepsLeft(c)' < StepsLeft(c)
      BY <2>1, ServerStepsForward
    <2>3. ASSUME ~Connect(c)
          PROVE  StepsLeft(c)' <= StepsLeft(c)
      <3>1. CASE pc' = pc
        BY <2>1, <3>1 DEF StepsLeft
      <3>2. ASSUME NEW x \in Conns, ConnStep(x)
            PROVE  StepsLeft(c)' <= StepsLeft(c)
        <4>1. CASE x = c
          <5>1. CASE ServerStep(c)
            <6>1. StepsLeft(c)' \in 0..11
              BY <2>1, <5>1, ServerStepsForward
            <6> QED
              BY <2>1, <2>2, <5>1, <6>1
          <5>2. CASE PeerStep(c) \/ DeadlineExpires(c)
            BY <2>1, <2>3, <5>2, OtherStepsForward
          <5> QED
            BY <3>2, <4>1, <5>1, <5>2 DEF ConnStep
        <4>2. CASE x # c /\ Connect(x)
          BY <2>1, <4>2, GotoLeaves DEF Connect
        <4>3. CASE x # c /\ ~Connect(x)
          BY <2>1, <3>2, <4>3, OtherStepsForward, ServerStepsForward
             DEF ConnStep
        <4> QED
          BY <4>1, <4>2, <4>3
      <3>3. CASE MainStep
        BY <3>1, <3>3 DEF MainStep, DrainStep, Signal, ServeFails,
           ShutdownReturns, WaiterWaits, WaiterReturns, WaiterPanics,
           DrainCompletes, DrainTimesOut, connVars
      <3> QED
        BY <1>1, <3>1, <3>2, <3>3 DEF Next, Terminated, vars, connVars
    <2> QED
      BY <2>1, <2>2, <2>3
  <1>2. IInv /\ [Next]_vars =>
          [\A c \in Conns :
              /\ StepsLeft(c) \in 0..11
              /\ ServerStep(c) => StepsLeft(c)' < StepsLeft(c)
              /\ ~Connect(c) => StepsLeft(c)' <= StepsLeft(c)]_vars
    BY <1>1
  <1> QED
    BY <1>2, Invariant, PTL DEF Spec, ConnsRunForward
=============================================================================
