----------------------------- MODULE Admission -----------------------------
(***************************************************************************)
(* The life of a connection in the daemon, from the HTTP request to the    *)
(* last deferred call of serveConn, next to the daemon's shutdown:         *)
(* WebSocketHandler, serveConn, Wait and WaitTimeout of                    *)
(* internal/server/server.go and the end of main in cmd/wsshd/main.go.     *)
(*                                                                         *)
(* pc[c] is where the goroutine that handles connection c is; a member of  *)
(* Conns stands for a client that may connect again once it is done.       *)
(***************************************************************************)
EXTENDS Integers, FiniteSets

CONSTANTS
    Conns,           \* clients, each with at most one connection at a time
    MaxHandshakes,   \* Config.MaxHandshakes after New applied the default
    ArmOutcomes      \* what SetDeadline may do: TRUE armed, FALSE failed

ASSUME ConnsFinite == IsFiniteSet(Conns)
ASSUME MaxHandshakesPositive == MaxHandshakes \in Nat \ {0}
ASSUME ArmOutcomesBoolean == ArmOutcomes \subseteq BOOLEAN

VARIABLES
    pc,             \* where the handler of c is
    net,            \* the WebSocket: "none", "open" or "broken"
    deadline,       \* the handshake deadline of c is armed
    handshakeSem,   \* len(s.handshakeSem)
    wg,             \* the counter of s.wg
    main,           \* "serving", "shutdown" (in hs.Shutdown), "draining", "exited"
    waiter,         \* WaitTimeout's goroutine: "none", "start", "blocked",
                    \* "woken" by the last Done, "zero" once done is closed
    outcome         \* how main ended

connVars == <<pc, net, deadline>>
mainVars == <<main, waiter, outcome>>
vars == <<connVars, handshakeSem, wg, mainVars>>

\* The phases in which c holds a slot of handshakeSem.
SlotPhases ==
    {"upgrading", "hijacked", "spawned", "handshake", "shaken", "failed"}

\* The phases in which c is counted by the wait group.
CountedPhases ==
    {"spawned", "handshake", "shaken", "failed", "authenticated", "serving",
     "closing", "closed"}

Phases == {"idle", "accepted", "request"} \cup SlotPhases \cup CountedPhases

\* The phases net/http still waits for in Shutdown: a hijacked connection
\* is no longer its own.
HttpPhases == {"accepted", "request", "upgrading"}

SlotHolders == {c \in Conns : pc[c] \in SlotPhases}
Counted == {c \in Conns : pc[c] \in CountedPhases}

Goto(c, from, to) ==
    /\ pc[c] = from
    /\ pc' = [pc EXCEPT ![c] = to]

Init ==
    /\ pc = [c \in Conns |-> "idle"]
    /\ net = [c \in Conns |-> "none"]
    /\ deadline = [c \in Conns |-> FALSE]
    /\ handshakeSem = 0
    /\ wg = 0
    /\ main = "serving"
    /\ waiter = "none"
    /\ outcome = "none"

-----------------------------------------------------------------------------
(* The handler goroutine of net/http: WebSocketHandler.                    *)

\* The listener accepts a client; Shutdown closes it.
Connect(c) ==
    /\ main = "serving"
    /\ Goto(c, "idle", "accepted")
    /\ UNCHANGED <<net, deadline, handshakeSem, wg, mainVars>>

\* The client's request has been read and reaches the handler.
Arrive(c) ==
    /\ Goto(c, "accepted", "request")
    /\ UNCHANGED <<net, deadline, handshakeSem, wg, mainVars>>

\* ReadHeaderTimeout: net/http gives up on a client that sends no request.
HeaderTimesOut(c) ==
    /\ Goto(c, "accepted", "idle")
    /\ UNCHANGED <<net, deadline, handshakeSem, wg, mainVars>>

\* limiter.Allow refuses: HTTP 429.  RateLimiter models when it does.
RejectRate(c) ==
    /\ Goto(c, "request", "idle")
    /\ UNCHANGED <<net, deadline, handshakeSem, wg, mainVars>>

\* Mutant: one slot too many.
TakeSlot_OffByOne(c) ==
    /\ Goto(c, "request", "upgrading")
    /\ handshakeSem <= MaxHandshakes
    /\ handshakeSem' = handshakeSem + 1
    /\ UNCHANGED <<net, deadline, wg, mainVars>>

\* The non-blocking send succeeds.
TakeSlot(c) ==
    /\ Goto(c, "request", "upgrading")
    /\ handshakeSem < MaxHandshakes
    /\ handshakeSem' = handshakeSem + 1
    /\ UNCHANGED <<net, deadline, wg, mainVars>>

\* The default branch: HTTP 503.
RejectBusy(c) ==
    /\ Goto(c, "request", "idle")
    /\ handshakeSem >= MaxHandshakes
    /\ UNCHANGED <<net, deadline, handshakeSem, wg, mainVars>>

\* Mutant: the error path keeps the slot.
UpgradeFails_Leaks(c) ==
    /\ Goto(c, "upgrading", "idle")
    /\ UNCHANGED <<net, deadline, handshakeSem, wg, mainVars>>

\* transport.Accept returns an error; the handler gives the slot back.  A
\* receive from an empty channel would block.
UpgradeFails(c) ==
    /\ Goto(c, "upgrading", "idle")
    /\ handshakeSem > 0
    /\ handshakeSem' = handshakeSem - 1
    /\ UNCHANGED <<net, deadline, wg, mainVars>>

\* transport.Accept hijacks the connection: net/http forgets it.
Upgrade(c) ==
    /\ Goto(c, "upgrading", "hijacked")
    /\ net' = [net EXCEPT ![c] = "open"]
    /\ UNCHANGED <<deadline, handshakeSem, wg, mainVars>>

\* Mutant: the connection is not announced to the wait group.
Spawn_Uncounted(c) ==
    /\ Goto(c, "hijacked", "spawned")
    /\ UNCHANGED <<net, deadline, handshakeSem, wg, mainVars>>

\* s.wg.Add(1); go s.serveConn(...)
Spawn(c) ==
    /\ Goto(c, "hijacked", "spawned")
    /\ wg' = wg + 1
    /\ UNCHANGED <<net, deadline, handshakeSem, mainVars>>

-----------------------------------------------------------------------------
(* The goroutine of the connection: serveConn.                             *)

\* Mutant: the handshake has no deadline.
ArmDeadline_Never(c) ==
    /\ Goto(c, "spawned", "handshake")
    /\ UNCHANGED <<net, deadline, handshakeSem, wg, mainVars>>

\* netConn.SetDeadline; a failure is only logged.
ArmDeadline(c) ==
    /\ Goto(c, "spawned", "handshake")
    /\ \E armed \in ArmOutcomes : deadline' = [deadline EXCEPT ![c] = armed]
    /\ UNCHANGED <<net, handshakeSem, wg, mainVars>>

\* ssh.NewServerConn returns a connection.
HandshakeSucceeds(c) ==
    /\ Goto(c, "handshake", "shaken")
    /\ net[c] = "open"
    /\ UNCHANGED <<net, deadline, handshakeSem, wg, mainVars>>

\* ssh.NewServerConn returns an error because the peer may not log in.
HandshakeRefused(c) ==
    /\ Goto(c, "handshake", "failed")
    /\ net[c] = "open"
    /\ UNCHANGED <<net, deadline, handshakeSem, wg, mainVars>>

\* ssh.NewServerConn returns an error because the transport does.
HandshakeAborts(c) ==
    /\ Goto(c, "handshake", "failed")
    /\ net[c] = "broken"
    /\ UNCHANGED <<net, deadline, handshakeSem, wg, mainVars>>

\* Mutant: the error path also calls Done, which is deferred.
ReleaseSlot_DoneTwice(c) ==
    /\ \/ Goto(c, "shaken", "authenticated") /\ wg' = wg
       \/ Goto(c, "failed", "closing") /\ wg' = wg - 1
    /\ handshakeSem' = handshakeSem - 1
    /\ UNCHANGED <<net, deadline, mainVars>>

\* <-s.handshakeSem, on both outcomes, and the early return on an error.
ReleaseSlot(c) ==
    /\ \/ Goto(c, "shaken", "authenticated")
       \/ Goto(c, "failed", "closing")
    /\ handshakeSem > 0
    /\ handshakeSem' = handshakeSem - 1
    /\ UNCHANGED <<net, deadline, wg, mainVars>>

\* Mutant: the handshake deadline stays armed.
ClearDeadline_Forgotten(c) ==
    /\ Goto(c, "authenticated", "serving")
    /\ UNCHANGED <<net, deadline, handshakeSem, wg, mainVars>>

\* netConn.SetDeadline(time.Time{}); the channel loop starts.
ClearDeadline(c) ==
    /\ Goto(c, "authenticated", "serving")
    /\ deadline' = [deadline EXCEPT ![c] = FALSE]
    /\ UNCHANGED <<net, handshakeSem, wg, mainVars>>

\* Mutant: the channel loop only ends with the daemon.
ServeEnds_AtShutdown(c) ==
    /\ Goto(c, "serving", "closing")
    /\ net[c] = "broken" /\ main # "serving"
    /\ UNCHANGED <<net, deadline, handshakeSem, wg, mainVars>>

\* chans is closed once the transport fails: the channel loop ends.
ServeEnds(c) ==
    /\ Goto(c, "serving", "closing")
    /\ net[c] = "broken"
    /\ UNCHANGED <<net, deadline, handshakeSem, wg, mainVars>>

\* The deferred sconn.Close and netConn.Close; Close stops both timers.
CloseConn(c) ==
    /\ Goto(c, "closing", "closed")
    /\ net' = [net EXCEPT ![c] = "none"]
    /\ deadline' = [deadline EXCEPT ![c] = FALSE]
    /\ UNCHANGED <<handshakeSem, wg, mainVars>>

\* Mutant: the last Done wakes nobody.
Done_Silent(c) ==
    /\ Goto(c, "closed", "idle")
    /\ wg' = wg - 1
    /\ UNCHANGED <<net, deadline, handshakeSem, mainVars>>

\* The deferred s.wg.Done; the last one wakes the goroutine in wg.Wait.
Done(c) ==
    /\ Goto(c, "closed", "idle")
    /\ wg' = wg - 1
    /\ waiter' = IF wg = 1 /\ waiter = "blocked" THEN "woken" ELSE waiter
    /\ UNCHANGED <<net, deadline, handshakeSem, main, outcome>>

-----------------------------------------------------------------------------
(* The network and the clock.                                              *)

\* The peer goes away, or disconnects.
PeerDrops(c) ==
    /\ net[c] = "open"
    /\ net' = [net EXCEPT ![c] = "broken"]
    /\ UNCHANGED <<pc, deadline, handshakeSem, wg, mainVars>>

\* handshakeTimeout passes: pending reads and writes fail, and the WebSocket
\* library does not allow the connection to be used again.
DeadlineExpires(c) ==
    /\ deadline[c]
    /\ net[c] = "open"
    /\ net' = [net EXCEPT ![c] = "broken"]
    /\ UNCHANGED <<pc, deadline, handshakeSem, wg, mainVars>>

-----------------------------------------------------------------------------
(* main and WaitTimeout.                                                   *)

Exit(how) ==
    /\ main' = "exited"
    /\ outcome' = how

\* hs.Serve returns an error: os.Exit(1).
ServeFails ==
    /\ main = "serving"
    /\ Exit("serve failed")
    /\ UNCHANGED <<connVars, handshakeSem, wg, waiter>>

\* SIGINT or SIGTERM; hs.Shutdown closes the listener.
Signal ==
    /\ main = "serving"
    /\ main' = "shutdown"
    /\ UNCHANGED <<connVars, handshakeSem, wg, waiter, outcome>>

\* hs.Shutdown returns once net/http owns no active connection, and
\* WaitTimeout starts the goroutine that waits.
ShutdownReturns ==
    /\ main = "shutdown"
    /\ \A c \in Conns : pc[c] \notin HttpPhases
    /\ main' = "draining"
    /\ waiter' = "start"
    /\ UNCHANGED <<connVars, handshakeSem, wg, outcome>>

\* Mutant: done is closed without waiting.
WaiterWaits_Not ==
    /\ waiter = "start"
    /\ waiter' = "zero"
    /\ UNCHANGED <<connVars, handshakeSem, wg, main, outcome>>

\* s.wg.Wait: returns at once on zero, otherwise blocks.
WaiterWaits ==
    /\ waiter = "start"
    /\ waiter' = IF wg = 0 THEN "zero" ELSE "blocked"
    /\ UNCHANGED <<connVars, handshakeSem, wg, main, outcome>>

\* wg.Wait returns after it was woken: close(done).
WaiterReturns ==
    /\ waiter = "woken"
    /\ wg = 0
    /\ waiter' = "zero"
    /\ UNCHANGED <<connVars, handshakeSem, wg, main, outcome>>

\* The runtime panics when an Add came between the wake-up and the return:
\* "WaitGroup is reused before previous Wait has returned".
WaiterPanics ==
    /\ waiter = "woken"
    /\ wg # 0
    /\ Exit("panic")
    /\ UNCHANGED <<connVars, handshakeSem, wg, waiter>>

\* case <-done: return true, and main returns.
DrainCompletes ==
    /\ main = "draining"
    /\ waiter = "zero"
    /\ Exit("drained")
    /\ UNCHANGED <<connVars, handshakeSem, wg, waiter>>

\* Mutant: a timeout of 0, which waits indefinitely.
DrainTimesOut_Never == FALSE

\* case <-time.After(timeout): return false, and main returns.
DrainTimesOut ==
    /\ main = "draining"
    /\ Exit("timed out")
    /\ UNCHANGED <<connVars, handshakeSem, wg, waiter>>

-----------------------------------------------------------------------------
\* Steps the daemon takes by itself on behalf of connection c.
ServerStep(c) ==
    \/ HeaderTimesOut(c) \/ RejectRate(c) \/ TakeSlot(c) \/ RejectBusy(c)
    \/ UpgradeFails(c) \/ Upgrade(c) \/ Spawn(c)
    \/ ArmDeadline(c) \/ HandshakeAborts(c) \/ ReleaseSlot(c)
    \/ ClearDeadline(c) \/ ServeEnds(c) \/ CloseConn(c) \/ Done(c)

\* Steps that wait for the peer.
PeerStep(c) ==
    \/ Connect(c) \/ Arrive(c) \/ PeerDrops(c)
    \/ HandshakeSucceeds(c) \/ HandshakeRefused(c)

\* Steps of the shutdown path once it has begun.
DrainStep ==
    \/ ShutdownReturns \/ WaiterWaits \/ WaiterReturns \/ WaiterPanics
    \/ DrainCompletes \/ DrainTimesOut

\* The process runs: nothing happens after it has exited.
Running == main # "exited"

ConnStep(c) == Running /\ (ServerStep(c) \/ PeerStep(c) \/ DeadlineExpires(c))
MainStep == Running /\ (DrainStep \/ Signal \/ ServeFails)

\* The process is gone.
Terminated == ~Running /\ UNCHANGED vars

Next == (\E c \in Conns : ConnStep(c)) \/ MainStep \/ Terminated

Spec == Init /\ [][Next]_vars

\* Goroutines are scheduled and timers fire; nothing is assumed of a peer or
\* of the operator who signals the daemon.
Fairness ==
    /\ \A c \in Conns : WF_vars(Running /\ ServerStep(c))
    /\ \A c \in Conns : WF_vars(Running /\ DeadlineExpires(c))
    /\ WF_vars(Running /\ DrainStep)

FairSpec == Spec /\ Fairness

-----------------------------------------------------------------------------
(* Properties.                                                             *)

TypeOK ==
    /\ pc \in [Conns -> Phases]
    /\ net \in [Conns -> {"none", "open", "broken"}]
    /\ deadline \in [Conns -> BOOLEAN]
    /\ handshakeSem \in 0..MaxHandshakes
    /\ wg \in Nat
    /\ main \in {"serving", "shutdown", "draining", "exited"}
    /\ waiter \in {"none", "start", "blocked", "woken", "zero"}
    /\ outcome \in {"none", "serve failed", "panic", "drained", "timed out"}

\* Every slot taken in WebSocketHandler is given back exactly once, by the
\* handler when the upgrade fails or by serveConn when the handshake is over:
\* the channel's length is the number of connections on the way between.
SlotAccounting == handshakeSem = Cardinality(SlotHolders)

\* wg counts exactly the connections whose goroutine has been announced and
\* has not run its last deferred call; it never goes negative.
CountedAccounting == wg = Cardinality(Counted)

\* A connection that is being served cannot be cut by the handshake deadline
\* of server.go:215: line 224 has cleared it.
ServingHasNoDeadline == \A c \in Conns : pc[c] = "serving" => ~deadline[c]

\* WaitTimeout reports a completed drain only at a moment at which no
\* connection counted by the wait group was left (server.go:280-305).
CleanDrain == [][waiter # "zero" /\ waiter' = "zero" => Counted = {}]_vars

\* A blocked wait is released: the goroutine in wg.Wait sleeps only while a
\* counted connection is left that can wake it.
NoLostWakeup == waiter = "blocked" => Counted # {}

\* The handshake semaphore is a semaphore.
Slots == INSTANCE Semaphore
    WITH Clients <- Conns, Cap <- MaxHandshakes, held <- SlotHolders
ImplementsSemaphore == Slots!Spec

\* Whatever the peer does, its handshake slot comes back: the deadline bounds
\* the handshake and both outcomes release (server.go:215-219).
SlotEventuallyFreed ==
    \A c \in Conns :
        c \in SlotHolders ~> (c \notin SlotHolders \/ main = "exited")

\* A connection that is lost in any phase is cleaned up and uncounted.
BrokenConnFinishes ==
    \A c \in Conns : net[c] = "broken" ~> (pc[c] = "idle" \/ main = "exited")

\* After a signal the daemon exits, whatever its connections do: hs.Shutdown
\* has no limit of its own, WaitTimeout has (main.go:259-261).
ShutdownTerminates == main = "shutdown" ~> main = "exited"
=============================================================================
