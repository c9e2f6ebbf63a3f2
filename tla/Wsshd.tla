------------------------------- MODULE Wsshd -------------------------------
(***************************************************************************)
(* The daemon as a whole: the connections of Admission and the sessions of *)
(* Session, joined by the channel loop of serveConn                        *)
(* (internal/server/server.go).  Both components keep their own actions;   *)
(* this module says which connection a session belongs to, counts the      *)
(* sessions of a connection, and lets the loss of a connection and the end *)
(* of the process reach the sessions.                                      *)
(***************************************************************************)
EXTENDS Integers, Sequences, FiniteSets

CONSTANTS
    Conns, MaxHandshakes, ArmOutcomes,
    Sessions, MaxChildren, Sizes, DefaultSize, Kinds, MaxQueued, MaxOut, MayFork,
    MaxSessionsPerConn,  \* Config.MaxSessionsPerConn after New
    NoConn               \* the owner of a session not yet opened

ASSUME AdmissionConstants ==
    /\ IsFiniteSet(Conns) /\ MaxHandshakes \in Nat \ {0}
    /\ ArmOutcomes \subseteq BOOLEAN
ASSUME SessionConstants ==
    /\ IsFiniteSet(Sessions) /\ MaxChildren \in Nat \ {0}
    /\ DefaultSize \in Sizes /\ MaxQueued \in Nat /\ MaxOut \in Nat
    /\ MayFork \in BOOLEAN
ASSUME MaxSessionsPositive == MaxSessionsPerConn \in Nat \ {0}
ASSUME NoConnIsNone == NoConn \notin Conns

VARIABLES
    pc, net, deadline, handshakeSem, wg, main, waiter, outcome,
    chan, reqs, eof, hpc, havePTY, size, mode, fdOpen, ptySize, child,
    descendant, rpc, copier, stdinCopier, made, buffered, sent, reported,
    childrenSem,
    owner,         \* the connection a session was opened on
    sessionCount   \* the local variable of each connection's serveConn

A == INSTANCE Admission
S == INSTANCE Session

connVars == <<pc, net, deadline, handshakeSem, wg, main, waiter, outcome>>
sessionVars ==
    <<chan, reqs, eof, hpc, havePTY, size, mode, fdOpen, ptySize, child,
      descendant, rpc, copier, stdinCopier, made, buffered, sent, reported,
      childrenSem>>
joinVars == <<owner, sessionCount>>
vars == <<connVars, sessionVars, joinVars>>

Init ==
    /\ A!Init
    /\ S!Init
    /\ owner = [s \in Sessions |-> NoConn]
    /\ sessionCount = [c \in Conns |-> 0]

\* The channels of connection c that its SSH mux still keeps.
OpenChannels(c) ==
    {s \in Sessions : owner[s] = c /\ chan[s] \in {"open", "closing"}}

\* What x/crypto's mux promises: when its transport has failed, it closes its
\* channels one by one (DropChannel) before it closes the Go channel of new
\* ones.  This is assumed here, not shown.
MuxIsClosed(c) == OpenChannels(c) = {}

-----------------------------------------------------------------------------

\* Mutant: an accepted session is not counted.
OpenSession_Uncounted(c, s) ==
    /\ A!Running
    /\ pc[c] = "serving"
    /\ net[c] = "open"
    /\ sessionCount[c] < MaxSessionsPerConn
    /\ S!Open(s)
    /\ owner' = [owner EXCEPT ![s] = c]
    /\ UNCHANGED <<connVars, sessionCount>>

\* The channel loop accepts a session and starts handleSession.  A failed
\* Accept leaves sessionCount as it was.
OpenSession(c, s) ==
    /\ A!Running
    /\ pc[c] = "serving"
    /\ net[c] = "open"
    /\ sessionCount[c] < MaxSessionsPerConn
    /\ S!Open(s)
    /\ sessionCount' = [sessionCount EXCEPT ![c] = @ + 1]
    /\ owner' = [owner EXCEPT ![s] = c]
    /\ UNCHANGED connVars

\* The channel loop starts with sessionCount 0.
StartServing(c) ==
    /\ A!Running
    /\ A!ClearDeadline(c)
    /\ sessionCount' = [sessionCount EXCEPT ![c] = 0]
    /\ UNCHANGED <<owner, sessionVars>>

\* The channel loop ends when the mux closes the Go channel that the loop
\* ranges over, which it does after it has closed the channels of c.
EndServing(c) ==
    /\ A!Running
    /\ A!ServeEnds(c)
    /\ MuxIsClosed(c)
    /\ UNCHANGED <<joinVars, sessionVars>>

\* The other steps of the connections and of main.
ConnServer(c) ==
    /\ A!Running
    /\ A!ServerStep(c)
    /\ ~A!ClearDeadline(c) /\ ~A!ServeEnds(c)
    /\ UNCHANGED <<joinVars, sessionVars>>

ConnPeer(c) ==
    /\ A!Running
    /\ A!PeerStep(c) \/ A!DeadlineExpires(c)
    /\ UNCHANGED <<joinVars, sessionVars>>

Main ==
    /\ A!MainStep
    /\ UNCHANGED <<joinVars, sessionVars>>

\* The mux of a connection that is lost closes its channels one by one.
DropChannel(s) ==
    /\ A!Running
    /\ owner[s] # NoConn
    /\ net[owner[s]] = "broken"
    /\ S!Lose(s)
    /\ UNCHANGED <<joinVars, connVars>>

\* The client uses a channel of a connection that works.
SessionPeer(s) ==
    /\ A!Running
    /\ owner[s] # NoConn
    /\ net[owner[s]] = "open"
    /\ \/ S!Send(s) \/ S!SendEOF(s) \/ S!Lose(s) \/ S!InputFails(s)
       \/ S!CopyOut(s)
    /\ UNCHANGED <<joinVars, connVars>>

\* The session's goroutines and its child do not depend on the connection.
Handler(s) ==
    /\ A!Running
    /\ S!HandlerStep(s)
    /\ UNCHANGED <<joinVars, connVars>>

Reaper(s) ==
    /\ A!Running
    /\ S!ReaperStep(s)
    /\ UNCHANGED <<joinVars, connVars>>

Copiers(s) ==
    /\ A!Running
    /\ S!CopyOutEnds(s) \/ S!CopyInEnds(s)
    /\ UNCHANGED <<joinVars, connVars>>

SessionChild(s) ==
    /\ A!Running
    /\ S!ChildStep(s)
    /\ UNCHANGED <<joinVars, connVars>>

Terminated == ~A!Running /\ UNCHANGED vars

Next ==
    \/ \E c \in Conns :
         \/ StartServing(c) \/ EndServing(c) \/ ConnServer(c) \/ ConnPeer(c)
         \/ \E s \in Sessions : OpenSession(c, s)
    \/ \E s \in Sessions :
         \/ DropChannel(s) \/ SessionPeer(s) \/ Handler(s) \/ Reaper(s)
         \/ Copiers(s) \/ SessionChild(s)
    \/ Main
    \/ Terminated

Spec == Init /\ [][Next]_vars

Fairness ==
    /\ \A c \in Conns :
         WF_vars(StartServing(c) \/ EndServing(c) \/ ConnServer(c))
    /\ \A s \in Sessions :
         /\ WF_vars(DropChannel(s)) /\ WF_vars(Handler(s))
         /\ WF_vars(Reaper(s)) /\ WF_vars(Copiers(s))

FairSpec == Spec /\ Fairness

-----------------------------------------------------------------------------
(* Properties.                                                             *)

\* The goroutines of session s are over.
Over(s) == hpc[s] = "done" /\ rpc[s] \in {"none", "done"}

TypeOK ==
    /\ A!TypeOK
    /\ S!TypeOK
    /\ owner \in [Sessions -> Conns \cup {NoConn}]
    /\ sessionCount \in [Conns -> 0..MaxSessionsPerConn]

\* A drain that is found complete leaves no channel open: the wait group counts
\* connections and knows nothing of sessions, but a connection is counted from
\* before its first channel until its channel loop has ended, and with that,
\* as the mux promises, its channels (server.go:207, 213, 252-300).
DrainLeavesNoChannel ==
    [][waiter # "zero" /\ waiter' = "zero" =>
          \A s \in Sessions : chan[s] \notin {"open", "closing"}]_vars

\* sessionCount never falls behind the channels that are open, also when the
\* client reconnects and it starts from 0 while handlers of the connection
\* before still run: the cap of MaxSessionsPerConn holds (server.go:251-267).
CountCoversChannels ==
    \A c \in Conns :
        Cardinality(OpenChannels(c)) <= sessionCount[c]

\* The cap on children is the daemon's, whatever connections their sessions
\* came on, and holds while children of a lost connection are still reaped.
ProcessesCapped == S!ProcessesCapped

\* childrenSem stays a semaphore when the sessions of several connections
\* compete for it (session.go:197-220).
ImplementsSemaphore == S!ImplementsSemaphore

\* The connection of session s was lost or has ended.
ConnLost(s) == owner[s] # NoConn /\ pc[owner[s]] # "serving"

\* The loss of a connection reaches its sessions, unless the daemon exits
\* before: the handler ends in any case; the reaper ends, with the child killed
\* and reaped, unless a background process holds the pipe of the command for
\* ever, which no code ends (server.go:252-278, session.go:110-135, 340).
LostConnEndsSessions ==
    \A s \in Sessions :
        /\ ConnLost(s) ~> (hpc[s] = "done" \/ main = "exited")
        /\ <>[]~descendant[s] => (ConnLost(s) ~> (Over(s) \/ main = "exited"))
=============================================================================
