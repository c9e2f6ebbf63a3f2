----------------------------- MODULE ClientConn -----------------------------
(***************************************************************************)
(* The client's connection: Connect of internal/client/client.go, Dial and *)
(* the keepalive goroutine of internal/transport/transport.go, and the two *)
(* goroutines of the SSH keepalive that Connect starts.                    *)
(*                                                                         *)
(* A ping is answered while the path to the server is up.  Its frame fits  *)
(* the socket's buffer, so that on a path that is stalled it fails because *)
(* no answer comes in time.                                                *)
(***************************************************************************)
EXTENDS Integers, Sequences

CONSTANT MaxPingFailures   \* maxPingFailures

ASSUME MaxPingFailuresPositive == MaxPingFailures \in Nat \ {0}

VARIABLES
    cpc,        \* Connect: "start", "dialing", "handshake", "connected", "failed"
    timeUp,     \* connectTimeout has passed since the dial began
    ws,         \* the WebSocket: "none", "open" or "closed"
    link,       \* the path to the server: "up", "stalled" or "broken"
    done,       \* the channel done of connWithDone is closed
    kpc,        \* keepalive: "none", "waiting", "pinging", "closing", "ended"
    failures,   \* its counter
    mux,        \* the SSH connection: "none", "up" or "down"
    wpc,        \* the goroutine in client.Wait: "none", "waiting", "ended"
    sshDone,    \* keepaliveDone is closed
    spc,        \* the SSH keepalive: "none", "waiting", "sending", "ended"
    outcomes    \* history: which of the last MaxPingFailures pings were answered

connectVars == <<cpc, timeUp>>
wsVars == <<ws, done>>
keepaliveVars == <<kpc, failures, outcomes>>
sshVars == <<mux, wpc, sshDone, spc>>
connVars == <<connectVars, wsVars, link, keepaliveVars, sshVars>>

ConnInit ==
    /\ cpc = "start"
    /\ timeUp = FALSE
    /\ ws = "none"
    /\ link = "up"
    /\ done = FALSE
    /\ kpc = "none"
    /\ failures = 0
    /\ mux = "none"
    /\ wpc = "none"
    /\ sshDone = FALSE
    /\ spc = "none"
    /\ outcomes = <<>>

-----------------------------------------------------------------------------
(* The network.                                                            *)

\* Packets are held up, for a while or for ever.
Stall ==
    /\ link = "up"
    /\ link' = "stalled"
    /\ UNCHANGED <<connectVars, wsVars, keepaliveVars, sshVars>>

Resume ==
    /\ link = "stalled"
    /\ link' = "up"
    /\ UNCHANGED <<connectVars, wsVars, keepaliveVars, sshVars>>

\* The TCP connection is reset, or the server closes it.
Break ==
    /\ link # "broken"
    /\ link' = "broken"
    /\ UNCHANGED <<connectVars, wsVars, keepaliveVars, sshVars>>

-----------------------------------------------------------------------------
(* Connect.                                                                *)

\* context.WithTimeout and transport.Dial.
StartDial ==
    /\ cpc = "start"
    /\ cpc' = "dialing"
    /\ UNCHANGED <<timeUp, wsVars, link, keepaliveVars, sshVars>>

\* The ten seconds of dialCtx have passed; it only bounds the dial.
TimesUp ==
    /\ cpc \in {"dialing", "handshake"}
    /\ ~timeUp
    /\ timeUp' = TRUE
    /\ UNCHANGED <<cpc, wsVars, link, keepaliveVars, sshVars>>

\* The server refuses the upgrade.
DialRefused ==
    /\ cpc = "dialing"
    /\ cpc' = "failed"
    /\ UNCHANGED <<timeUp, wsVars, link, keepaliveVars, sshVars>>

\* dialCtx ends, or the network refuses.
DialTimesOut ==
    /\ cpc = "dialing"
    /\ timeUp \/ link = "broken"
    /\ cpc' = "failed"
    /\ UNCHANGED <<timeUp, wsVars, link, keepaliveVars, sshVars>>

\* Dial returns a connection and has started its keepalive.
DialSucceeds ==
    /\ cpc = "dialing"
    /\ link = "up"
    /\ cpc' = "handshake"
    /\ ws' = "open"
    /\ kpc' = "waiting"
    /\ UNCHANGED <<timeUp, done, link, failures, outcomes, sshVars>>

\* ssh.NewClientConn returns a connection; the keepalive is started.
HandshakeSucceeds ==
    /\ cpc = "handshake"
    /\ ws = "open" /\ link = "up"
    /\ cpc' = "connected"
    /\ mux' = "up"
    /\ wpc' = "waiting"
    /\ spc' = "waiting"
    /\ UNCHANGED <<timeUp, wsVars, link, keepaliveVars, sshDone>>

\* connWithDone.Close, as often as it is called.
CloseConn ==
    /\ ws' = "closed"
    /\ done' = TRUE

\* Mutant: the error path leaves the connection open.
HandshakeRefused_Unclosed ==
    /\ cpc = "handshake"
    /\ ws = "open" /\ link = "up"
    /\ cpc' = "failed"
    /\ UNCHANGED <<timeUp, wsVars, link, keepaliveVars, sshVars>>

\* The host key or the user is refused; Connect closes the connection.
HandshakeRefused ==
    /\ cpc = "handshake"
    /\ ws = "open" /\ link = "up"
    /\ cpc' = "failed"
    /\ CloseConn
    /\ UNCHANGED <<timeUp, link, keepaliveVars, sshVars>>

\* A read or a write fails; Connect closes the connection.
HandshakeAborts ==
    /\ cpc = "handshake"
    /\ ws = "closed" \/ link = "broken"
    /\ cpc' = "failed"
    /\ CloseConn
    /\ UNCHANGED <<timeUp, link, keepaliveVars, sshVars>>

-----------------------------------------------------------------------------
(* keepalive of transport.go.                                              *)

\* case <-done
SeeDone ==
    /\ kpc = "waiting"
    /\ done
    /\ kpc' = "ended"
    /\ UNCHANGED <<connectVars, wsVars, link, failures, outcomes, sshVars>>

\* case <-ticker.C: c.Ping with a timeout.
Ping ==
    /\ kpc = "waiting"
    /\ kpc' = "pinging"
    /\ UNCHANGED <<connectVars, wsVars, link, failures, outcomes, sshVars>>

\* The history of the pings.
Record(answered) ==
    LET all == Append(outcomes, answered)
    IN  outcomes' = IF Len(all) > MaxPingFailures THEN Tail(all) ELSE all

\* Mutant: the counter is not reset.
PingAnswered_Unreset ==
    /\ kpc = "pinging"
    /\ ws = "open" /\ link = "up"
    /\ kpc' = "waiting"
    /\ Record(TRUE)
    /\ UNCHANGED <<connectVars, wsVars, link, failures, sshVars>>

PingAnswered ==
    /\ kpc = "pinging"
    /\ ws = "open" /\ link = "up"
    /\ kpc' = "waiting"
    /\ failures' = 0
    /\ Record(TRUE)
    /\ UNCHANGED <<connectVars, wsVars, link, sshVars>>

\* Mutant: one failure more is waited for.
PingFails_OffByOne ==
    /\ kpc = "pinging"
    /\ ws = "closed" \/ link # "up"
    /\ failures' = failures + 1
    /\ kpc' = IF failures >= MaxPingFailures THEN "closing" ELSE "waiting"
    /\ Record(FALSE)
    /\ UNCHANGED <<connectVars, wsVars, link, sshVars>>

PingFails ==
    /\ kpc = "pinging"
    /\ ws = "closed" \/ link # "up"
    /\ failures' = failures + 1
    /\ kpc' = IF failures + 1 >= MaxPingFailures THEN "closing" ELSE "waiting"
    /\ Record(FALSE)
    /\ UNCHANGED <<connectVars, wsVars, link, sshVars>>

\* Mutant: keepalive gives up and leaves the connection as it is.
KeepaliveCloses_Not ==
    /\ kpc = "closing"
    /\ kpc' = "ended"
    /\ UNCHANGED <<connectVars, wsVars, link, failures, outcomes, sshVars>>

\* c.Close, not that of connWithDone: done stays as it is.
KeepaliveCloses ==
    /\ kpc = "closing"
    /\ kpc' = "ended"
    /\ ws' = "closed"
    /\ UNCHANGED <<connectVars, done, link, failures, outcomes, sshVars>>

-----------------------------------------------------------------------------
(* The SSH connection and its keepalive.                                   *)

\* The SSH library's loop ends on a failed read and closes the connection.
MuxEnds ==
    /\ mux = "up"
    /\ ws = "closed" \/ link = "broken"
    /\ mux' = "down"
    /\ CloseConn
    /\ UNCHANGED <<connectVars, link, keepaliveVars, wpc, sshDone, spc>>

\* client.Wait returns: close(keepaliveDone).
WaitReturns ==
    /\ wpc = "waiting"
    /\ mux = "down"
    /\ wpc' = "ended"
    /\ sshDone' = TRUE
    /\ UNCHANGED <<connectVars, wsVars, link, keepaliveVars, mux, spc>>

\* case <-keepaliveDone
SeeSshDone ==
    /\ spc = "waiting"
    /\ sshDone
    /\ spc' = "ended"
    /\ UNCHANGED <<connectVars, wsVars, link, keepaliveVars, mux, wpc, sshDone>>

\* case <-t.C: SendRequest waits for a reply, without a limit.
SendKeepalive ==
    /\ spc = "waiting"
    /\ spc' = "sending"
    /\ UNCHANGED <<connectVars, wsVars, link, keepaliveVars, mux, wpc, sshDone>>

KeepaliveReply ==
    /\ spc = "sending"
    /\ mux = "up" /\ link = "up"
    /\ spc' = "waiting"
    /\ UNCHANGED <<connectVars, wsVars, link, keepaliveVars, mux, wpc, sshDone>>

SendFails ==
    /\ spc = "sending"
    /\ mux = "down"
    /\ spc' = "ended"
    /\ UNCHANGED <<connectVars, wsVars, link, keepaliveVars, mux, wpc, sshDone>>

-----------------------------------------------------------------------------
Network == Stall \/ Resume \/ Break

\* What depends on the server's good will.
Server == DialSucceeds \/ DialRefused \/ HandshakeSucceeds \/ HandshakeRefused

Connect == StartDial \/ TimesUp \/ DialTimesOut \/ HandshakeAborts

Keepalive == SeeDone \/ Ping \/ PingAnswered \/ PingFails \/ KeepaliveCloses

SshKeepalive == SeeSshDone \/ SendKeepalive \/ KeepaliveReply \/ SendFails

\* Nothing is left to do.
Terminated ==
    /\ cpc \in {"connected", "failed"} /\ kpc \in {"none", "ended"}
    /\ spc \in {"none", "ended"}
    /\ UNCHANGED connVars

ConnNext ==
    \/ Network \/ Server \/ Connect \/ Keepalive
    \/ MuxEnds \/ WaitReturns \/ SshKeepalive \/ Terminated

ConnSpec == ConnInit /\ [][ConnNext]_connVars

\* Goroutines are scheduled, timers fire and a failed read is noticed.
\* Nothing is assumed of the network or of the server.
Fairness ==
    /\ WF_connVars(StartDial) /\ WF_connVars(TimesUp)
    /\ WF_connVars(DialTimesOut) /\ WF_connVars(HandshakeAborts)
    /\ WF_connVars(Keepalive)
    /\ WF_connVars(MuxEnds) /\ WF_connVars(WaitReturns) /\ WF_connVars(SshKeepalive)

FairSpec == ConnSpec /\ Fairness

-----------------------------------------------------------------------------
(* Properties.                                                             *)

ConnTypeOK ==
    /\ cpc \in {"start", "dialing", "handshake", "connected", "failed"}
    /\ timeUp \in BOOLEAN /\ done \in BOOLEAN /\ sshDone \in BOOLEAN
    /\ ws \in {"none", "open", "closed"}
    /\ link \in {"up", "stalled", "broken"}
    /\ kpc \in {"none", "waiting", "pinging", "closing", "ended"}
    /\ failures \in 0..MaxPingFailures
    /\ mux \in {"none", "up", "down"}
    /\ wpc \in {"none", "waiting", "ended"}
    /\ spc \in {"none", "waiting", "sending", "ended"}
    /\ outcomes \in Seq(BOOLEAN) /\ Len(outcomes) <= MaxPingFailures

\* "Close the connection only after consecutive ping failures so brief network
\* blips don't drop sessions" (transport.go:125-127): the keepalive gives up
\* only when the last MaxPingFailures pings have all failed.  The package
\* comment (transport.go:15-18) still describes a goroutine that exits on the
\* first failure.
BlipsSpared ==
    kpc = "closing" =>
        /\ Len(outcomes) = MaxPingFailures
        /\ \A i \in DOMAIN outcomes : ~outcomes[i]

\* A server that is unreachable for good is given up, whether Connect was
\* dialling, in the handshake, or had long returned: Connect returns and the
\* connection is closed (transport.go:120-129, client.go:47-61).
SilentServerDropped ==
    <>[](link # "up") =>
        <>(cpc \in {"connected", "failed"} /\ ws # "open")

\* A connection that failed or was closed leaves no goroutine behind, neither
\* that of the transport nor the two of Connect (transport.go:105,
\* client.go:61-86).
GoroutinesEnd ==
    cpc = "failed" \/ ws = "closed" ~>
        /\ kpc \in {"none", "ended"}
        /\ wpc \in {"none", "ended"}
        /\ spc \in {"none", "ended"}

\* "Both the WebSocket dial and the SSH handshake are bounded by a 10-second
\* timeout" (client.go:42-44).
ConnectBounded ==
    timeUp /\ cpc \in {"dialing", "handshake"} ~> cpc \in {"connected", "failed"}

=============================================================================
