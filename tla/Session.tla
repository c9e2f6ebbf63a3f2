------------------------------ MODULE Session ------------------------------
(***************************************************************************)
(* The session channels of internal/server/session.go: for each channel    *)
(* the goroutine of handleSession, the child it starts, the goroutine of   *)
(* reap, the copiers, and childrenSem, which all channels share.           *)
(*                                                                         *)
(* A session is a member of Sessions, opened at most once.  The channel of *)
(* golang.org/x/crypto/ssh is modelled by what session.go relies on: the   *)
(* requests queued for the handler, and whether reads and writes still     *)
(* work.  Output is counted in chunks.                                     *)
(***************************************************************************)
EXTENDS Integers, Sequences, FiniteSets

CONSTANTS
    Sessions,      \* session channels
    MaxChildren,   \* Config.MaxChildren after New applied the default
    Sizes,         \* window sizes, as clampWinsize returns them
    DefaultSize,   \* 80x24
    Kinds,         \* bound: the kinds of requests the clients send, and "eof"
    MaxQueued,     \* bound: requests a client has under way
    MaxOut,        \* bound: chunks of output a child writes
    MayFork        \* a command leaves a descendant that holds its stdout

ASSUME SessionsFinite == IsFiniteSet(Sessions)
ASSUME MaxChildrenPositive == MaxChildren \in Nat \ {0}
ASSUME DefaultSizeValid == DefaultSize \in Sizes
ASSUME BoundsNatural == MaxQueued \in Nat /\ MaxOut \in Nat
ASSUME MayForkBoolean == MayFork \in BOOLEAN

VARIABLES
    chan,        \* "none", "open", "closing" (our close sent) or "gone"
    reqs,        \* requests not yet taken by the handler
    eof,         \* the client has sent EOF
    hpc,         \* handleSession: "none", "loop", "starting", "killed", "done"
    havePTY,     \* a pty-req was accepted
    size,        \* rows, cols
    mode,        \* what the child runs on: "none", "pty" or "pipe"
    fdOpen,      \* pt or stdinPipe is open
    ptySize,     \* the size last set on the PTY
    child,       \* "none", "running", "exited" (a zombie) or "reaped"
    descendant,  \* a descendant of the child holds the stdout pipe
    rpc,         \* where reap is
    copier,      \* output to the channel: "none", "copying" or "done"
    stdinCopier, \* the channel to the child's input, likewise
    made,        \* chunks written by the child
    buffered,    \* of these, chunks in the pipe or the PTY
    sent,        \* of these, chunks delivered to the channel
    reported,    \* exit-status or exit-signal was sent
    childrenSem  \* len(s.childrenSem)

clientVars == <<chan, reqs, eof>>
handlerVars == <<hpc, havePTY, size>>
ttyVars == <<mode, fdOpen, ptySize>>
childVars == <<child, descendant>>
outputVars == <<copier, made, buffered, sent>>
reapVars == <<rpc, reported>>
vars == <<clientVars, handlerVars, ttyVars, childVars, outputVars, reapVars,
          stdinCopier, childrenSem>>

SizeRequests == [kind : {"pty-req", "window-change"}, size : Sizes]
\* "start" stands for shell and for exec; "malformed" for a payload that does
\* not parse and for an unknown type.
Requests == SizeRequests \cup [kind : {"start", "malformed"}]

\* The phases of reap between its start and its deferred release.
ReapPhases == {"wait", "copyWait", "close", "drain", "report", "closeChan",
               "release"}

\* cmd is not nil: the goroutine of reap was started with it.
Started(s) == rpc[s] # "none"

\* The sessions that hold a slot of childrenSem.
SlotHolders ==
    {s \in Sessions : hpc[s] = "starting" \/ rpc[s] \in ReapPhases}

\* The sessions with a process in the kernel's table.
Processes == {s \in Sessions : child[s] \in {"running", "exited"}}

Init ==
    /\ chan = [s \in Sessions |-> "none"]
    /\ reqs = [s \in Sessions |-> <<>>]
    /\ eof = [s \in Sessions |-> FALSE]
    /\ hpc = [s \in Sessions |-> "none"]
    /\ havePTY = [s \in Sessions |-> FALSE]
    /\ size = [s \in Sessions |-> DefaultSize]
    /\ mode = [s \in Sessions |-> "none"]
    /\ fdOpen = [s \in Sessions |-> FALSE]
    /\ ptySize = [s \in Sessions |-> DefaultSize]
    /\ child = [s \in Sessions |-> "none"]
    /\ descendant = [s \in Sessions |-> FALSE]
    /\ rpc = [s \in Sessions |-> "none"]
    /\ copier = [s \in Sessions |-> "none"]
    /\ stdinCopier = [s \in Sessions |-> "none"]
    /\ made = [s \in Sessions |-> 0]
    /\ buffered = [s \in Sessions |-> 0]
    /\ sent = [s \in Sessions |-> 0]
    /\ reported = [s \in Sessions |-> FALSE]
    /\ childrenSem = 0

-----------------------------------------------------------------------------
(* The client, through the SSH library.                                    *)

\* newChannel.Accept and go s.handleSession (serveConn).
Open(s) ==
    /\ chan[s] = "none"
    /\ chan' = [chan EXCEPT ![s] = "open"]
    /\ hpc' = [hpc EXCEPT ![s] = "loop"]
    /\ UNCHANGED <<reqs, eof, havePTY, size, ttyVars, childVars, outputVars,
                   reapVars, stdinCopier, childrenSem>>

\* A request arrives; until our close is answered it still does.
Send(s) ==
    /\ chan[s] \in {"open", "closing"}
    /\ Len(reqs[s]) < MaxQueued
    /\ \E r \in Requests :
         r.kind \in Kinds /\ reqs' = [reqs EXCEPT ![s] = Append(@, r)]
    /\ UNCHANGED <<chan, eof, handlerVars, ttyVars, childVars, outputVars,
                   reapVars, stdinCopier, childrenSem>>

\* The client has no more input.
SendEOF(s) ==
    /\ "eof" \in Kinds
    /\ chan[s] \in {"open", "closing"}
    /\ ~eof[s]
    /\ eof' = [eof EXCEPT ![s] = TRUE]
    /\ UNCHANGED <<chan, reqs, handlerVars, ttyVars, childVars, outputVars,
                   reapVars, stdinCopier, childrenSem>>

\* The client closes the channel, answers our close, or the connection is
\* lost: the requests channel is closed, reads and writes fail.
Lose(s) ==
    /\ chan[s] \in {"open", "closing"}
    /\ chan' = [chan EXCEPT ![s] = "gone"]
    /\ UNCHANGED <<reqs, eof, handlerVars, ttyVars, childVars, outputVars,
                   reapVars, stdinCopier, childrenSem>>

\* Input arrives that nobody takes: the child or the PTY is gone, the write
\* fails and io.Copy from the channel returns.
InputFails(s) ==
    /\ stdinCopier[s] = "copying"
    /\ chan[s] \in {"open", "closing"}
    /\ ~eof[s]
    /\ ~fdOpen[s] \/ (mode[s] = "pipe" /\ child[s] # "running")
    /\ stdinCopier' = [stdinCopier EXCEPT ![s] = "done"]
    /\ UNCHANGED <<clientVars, handlerVars, ttyVars, childVars, outputVars,
                   reapVars, childrenSem>>

-----------------------------------------------------------------------------
(* handleSession.                                                          *)

\* The handler takes the next request, of one of the given kinds.
Take(s, kinds) ==
    /\ hpc[s] = "loop"
    /\ reqs[s] # <<>>
    /\ Head(reqs[s]).kind \in kinds
    /\ reqs' = [reqs EXCEPT ![s] = Tail(@)]

\* pty-req and window-change: remember the size and, under mu, resize an open
\* PTY (Resize of a closed one fails, which is ignored).
TakeSize(s) ==
    /\ Take(s, {"pty-req", "window-change"})
    /\ LET r == Head(reqs[s])
       IN  /\ size' = [size EXCEPT ![s] = r.size]
           /\ havePTY' = [havePTY EXCEPT ![s] = @ \/ r.kind = "pty-req"]
           /\ ptySize' = [ptySize EXCEPT ![s] =
                             IF mode[s] = "pty" /\ fdOpen[s] THEN r.size ELSE @]
    /\ UNCHANGED <<chan, eof, hpc, mode, fdOpen, childVars, outputVars,
                   reapVars, stdinCopier, childrenSem>>

\* The request is answered with a failure and nothing else happens: it does
\* not parse, a child was started before, or every slot is taken.
Refuse(s) ==
    /\ \/ Take(s, {"malformed"})
       \/ Take(s, {"start"}) /\ (Started(s) \/ childrenSem >= MaxChildren)
    /\ UNCHANGED <<chan, eof, handlerVars, ttyVars, childVars, outputVars,
                   reapVars, stdinCopier, childrenSem>>

\* Mutant: a session that has a child may start another.
TakeStart_Again(s) ==
    /\ Take(s, {"start"})
    /\ childrenSem < MaxChildren
    /\ childrenSem' = childrenSem + 1
    /\ hpc' = [hpc EXCEPT ![s] = "starting"]
    /\ UNCHANGED <<chan, eof, havePTY, size, ttyVars, childVars, outputVars,
                   reapVars, stdinCopier>>

\* Mutant: one slot too many.
TakeStart_OffByOne(s) ==
    /\ Take(s, {"start"})
    /\ ~Started(s)
    /\ childrenSem <= MaxChildren
    /\ childrenSem' = childrenSem + 1
    /\ hpc' = [hpc EXCEPT ![s] = "starting"]
    /\ UNCHANGED <<chan, eof, havePTY, size, ttyVars, childVars, outputVars,
                   reapVars, stdinCopier>>

\* shell or exec, up to the call of startProcess.
TakeStart(s) ==
    /\ Take(s, {"start"})
    /\ ~Started(s)
    /\ childrenSem < MaxChildren
    /\ childrenSem' = childrenSem + 1
    /\ hpc' = [hpc EXCEPT ![s] = "starting"]
    /\ UNCHANGED <<chan, eof, havePTY, size, ttyVars, childVars, outputVars,
                   reapVars, stdinCopier>>

\* Mutant: a failed start keeps the slot.
StartFails_Leaks(s) ==
    /\ hpc[s] = "starting"
    /\ hpc' = [hpc EXCEPT ![s] = "loop"]
    /\ UNCHANGED <<clientVars, havePTY, size, ttyVars, childVars, outputVars,
                   reapVars, stdinCopier, childrenSem>>

\* startProcess fails after closing what it had opened: cmd is nil again and
\* the slot is released (semHeld, never reset, is TRUE at every release).
StartFails(s) ==
    /\ hpc[s] = "starting"
    /\ hpc' = [hpc EXCEPT ![s] = "loop"]
    /\ childrenSem > 0
    /\ childrenSem' = childrenSem - 1
    /\ UNCHANGED <<clientVars, havePTY, size, ttyVars, childVars, outputVars,
                   reapVars, stdinCopier>>

\* Mutant: the new PTY keeps the size it was made with.
StartProcess_Unsized(s) ==
    /\ hpc[s] = "starting"
    /\ hpc' = [hpc EXCEPT ![s] = "loop"]
    /\ mode' = [mode EXCEPT ![s] = IF havePTY[s] THEN "pty" ELSE "pipe"]
    /\ fdOpen' = [fdOpen EXCEPT ![s] = TRUE]
    /\ child' = [child EXCEPT ![s] = "running"]
    /\ copier' = [copier EXCEPT ![s] = "copying"]
    /\ stdinCopier' = [stdinCopier EXCEPT ![s] = "copying"]
    /\ rpc' = [rpc EXCEPT ![s] = "wait"]
    /\ UNCHANGED <<clientVars, havePTY, size, ptySize, descendant, made,
                   buffered, sent, reported, childrenSem>>

\* startProcess succeeds, on a PTY of the current size or on a pipe, and reap
\* is started; output and input are copied from now on.
StartProcess(s) ==
    /\ hpc[s] = "starting"
    /\ hpc' = [hpc EXCEPT ![s] = "loop"]
    /\ mode' = [mode EXCEPT ![s] = IF havePTY[s] THEN "pty" ELSE "pipe"]
    /\ fdOpen' = [fdOpen EXCEPT ![s] = TRUE]
    /\ ptySize' = [ptySize EXCEPT ![s] = size[s]]
    /\ child' = [child EXCEPT ![s] = "running"]
    /\ copier' = [copier EXCEPT ![s] = "copying"]
    /\ stdinCopier' = [stdinCopier EXCEPT ![s] = "copying"]
    /\ rpc' = [rpc EXCEPT ![s] = "wait"]
    /\ UNCHANGED <<clientVars, havePTY, size, descendant, made, buffered, sent,
                   reported, childrenSem>>

\* Mutant: the teardown leaves the child alone.
Kill_Spares(s) ==
    /\ hpc[s] = "loop"
    /\ chan[s] = "gone"
    /\ reqs[s] = <<>>
    /\ hpc' = [hpc EXCEPT ![s] = "killed"]
    /\ UNCHANGED <<clientVars, havePTY, size, ttyVars, childVars, outputVars,
                   reapVars, stdinCopier, childrenSem>>

\* requests is closed and empty: the deferred teardown kills the child if
\* there is one that has not exited.
Kill(s) ==
    /\ hpc[s] = "loop"
    /\ chan[s] = "gone"
    /\ reqs[s] = <<>>
    /\ hpc' = [hpc EXCEPT ![s] = "killed"]
    /\ child' = [child EXCEPT ![s] = IF @ = "running" THEN "exited" ELSE @]
    /\ UNCHANGED <<clientVars, havePTY, size, ttyVars, descendant, outputVars,
                   reapVars, stdinCopier, childrenSem>>

\* The rest of the teardown: pt.Close under mu, or stdinPipe.Close.
CloseInput(s) ==
    /\ hpc[s] = "killed"
    /\ hpc' = [hpc EXCEPT ![s] = "done"]
    /\ fdOpen' = [fdOpen EXCEPT ![s] = FALSE]
    /\ UNCHANGED <<clientVars, havePTY, size, mode, ptySize, childVars,
                   outputVars, reapVars, stdinCopier, childrenSem>>

-----------------------------------------------------------------------------
(* The child, its descendants and the copiers.                             *)

\* A chunk of output, while somebody reads the other end.
Write(s) ==
    /\ child[s] = "running" \/ descendant[s]
    /\ copier[s] = "copying"
    /\ mode[s] = "pty" => fdOpen[s]
    /\ made[s] < MaxOut
    /\ made' = [made EXCEPT ![s] = @ + 1]
    /\ buffered' = [buffered EXCEPT ![s] = @ + 1]
    /\ UNCHANGED <<clientVars, handlerVars, ttyVars, childVars, copier, sent,
                   reapVars, stdinCopier, childrenSem>>

\* The child starts a background process that inherits the stdout pipe.
Fork(s) ==
    /\ MayFork
    /\ child[s] = "running"
    /\ mode[s] = "pipe"
    /\ descendant' = [descendant EXCEPT ![s] = TRUE]
    /\ UNCHANGED <<clientVars, handlerVars, ttyVars, child, outputVars,
                   reapVars, stdinCopier, childrenSem>>

DescendantExits(s) ==
    /\ descendant[s]
    /\ descendant' = [descendant EXCEPT ![s] = FALSE]
    /\ UNCHANGED <<clientVars, handlerVars, ttyVars, child, outputVars,
                   reapVars, stdinCopier, childrenSem>>

ChildExits(s) ==
    /\ child[s] = "running"
    /\ child' = [child EXCEPT ![s] = "exited"]
    /\ UNCHANGED <<clientVars, handlerVars, ttyVars, descendant, outputVars,
                   reapVars, stdinCopier, childrenSem>>

\* One turn of io.Copy to the channel; it waits for the client's window.
CopyOut(s) ==
    /\ copier[s] = "copying"
    /\ buffered[s] > 0
    /\ chan[s] = "open"
    /\ mode[s] = "pty" => fdOpen[s]
    /\ buffered' = [buffered EXCEPT ![s] = @ - 1]
    /\ sent' = [sent EXCEPT ![s] = @ + 1]
    /\ UNCHANGED <<clientVars, handlerVars, ttyVars, childVars, copier, made,
                   reapVars, stdinCopier, childrenSem>>

\* io.Copy to the channel returns: a write fails; the pipe is at its end; or
\* the PTY was closed.  The daemon holds both ends of the PTY open, so that
\* the child's exit alone does not end the copy.
CopyOutEnds(s) ==
    /\ copier[s] = "copying"
    /\ \/ buffered[s] > 0 /\ chan[s] # "open"
       \/ /\ mode[s] = "pipe"
          /\ buffered[s] = 0 /\ child[s] # "running" /\ ~descendant[s]
       \/ mode[s] = "pty" /\ ~fdOpen[s]
    /\ copier' = [copier EXCEPT ![s] = "done"]
    /\ UNCHANGED <<clientVars, handlerVars, ttyVars, childVars, made, buffered,
                   sent, reapVars, stdinCopier, childrenSem>>

\* io.Copy from the channel returns at EOF or when the channel is gone; it
\* closes nothing.
CopyInEnds(s) ==
    /\ stdinCopier[s] = "copying"
    /\ eof[s] \/ chan[s] = "gone"
    /\ stdinCopier' = [stdinCopier EXCEPT ![s] = "done"]
    /\ UNCHANGED <<clientVars, handlerVars, ttyVars, childVars, outputVars,
                   reapVars, childrenSem>>

-----------------------------------------------------------------------------
(* reap.                                                                   *)

ReapStep(s, from, to) ==
    /\ rpc[s] = from
    /\ rpc' = [rpc EXCEPT ![s] = to]

\* Mutant: reap goes on without having collected the child.
WaitChild_Not(s) ==
    /\ ReapStep(s, "wait", IF mode[s] = "pipe" THEN "copyWait" ELSE "close")
    /\ UNCHANGED <<clientVars, handlerVars, ttyVars, childVars, outputVars,
                   reported, stdinCopier, childrenSem>>

\* cmd.Wait collects the child; exec.Cmd also waits for its own copier.
WaitChild(s) ==
    /\ ReapStep(s, "wait", IF mode[s] = "pipe" THEN "copyWait" ELSE "close")
    /\ child[s] = "exited"
    /\ child' = [child EXCEPT ![s] = "reaped"]
    /\ UNCHANGED <<clientVars, handlerVars, ttyVars, descendant, outputVars,
                   reported, stdinCopier, childrenSem>>

\* Mutant: the copier is not waited for.
WaitCopy_Not(s) ==
    /\ \/ ReapStep(s, "copyWait", "close")
       \/ ReapStep(s, "drain", "report")
    /\ UNCHANGED <<clientVars, handlerVars, ttyVars, childVars, outputVars,
                   reported, stdinCopier, childrenSem>>

WaitCopy(s) ==
    /\ \/ ReapStep(s, "copyWait", "close")
       \/ ReapStep(s, "drain", "report")
    /\ copier[s] = "done"
    /\ UNCHANGED <<clientVars, handlerVars, ttyVars, childVars, outputVars,
                   reported, stdinCopier, childrenSem>>

\* Mutant: reap leaves the PTY or the pipe open.
ReapClose_Not(s) ==
    /\ ReapStep(s, "close", "drain")
    /\ UNCHANGED <<clientVars, handlerVars, ttyVars, childVars, outputVars,
                   reported, stdinCopier, childrenSem>>

\* pt.Close under mu, or stdinPipe.Close, then copyWG.Wait.
ReapClose(s) ==
    /\ ReapStep(s, "close", "drain")
    /\ fdOpen' = [fdOpen EXCEPT ![s] = FALSE]
    /\ UNCHANGED <<clientVars, handlerVars, mode, ptySize, childVars,
                   outputVars, reported, stdinCopier, childrenSem>>

\* exit-status or exit-signal; on a channel that is gone it fails.
Report(s) ==
    /\ ReapStep(s, "report", "closeChan")
    /\ reported' = [reported EXCEPT ![s] = chan[s] = "open"]
    /\ UNCHANGED <<clientVars, handlerVars, ttyVars, childVars, outputVars,
                   stdinCopier, childrenSem>>

CloseChannel(s) ==
    /\ ReapStep(s, "closeChan", "release")
    /\ chan' = [chan EXCEPT ![s] = IF @ = "open" THEN "closing" ELSE @]
    /\ UNCHANGED <<reqs, eof, handlerVars, ttyVars, childVars, outputVars,
                   reported, stdinCopier, childrenSem>>

\* The deferred release.
Release(s) ==
    /\ ReapStep(s, "release", "done")
    /\ childrenSem > 0
    /\ childrenSem' = childrenSem - 1
    /\ UNCHANGED <<clientVars, handlerVars, ttyVars, childVars, outputVars,
                   reported, stdinCopier>>

-----------------------------------------------------------------------------
ClientStep(s) ==
    Open(s) \/ Send(s) \/ SendEOF(s) \/ Lose(s) \/ InputFails(s)

HandlerStep(s) ==
    \/ TakeSize(s) \/ Refuse(s) \/ TakeStart(s)
    \/ StartFails(s) \/ StartProcess(s) \/ Kill(s) \/ CloseInput(s)

ChildStep(s) ==
    Write(s) \/ Fork(s) \/ DescendantExits(s) \/ ChildExits(s)

ReaperStep(s) ==
    \/ WaitChild(s) \/ WaitCopy(s) \/ ReapClose(s)
    \/ Report(s) \/ CloseChannel(s) \/ Release(s)

\* What the daemon's goroutines do for session s, the reading client aside.
ServerStep(s) ==
    HandlerStep(s) \/ ReaperStep(s) \/ CopyOutEnds(s) \/ CopyInEnds(s)

SessionStep(s) == ServerStep(s) \/ CopyOut(s) \/ ClientStep(s) \/ ChildStep(s)

\* Every session is over.
Terminated ==
    /\ \A s \in Sessions : hpc[s] = "done" /\ rpc[s] \in {"none", "done"}
    /\ UNCHANGED vars

Next == (\E s \in Sessions : SessionStep(s)) \/ Terminated

Spec == Init /\ [][Next]_vars

\* Each goroutine is scheduled; nothing is assumed of the client or the child.
Fairness ==
    \A s \in Sessions :
        /\ WF_vars(HandlerStep(s))
        /\ WF_vars(ReaperStep(s))
        /\ WF_vars(CopyOutEnds(s))
        /\ WF_vars(CopyInEnds(s))

FairSpec == Spec /\ Fairness

\* A client that keeps reading its channel.
ReadingSpec == FairSpec /\ \A s \in Sessions : WF_vars(CopyOut(s))

-----------------------------------------------------------------------------
(* Properties.                                                             *)

TypeOK ==
    /\ chan \in [Sessions -> {"none", "open", "closing", "gone"}]
    /\ reqs \in [Sessions -> Seq(Requests)]
    /\ eof \in [Sessions -> BOOLEAN]
    /\ hpc \in [Sessions -> {"none", "loop", "starting", "killed", "done"}]
    /\ havePTY \in [Sessions -> BOOLEAN]
    /\ size \in [Sessions -> Sizes]
    /\ mode \in [Sessions -> {"none", "pty", "pipe"}]
    /\ fdOpen \in [Sessions -> BOOLEAN]
    /\ ptySize \in [Sessions -> Sizes]
    /\ child \in [Sessions -> {"none", "running", "exited", "reaped"}]
    /\ descendant \in [Sessions -> BOOLEAN]
    /\ rpc \in [Sessions -> ReapPhases \cup {"none", "done"}]
    /\ copier \in [Sessions -> {"none", "copying", "done"}]
    /\ stdinCopier \in [Sessions -> {"none", "copying", "done"}]
    /\ made \in [Sessions -> Nat]
    /\ buffered \in [Sessions -> Nat]
    /\ sent \in [Sessions -> Nat]
    /\ reported \in [Sessions -> BOOLEAN]
    /\ childrenSem \in 0..MaxChildren

\* Every slot of childrenSem taken for a start is released once: by the
\* handler if the start fails, by reap otherwise (session.go:198-220, 315).
SlotAccounting == childrenSem = Cardinality(SlotHolders)

\* "MaxChildren caps concurrently running child processes" (server.go:62):
\* there are never more, not even as zombies, whichever way they ended.
ProcessesCapped == Cardinality(Processes) <= MaxChildren

\* A shell or exec that is refused, repeated or raced by the teardown never
\* gives a session a second child (session.go:183).
OneChild ==
    [][\A s \in Sessions : Started(s) /\ child'[s] = "running"
                              => child[s] = "running"]_vars

\* Without a PTY, the exit status that an open channel receives comes after
\* all the output of the command (session.go:340, 377).
PipeOutputBeforeStatus ==
    \A s \in Sessions :
        mode[s] = "pipe" /\ reported[s] => sent[s] = made[s]

\* Once both goroutines of a session are over nothing of it is left: its
\* child is reaped and the PTY or the pipe is closed, in whatever order the
\* client's close and the child's exit came (session.go:110-135, 344-356).
NothingLeft ==
    \A s \in Sessions :
        hpc[s] = "done" /\ rpc[s] \in {"none", "done"} =>
            /\ child[s] \in {"none", "reaped"}
            /\ copier[s] # "copying"
            /\ ~fdOpen[s]

\* As long as the PTY is open it has the last size the handler has accepted,
\* also when the size came before the PTY existed (session.go:155-160,
\* 174-179, 249).
PtyFollowsClient ==
    \A s \in Sessions : mode[s] = "pty" /\ fdOpen[s] => ptySize[s] = size[s]

\* childrenSem is a semaphore.
Slots == INSTANCE Semaphore
    WITH Clients <- Sessions, Cap <- MaxChildren, held <- SlotHolders
ImplementsSemaphore == Slots!Spec

\* When its channel is lost, a session ends: its handler and the copier of its
\* input at once, and then, unless the command has left a descendant behind
\* that holds its stdout for ever, its slot is free again: the child was killed
\* and reaped (session.go:110-135, 314-315, 340).
LostSessionEnds ==
    \A s \in Sessions :
        /\ chan[s] = "gone" ~> hpc[s] = "done" /\ stdinCopier[s] # "copying"
        /\ <>[](chan[s] = "gone" /\ ~descendant[s]) => <>[](s \notin SlotHolders)

\* A client that keeps reading learns how its command ended, or has gone,
\* unless a descendant holds the command's stdout for ever
\* (session.go:340-378).
ExitReported ==
    \A s \in Sessions :
        <>[]~descendant[s] =>
            (child[s] = "exited" ~> reported[s] \/ chan[s] = "gone")

=============================================================================
