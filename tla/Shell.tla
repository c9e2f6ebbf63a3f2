------------------------------- MODULE Shell -------------------------------
(***************************************************************************)
(* The client: main of cmd/wssh/main.go, and RunShell with its signal      *)
(* goroutine or RunCommand of internal/client/client.go, on Unix.  The     *)
(* goroutines of RunShell share the terminal and the session; the kernel   *)
(* sends SIGWINCH and SIGTERM (which stands for SIGINT as well) at any     *)
(* moment, the remote command ends in any way, and its report may be lost  *)
(* with the connection.                                                    *)
(*                                                                         *)
(* Channel requests are taken by the server in the order they are sent, so *)
(* that remote, the size last sent, is the size the server ends up with.   *)
(* term.GetSize does not fail on a terminal; a write to the session may    *)
(* take any time.  wssh -version is left out.                              *)
(***************************************************************************)
EXTENDS Sequences, WinSize, ExitStatus

CONSTANTS
    Sizes,      \* sizes of the local terminal
    Codes       \* exit codes of the remote command

\* The kernel's sizes have 16-bit sides, a side of 0 included.
ASSUME SizesRepresentable == \A size \in Sizes : Representable(size)
ASSUME CodesNatural == Codes \subseteq Nat

Unmeasured == Size(-1, -1)   \* the size before it was measured

VARIABLES
    window,    \* the size of the local terminal
    tty,       \* its mode: "cooked" or "raw"
    notify,    \* signal.Notify is in effect
    sigCh,     \* the channel, with room for one signal
    done,      \* the channel done is closed
    sess,      \* the session: "open", "reported" and closed by the server,
               \* "lost" or "closed" by us
    end,       \* how the remote command ended, or Running
    remote,    \* the size of the remote PTY
    command,   \* a command was given: RunCommand
    mpc,       \* where main is, see MainPhases
    measured,  \* its w, h
    err,       \* what RunShell or RunCommand returns, once it has an error
    hpc,       \* where the signal goroutine is, see HandlerPhases
    hsize,     \* its w, h
    exit,      \* the exit code, or NoExit, or Killed by a signal
    asked,     \* history: a SIGTERM was sent to the running process
    fresh      \* history: the server got a size that was not outdated

sessionVars == <<sess, end, remote>>
signalVars == <<notify, sigCh, done>>
mainVars == <<command, mpc, measured, err>>
handlerVars == <<hpc, hsize>>
historyVars == <<asked, fresh>>
vars == <<window, tty, signalVars, sessionVars, mainVars, handlerVars, exit,
          historyVars>>

\* Up to "waiting" in the order of the code, then the deferred calls; RunCommand
\* goes from "start" to "shell".
MainPhases == {"main", "connect", "start", "raw", "notified", "sized", "pty",
               "shell", "waiting", "stop", "closeDone", "restore", "closeSess", "exit"}
HandlerPhases == {"none", "idle", "winch", "send", "restore", "close", "exit",
                  "ended"}

NoExit == -1
Killed == -2
Running == [how |-> "running", code |-> 0]

Init ==
    /\ window \in Sizes
    /\ tty = "cooked"
    /\ notify = FALSE
    /\ sigCh = <<>>
    /\ done = FALSE
    /\ sess = "open"
    /\ end = Running
    /\ remote = Unmeasured
    /\ command \in BOOLEAN
    /\ mpc = "main"
    /\ measured = Unmeasured
    /\ err = Nil
    /\ hpc = "none"
    /\ hsize = Unmeasured
    /\ exit = NoExit
    /\ asked = FALSE
    /\ fresh = FALSE

Alive == exit = NoExit

-----------------------------------------------------------------------------
(* The kernel, the user and the server.                                    *)

\* Mutant: the channel has room for every signal.
Deliver_Always(sig) == sigCh' = Append(sigCh, sig)

\* The runtime offers a signal to sigCh and drops it if there is no room.
Deliver(sig) == sigCh' = IF sigCh = <<>> THEN <<sig>> ELSE sigCh

\* The user resizes the terminal; unhandled, SIGWINCH is ignored.
Resize ==
    /\ Alive
    /\ window' \in Sizes \ {window}
    /\ IF notify THEN Deliver("WINCH") ELSE UNCHANGED sigCh
    /\ UNCHANGED <<tty, notify, done, sessionVars, mainVars, handlerVars, exit,
                   historyVars>>

\* SIGTERM or SIGINT; unhandled, it ends the process.
Term ==
    /\ Alive
    /\ asked' = TRUE
    /\ IF notify THEN Deliver("TERM") /\ UNCHANGED exit
                 ELSE exit' = Killed /\ UNCHANGED sigCh
    /\ UNCHANGED <<window, tty, notify, done, sessionVars, mainVars, handlerVars,
                   fresh>>

\* The remote command ends; before it was started it cannot.
CommandEnds ==
    /\ Alive
    /\ sess = "open" /\ end = Running
    /\ mpc \in {"shell", "waiting"}
    /\ end' \in {Exited(code) : code \in Codes} \cup {Signaled, UnknownEnd}
    /\ UNCHANGED <<window, tty, signalVars, sess, remote, mainVars, handlerVars,
                   exit, historyVars>>

\* The report of its end and the close of the channel arrive.
ReportArrives ==
    /\ Alive
    /\ sess = "open" /\ end # Running
    /\ sess' = "reported"
    /\ UNCHANGED <<window, tty, signalVars, end, remote, mainVars, handlerVars,
                   exit, historyVars>>

\* The connection is lost.
ConnLost ==
    /\ Alive
    /\ sess = "open" /\ mpc \notin {"main", "connect"}
    /\ sess' = "lost"
    /\ UNCHANGED <<window, tty, signalVars, end, remote, mainVars, handlerVars,
                   exit, historyVars>>

-----------------------------------------------------------------------------
(* main, RunShell and RunCommand.                                          *)

Step(from, to) ==
    /\ Alive
    /\ mpc = from
    /\ mpc' = to
    /\ UNCHANGED <<window, sigCh, end, command, hsize, asked>>

\* No home directory, no target, a bad target or no usable key.
UsageExits ==
    /\ Step("main", "main")
    /\ exit' = 2
    /\ UNCHANGED <<tty, notify, done, sess, remote, measured, err, hpc, fresh>>

\* The arguments and the keys are read.
Configured ==
    /\ Step("main", "connect")
    /\ UNCHANGED <<tty, notify, done, sess, remote, measured, err, hpc, exit,
                   fresh>>

ConnectFails ==
    /\ Step("connect", "connect")
    /\ exit' = 255
    /\ UNCHANGED <<tty, notify, done, sess, remote, measured, err, hpc, fresh>>

Connected ==
    /\ Step("connect", "start")
    /\ UNCHANGED <<tty, notify, done, sess, remote, measured, err, hpc, exit,
                   fresh>>

\* NewSession fails; stdin is not a terminal or MakeRaw fails.
SetupFails ==
    /\ Step("start", "exit") \/ (~command /\ Step("start", "closeSess"))
    /\ err' = OtherError
    /\ UNCHANGED <<tty, notify, done, sess, remote, measured, hpc, exit, fresh>>

\* RunCommand goes on to sess.Run, which starts with the request.
RequestExec ==
    /\ Step("start", "shell")
    /\ command
    /\ sess = "open"
    /\ UNCHANGED <<tty, notify, done, sess, remote, measured, err, hpc, exit,
                   fresh>>

\* RunShell sets the terminal to raw mode.
MakeRaw ==
    /\ Step("start", "raw")
    /\ ~command
    /\ tty' = "raw"
    /\ UNCHANGED <<notify, done, sess, remote, measured, err, hpc, exit, fresh>>

\* notifySignals, and the goroutine is started.
Notify ==
    /\ Step("raw", "notified")
    /\ notify' = TRUE
    /\ hpc' = "idle"
    /\ UNCHANGED <<tty, done, sess, remote, measured, err, exit, fresh>>

\* term.GetSize
Measure ==
    /\ Step("notified", "sized")
    /\ measured' = window
    /\ UNCHANGED <<tty, notify, done, sess, remote, err, hpc, exit, fresh>>

\* RequestPty sends its request and waits for the answer.
RequestPty ==
    /\ Step("sized", "pty")
    /\ sess = "open"
    /\ remote' = Clamp(measured)
    /\ fresh' = (measured = window)
    /\ UNCHANGED <<tty, notify, done, sess, measured, err, hpc, exit>>

\* RequestPty and then Shell, or the exec of Run, succeed.
Accepted ==
    /\ Step("pty", "shell") \/ Step("shell", "waiting")
    /\ sess \in {"open", "reported"}
    /\ UNCHANGED <<tty, notify, done, sess, remote, measured, err, hpc, exit,
                   fresh>>

\* A request cannot be sent, its answer is lost, or the server refuses it.
RequestFails ==
    /\ \/ command /\ (Step("start", "closeSess") \/ Step("shell", "closeSess"))
       \/ ~command /\ \E from \in {"sized", "pty", "shell"} : Step(from, "stop")
    /\ sess \in {"lost", "closed"} \/ (mpc \in {"pty", "shell"} /\ end = Running)
    /\ err' = OtherError
    /\ UNCHANGED <<tty, notify, done, sess, remote, measured, hpc, exit, fresh>>

\* What sess.Wait returns: without a report that it is missing; and where all
\* else went well, that local input or output could not be copied.
WaitErrors ==
    IF sess # "reported" THEN {OtherError}
    ELSE LET err1 == Waited(Report(ParseExitStatus(end)))
         IN  IF err1 = Nil THEN {Nil, OtherError} ELSE {err1}

\* Mutant: only a report ends the wait.
WaitReturns_OnReport ==
    /\ Step("waiting", IF command THEN "closeSess" ELSE "stop")
    /\ sess = "reported"
    /\ \E e \in WaitErrors : err' = MapWaitError(e)
    /\ UNCHANGED <<tty, notify, done, sess, remote, measured, hpc, exit, fresh>>

WaitReturns ==
    /\ Step("waiting", IF command THEN "closeSess" ELSE "stop")
    /\ sess # "open"
    /\ \E e \in WaitErrors : err' = MapWaitError(e)
    /\ UNCHANGED <<tty, notify, done, sess, remote, measured, hpc, exit, fresh>>

\* defer signal.Stop(sigCh)
StopSignals ==
    /\ Step("stop", "closeDone")
    /\ notify' = FALSE
    /\ UNCHANGED <<tty, done, sess, remote, measured, err, hpc, exit, fresh>>

\* defer close(done)
CloseDone ==
    /\ Step("closeDone", "restore")
    /\ done' = TRUE
    /\ UNCHANGED <<tty, notify, sess, remote, measured, err, hpc, exit, fresh>>

\* defer restore()
MainRestores ==
    /\ Step("restore", "closeSess")
    /\ tty' = "cooked"
    /\ UNCHANGED <<notify, done, sess, remote, measured, err, hpc, exit, fresh>>

CloseSession == sess' = IF sess = "open" THEN "closed" ELSE sess

\* defer sess.Close()
MainCloses ==
    /\ Step("closeSess", "exit")
    /\ CloseSession
    /\ UNCHANGED <<tty, notify, done, remote, measured, err, hpc, exit, fresh>>

\* main: os.Exit(client.ExitCode(err)).
MainExits ==
    /\ Step("exit", "exit")
    /\ exit' = OsExit(ExitCode(err))
    /\ UNCHANGED <<tty, notify, done, sess, remote, measured, err, hpc, fresh>>

-----------------------------------------------------------------------------
(* The signal goroutine.                                                   *)

HandlerStep(from, to) ==
    /\ Alive
    /\ hpc = from
    /\ hpc' = to
    /\ UNCHANGED <<window, notify, done, end, mainVars, asked>>

\* Mutant: a signal to end leaves the terminal as it is.
Receive_Unrestored ==
    /\ sigCh # <<>>
    /\ HandlerStep("idle", IF Head(sigCh) = "WINCH" THEN "winch" ELSE "close")
    /\ sigCh' = <<>>
    /\ UNCHANGED <<tty, sess, remote, hsize, exit, fresh>>

\* case sig := <-sigCh
Receive ==
    /\ sigCh # <<>>
    /\ HandlerStep("idle", IF Head(sigCh) = "WINCH" THEN "winch" ELSE "restore")
    /\ sigCh' = <<>>
    /\ UNCHANGED <<tty, sess, remote, hsize, exit, fresh>>

\* case <-done
SeeDone ==
    /\ done
    /\ HandlerStep("idle", "ended")
    /\ UNCHANGED <<tty, sigCh, sess, remote, hsize, exit, fresh>>

\* Mutant: the goroutine sends the size RunShell has measured.
HandlerMeasures_Reuses ==
    /\ HandlerStep("winch", "send")
    /\ hsize' = measured
    /\ UNCHANGED <<tty, sigCh, sess, remote, exit, fresh>>

\* term.GetSize
HandlerMeasures ==
    /\ HandlerStep("winch", "send")
    /\ hsize' = window
    /\ UNCHANGED <<tty, sigCh, sess, remote, exit, fresh>>

\* sess.WindowChange; on a session that has ended it fails, and a server that
\* has no PTY yet keeps the size for one.
WindowChange ==
    /\ HandlerStep("send", "idle")
    /\ remote' = IF sess = "open" THEN Clamp(hsize) ELSE remote
    /\ fresh' = (fresh \/ mpc \in {"pty", "shell", "waiting"})
    /\ UNCHANGED <<tty, sigCh, sess, hsize, exit>>

HandlerRestores ==
    /\ HandlerStep("restore", "close")
    /\ tty' = "cooked"
    /\ UNCHANGED <<sigCh, sess, remote, hsize, exit, fresh>>

HandlerCloses ==
    /\ HandlerStep("close", "exit")
    /\ CloseSession
    /\ UNCHANGED <<tty, sigCh, remote, hsize, exit, fresh>>

\* os.Exit(130)
HandlerExits ==
    /\ HandlerStep("exit", "exit")
    /\ exit' = 130
    /\ UNCHANGED <<tty, sigCh, sess, remote, hsize, fresh>>

-----------------------------------------------------------------------------
Environment == Resize \/ Term \/ CommandEnds \/ ReportArrives \/ ConnLost

Main ==
    \/ UsageExits \/ Configured \/ ConnectFails \/ Connected \/ SetupFails
    \/ RequestExec \/ MakeRaw \/ Notify \/ Measure \/ RequestPty \/ Accepted
    \/ RequestFails \/ WaitReturns \/ StopSignals \/ CloseDone \/ MainRestores
    \/ MainCloses \/ MainExits

Handler ==
    \/ Receive \/ SeeDone \/ HandlerMeasures \/ WindowChange
    \/ HandlerRestores \/ HandlerCloses \/ HandlerExits

\* The process is gone.
Terminated == ~Alive /\ UNCHANGED vars

Next == Environment \/ Main \/ Handler \/ Terminated

Spec == Init /\ [][Next]_vars

\* Both goroutines are scheduled, and calls on the session return.
Fairness == WF_vars(Main) /\ WF_vars(Handler)

FairSpec == Spec /\ Fairness

-----------------------------------------------------------------------------
(* Properties.                                                             *)

Ends == {Running, Signaled, UnknownEnd} \cup {Exited(code) : code \in Codes}
Errors == {Nil, OtherError, ExitError(128), ExitError(1)}
          \cup {ExitError(code) : code \in Codes}

TypeOK ==
    /\ window \in Sizes
    /\ tty \in {"cooked", "raw"}
    /\ notify \in BOOLEAN /\ done \in BOOLEAN
    /\ sigCh \in {<<>>, <<"WINCH">>, <<"TERM">>}
    /\ sess \in {"open", "reported", "lost", "closed"}
    /\ end \in Ends
    /\ remote = Unmeasured \/ Representable(remote)
    /\ command \in BOOLEAN
    /\ mpc \in MainPhases
    /\ measured \in Sizes \cup {Unmeasured}
    /\ err \in Errors
    /\ hpc \in HandlerPhases
    /\ hsize \in Sizes \cup {Unmeasured}
    /\ exit \in {NoExit, Killed} \cup 0..255
    /\ asked \in BOOLEAN /\ fresh \in BOOLEAN

\* Whichever goroutine ends the process, it leaves a terminal that was
\* restored, also when they race (client.go:163, 186).
ExitRestores == exit \in 0..255 => tty = "cooked"

\* Nothing is under way: no signal, and the signal goroutine waits.
Quiescent ==
    Alive /\ sigCh = <<>> /\ hpc = "idle" /\ mpc = "waiting" /\ sess = "open"

\* Resizes that come faster than they are sent are never lost: with nothing
\* under way the server has the terminal's size (client.go:165, 180-184), sides
\* of 0 replaced.  The one exception is a resize between the measuring and the
\* pty-req whose window-change overtakes that: the server is left with the size
\* that was measured, until the next resize.
ResizesSettle ==
    Quiescent => \/ remote = Clamp(window)
                 \/ ~fresh /\ remote = Clamp(measured)

\* No program is given a terminal without rows or columns, whatever the
\* client's terminal says of itself (session.go:51-68).
RemoteUsable == remote # Unmeasured => Usable(remote)

\* What a reported end of the command means to the caller of wssh.
Meaning == CASE end.how = "exited"   -> end.code % 256
             [] end.how = "signaled" -> 128
             [] end.how = "unknown"  -> 1

\* "Exit codes: 0 success, remote exit status for exec, 130 Ctrl+C, 255
\* connection failure, 2 usage/config error" (README.md:71-72), through every
\* conversion on the way (exit_unix.go:50-71, client.go:104-127): where a
\* report arrived its meaning is the exit code, unless the user asked to end or
\* success was spoiled by local input or output; without one there is never
\* success, and 130 is never made up.
ExitTruthful ==
    exit \in 0..255 =>
        \/ exit = 130 /\ asked
        \/ sess = "reported" /\ (exit = Meaning \/ (exit = 255 /\ Meaning = 0))
        \/ sess # "reported" /\ exit = 255
        \/ exit = 2 /\ mpc = "main"

\* When the remote command ends and this is reported, or the connection is
\* lost, the client ends (client.go:221-230, cmd/wssh/main.go:101-106).
ClientEnds == sess # "open" ~> ~Alive
=============================================================================
