----------------------------- MODULE ExitStatus -----------------------------
(***************************************************************************)
(* How the end of a remote command becomes the exit code of wssh:          *)
(* parseExitStatus of internal/server/exit_unix.go (and its namesake for   *)
(* Windows, where no process is signaled), reap's report, Session.Wait of  *)
(* golang.org/x/crypto/ssh, and mapWaitError and ExitCode of               *)
(* internal/client/client.go.                                              *)
(*                                                                         *)
(* A command ends with an exit code, is killed by a signal, or what became *)
(* of it is "unknown" because waiting for it failed.  Codes are 8 bits     *)
(* wide on Unix and 32 on Windows.                                         *)
(***************************************************************************)
EXTENDS Integers

Exited(code) == [how |-> "exited", code |-> code]
Signaled == [how |-> "signaled", code |-> 0]
UnknownEnd == [how |-> "unknown", code |-> 0]

\* Mutant: signals are not told apart, and ExitCode() is -1 for them.
ParseExitStatus_Unsignaled(end) ==
    [signaled |-> FALSE,
     status   |-> IF end.how = "exited" THEN end.code ELSE 1]

\* The exitInfo for the error of Wait.
ParseExitStatus(end) ==
    [signaled |-> end.how = "signaled",
     status   |-> CASE end.how = "exited"   -> end.code
                    [] end.how = "signaled" -> 0
                    [] end.how = "unknown"  -> 1]

\* The channel request with which reap ends a session.
Report(info) ==
    IF info.signaled THEN [request |-> "exit-signal", status |-> 0]
                     ELSE [request |-> "exit-status", status |-> info.status]

\* Errors of the client: none, an exit status, a signal, or any other.
Nil == [kind |-> "nil", code |-> 0]
ExitError(code) == [kind |-> "exit", code |-> code]
SignalError == [kind |-> "signal", code |-> 0]
OtherError == [kind |-> "other", code |-> 0]

\* What Session.Wait makes of a report.
Waited(report) ==
    IF report.request = "exit-signal" THEN SignalError
    ELSE IF report.status = 0 THEN Nil ELSE ExitError(report.status)

MapWaitError(err) == IF err = SignalError THEN ExitError(128) ELSE err

ExitCode(err) ==
    CASE err.kind = "nil"  -> 0
      [] err.kind = "exit" -> err.code
      [] OTHER             -> 255

\* os.Exit: the kernel keeps 8 bits.
OsExit(code) == code % 256
=============================================================================
