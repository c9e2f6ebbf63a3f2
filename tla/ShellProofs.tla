---------------------------- MODULE ShellProofs ----------------------------
(***************************************************************************)
(* Proofs about Shell, for any sizes of the terminal and any exit codes.   *)
(***************************************************************************)
EXTENDS Shell, TLAPS

\* Before the signal goroutine runs; before the remote command runs; while the
\* goroutine is told of resizes; when RunShell or RunCommand has its result.
Early == {"main", "connect", "start", "raw"}
Unstarted == Early \cup {"notified", "sized", "pty"}
Notified == {"notified", "sized", "pty", "shell", "waiting", "stop"}
Past == {"stop", "closeDone", "restore", "closeSess", "exit"}

Phased ==
    /\ mpc \in Early => hpc = "none"
    /\ mpc \in {"main", "connect"} => sess = "open"
    /\ mpc \in Unstarted => end = Running
    /\ mpc \in Notified /\ hpc # "none" => notify
    /\ command => mpc # "raw" /\ hpc = "none" /\ tty = "cooked"
    /\ sess = "reported" => end # Running

\* What is sent was measured.
Measured ==
    /\ mpc = "sized" => measured \in Sizes
    /\ hpc = "send" => hsize \in Sizes

\* The terminal is raw only while RunShell still has to restore it, and not once
\* the signal goroutine has.
RawIsPending ==
    tty = "raw" =>
        /\ mpc \in {"raw", "notified", "sized", "pty", "shell", "waiting", "stop",
                    "closeDone", "restore"}
        /\ hpc \notin {"close", "exit"}

\* Only the user makes the goroutine end the process.
TermWasAsked ==
    sigCh = <<"TERM">> \/ hpc \in {"restore", "close", "exit"} => asked

\* A size of the terminal that the server does not have is on its way, unless
\* nothing but the outdated one of the pty-req was sent since.
Settling ==
    /\ mpc \in Notified /\ hpc = "send" => hsize = window \/ sigCh # <<>>
    /\ fresh /\ sess = "open" /\ mpc \in {"pty", "shell", "waiting"} =>
         remote = Clamp(window) \/ sigCh # <<>> \/ hpc # "idle"
    /\ ~fresh /\ ~command /\ mpc \in {"pty", "shell", "waiting"} =>
         remote = Clamp(measured)

\* The result means what was reported, and without a report it is an error.
Faithful ==
    IF sess = "reported"
    THEN OsExit(ExitCode(err)) = Meaning \/ (err = OtherError /\ Meaning = 0)
    ELSE err = OtherError /\ (sess = "open" => end = Running)
ResultFaithful == mpc \in Past => Faithful

IInv ==
    /\ TypeOK /\ Phased /\ Measured
    /\ RemoteUsable /\ RawIsPending /\ ExitRestores
    /\ TermWasAsked /\ Settling
    /\ ResultFaithful /\ ExitTruthful

-----------------------------------------------------------------------------
(* Sizes and results.                                                      *)

\* A side that fits into 16 bits keeps its value in the conversion.
LEMMA FittingKept ==
    ASSUME NEW n \in Nat, NEW x \in 0..(n - 1)
    PROVE  x % n = x
OBVIOUS

\* Every size the kernel can have becomes one a program can be shown in
\* (session.go:51-68).
LEMMA ClampUsable ==
    ASSUME NEW size, Representable(size)
    PROVE  Usable(Clamp(size)) /\ Representable(Clamp(size))
<1>1. Cells \in Nat /\ Cells > 100 /\ MaxSide = Cells - 1
  BY DEF Cells, MaxSide
<1>2. size.rows \in 0..(Cells - 1) /\ size.cols \in 0..(Cells - 1)
  BY <1>1 DEF Representable
<1>3. size.rows % Cells = size.rows /\ size.cols % Cells = size.cols
  BY <1>1, <1>2, FittingKept
<1>4. CASE size.rows = 0 \/ size.cols = 0
  BY <1>1, <1>2, <1>3, <1>4 DEF Representable, Usable, Clamp, Size
<1>5. CASE size.rows # 0 /\ size.cols # 0
  BY <1>1, <1>2, <1>5 DEF Representable, Usable, Clamp, Size
<1> QED BY <1>4, <1>5

\* The kernel's sizes are usable once clamped.
LEMMA SizeClamped ==
    ASSUME NEW size \in Sizes
    PROVE  /\ Usable(Clamp(size)) /\ Representable(Clamp(size))
           /\ Clamp(size) # Unmeasured
<1>1. Usable(Clamp(size)) /\ Representable(Clamp(size))
  BY ClampUsable, SizesRepresentable
<1>2. Clamp(size).rows \in 1..MaxSide
  BY <1>1 DEF Usable
<1>3. Unmeasured.rows = -1
  BY DEF Unmeasured, Size
<1> QED BY <1>1, <1>2, <1>3

\* An exit code has 8 bits.
LEMMA EightBits == ASSUME NEW n \in Nat PROVE n % 256 \in 0..255
OBVIOUS

\* Exit codes keep 8 bits.
LEMMA CodesFit ==
    /\ \A code \in Codes : code % 256 \in 0..255
    /\ 128 % 256 = 128 /\ 1 % 256 = 1 /\ 255 % 256 = 255 /\ 0 % 256 = 0
BY CodesNatural, EightBits

\* What Wait returns for a report means what the report means.
LEMMA WaitFaithful ==
    ASSUME end \in Ends, end # Running, sess = "reported", NEW e \in WaitErrors
    PROVE  /\ MapWaitError(e) \in Errors
           /\ \/ OsExit(ExitCode(MapWaitError(e))) = Meaning
              \/ MapWaitError(e) = OtherError /\ Meaning = 0
<1>1. CASE end = Signaled
  <2>1. e = SignalError
    BY <1>1 DEF WaitErrors, ParseExitStatus, Report, Waited, Signaled, Nil,
                SignalError
  <2> QED
    BY <1>1, <2>1, CodesFit
       DEF MapWaitError, Errors, ExitError, ExitCode, OsExit, Meaning, Signaled
<1>2. CASE end = UnknownEnd
  <2>1. e = ExitError(1)
    <3>1. ParseExitStatus(end) = [signaled |-> FALSE, status |-> 1]
      BY <1>2 DEF ParseExitStatus, UnknownEnd
    <3>2. Report(ParseExitStatus(end)) = [request |-> "exit-status", status |-> 1]
      BY <3>1 DEF Report
    <3>3. Waited(Report(ParseExitStatus(end))) = ExitError(1)
      BY <3>2 DEF Waited
    <3> QED BY <3>3 DEF WaitErrors, ExitError, Nil
  <2> QED
    BY <1>2, <2>1, CodesFit
       DEF MapWaitError, SignalError, Errors, ExitError, ExitCode, OsExit, Meaning,
           UnknownEnd
<1>3. ASSUME NEW code \in Codes, end = Exited(code)
      PROVE  /\ MapWaitError(e) \in Errors
             /\ \/ OsExit(ExitCode(MapWaitError(e))) = Meaning
                \/ MapWaitError(e) = OtherError /\ Meaning = 0
  <2>1. Meaning = code % 256
    BY <1>3 DEF Meaning, Exited
  <2>2. CASE code = 0
    <3>1. e \in {Nil, OtherError}
      BY <1>3, <2>2 DEF WaitErrors, ParseExitStatus, Report, Waited, Exited
    <3> QED
      BY <3>1, <2>1, <2>2, CodesFit
         DEF MapWaitError, SignalError, Nil, OtherError, Errors, ExitCode, OsExit
  <2>3. CASE code # 0
    <3>1. e = ExitError(code)
      BY <1>3, <2>3 DEF WaitErrors, ParseExitStatus, Report, Waited, Exited,
                        ExitError, Nil
    <3> QED
      BY <3>1, <2>1, CodesFit
         DEF MapWaitError, SignalError, ExitError, Errors, ExitCode, OsExit
  <2> QED BY <2>2, <2>3
<1> QED BY <1>1, <1>2, <1>3 DEF Ends

-----------------------------------------------------------------------------
\* The invariant holds in the initial states.
LEMMA InitInvariant == Init => IInv
<1> SUFFICES ASSUME Init PROVE IInv
  OBVIOUS
<1>1. TypeOK
  BY DEF Init, TypeOK, Ends, Errors, MainPhases, HandlerPhases, NoExit
<1>2. Phased /\ Measured /\ RemoteUsable /\ RawIsPending /\ ExitRestores
  BY DEF Init, Phased, Measured, RemoteUsable, RawIsPending, ExitRestores, NoExit
<1>3. TermWasAsked /\ Settling /\ ResultFaithful /\ ExitTruthful
  BY DEF Init, TermWasAsked, Settling, ResultFaithful, ExitTruthful, Past, NoExit
<1> QED BY <1>1, <1>2, <1>3 DEF IInv

-----------------------------------------------------------------------------
(* Steps.                                                                  *)

\* A result stays faithful while the session stays or ends without a report.
LEMMA FaithfulKept ==
    ASSUME Faithful, UNCHANGED <<end, err>>,
           sess' = sess \/ (sess = "open" /\ sess' \in {"lost", "closed"})
    PROVE  Faithful'
BY DEF Faithful, Meaning

\* The types.
LEMMA EnvironmentTypes ==
    ASSUME IInv, Environment
    PROVE  TypeOK'
<1> USE DEF IInv, TypeOK, Alive, Measured, MainPhases, HandlerPhases, NoExit,
          Killed, sessionVars, signalVars, mainVars, handlerVars, historyVars
<1>1. CASE Resize
  BY <1>1
     DEF Resize, Deliver
<1>2. CASE Term
  BY <1>2
     DEF Term, Deliver
<1>3. CASE CommandEnds
  BY <1>3
     DEF CommandEnds, Ends
<1>4. CASE ReportArrives \/ ConnLost
  BY <1>4
     DEF ReportArrives, ConnLost
<1> QED BY <1>1, <1>2, <1>3, <1>4 DEF Environment

\* Every step of main keeps the types.
LEMMA MainTypes ==
    ASSUME IInv, Main
    PROVE  TypeOK'
<1> USE DEF IInv, TypeOK, Alive, Measured, MainPhases, HandlerPhases, NoExit,
          Killed, Step
<1>1. CASE UsageExits \/ Configured \/ ConnectFails \/ Connected
  BY <1>1, CodesFit
     DEF UsageExits, Configured, ConnectFails, Connected
<1>2. CASE SetupFails \/ RequestExec
  BY <1>2
     DEF SetupFails, RequestExec, Errors
<1>3. CASE MakeRaw
  BY <1>3
     DEF MakeRaw
<1>4. CASE Notify
  BY <1>4
     DEF Notify
<1>5. CASE Measure
  BY <1>5
     DEF Measure
<1>6. CASE RequestPty
  BY <1>6, SizeClamped
     DEF RequestPty
<1>7. CASE Accepted
  BY <1>7
     DEF Accepted
<1>8. CASE RequestFails
  BY <1>8
     DEF RequestFails, Errors
<1>9. CASE WaitReturns
  <2>1. err' \in Errors
    <3>1. CASE sess = "reported"
      BY <1>9, <3>1, WaitFaithful DEF WaitReturns, Phased
    <3>2. CASE sess # "reported"
      BY <1>9, <3>2 DEF WaitReturns, WaitErrors, MapWaitError, Errors
    <3> QED BY <3>1, <3>2
  <2> QED BY <1>9, <2>1 DEF WaitReturns
<1>10. CASE StopSignals
  <2>1. notify' \in BOOLEAN
    BY <1>10 DEF StopSignals
  <2> QED BY <1>10, <2>1 DEF StopSignals
<1>11. CASE CloseDone
  BY <1>11 DEF CloseDone
<1>12. CASE MainRestores
  BY <1>12 DEF MainRestores
<1>13. CASE MainCloses
  BY <1>13 DEF MainCloses, CloseSession
<1>14. CASE MainExits
  <2>1. ExitCode(err) \in Nat
    BY CodesNatural DEF ExitCode, Errors, ExitError, Nil, OtherError
  <2>2. ExitCode(err) % 256 \in 0..255
    BY <2>1, EightBits
  <2>3. exit' \in 0..255
    BY <1>14, <2>2 DEF MainExits, OsExit
  <2> QED BY <1>14, <2>3 DEF MainExits
<1> QED BY <1>1, <1>2, <1>3, <1>4, <1>5, <1>6, <1>7, <1>8, <1>9, <1>10, <1>11, <1>12,
            <1>13, <1>14 DEF Main

\* Every step of the signal goroutine keeps the types.
LEMMA HandlerTypes ==
    ASSUME IInv, Handler
    PROVE  TypeOK'
<1> USE DEF IInv, TypeOK, Alive, Measured, MainPhases, HandlerPhases, NoExit,
          Killed, HandlerStep, mainVars
<1>1. CASE Receive \/ SeeDone \/ HandlerMeasures
  BY <1>1
     DEF Receive, SeeDone, HandlerMeasures
<1>2. CASE WindowChange
  BY <1>2, SizeClamped
     DEF WindowChange
<1>3. CASE HandlerRestores \/ HandlerCloses \/ HandlerExits
  BY <1>3
     DEF HandlerRestores, HandlerCloses, HandlerExits, CloseSession
<1> QED BY <1>1, <1>2, <1>3 DEF Handler

\* The phases and the mode of the terminal.
LEMMA EnvironmentPhases ==
    ASSUME IInv, Environment
    PROVE  Phased' /\ RawIsPending'
<1> USE DEF IInv, TypeOK, Alive, Phased, RawIsPending, Early, Unstarted,
          Notified, sessionVars, signalVars, mainVars, handlerVars,
          historyVars
<1>1. CASE Resize \/ Term
  BY <1>1
     DEF Resize, Term, Deliver
<1>2. CASE CommandEnds \/ ReportArrives \/ ConnLost
  BY <1>2
     DEF CommandEnds, ReportArrives, ConnLost
<1> QED BY <1>1, <1>2 DEF Environment

\* Every step of main keeps what the phases have done.
LEMMA MainPhased ==
    ASSUME IInv, Main
    PROVE  Phased' /\ RawIsPending'
<1> USE DEF IInv, TypeOK, Alive, Phased, RawIsPending, Early, Unstarted,
          Notified, Step
<1>1. CASE UsageExits \/ Configured \/ ConnectFails \/ Connected
  BY <1>1
     DEF UsageExits, Configured, ConnectFails, Connected
<1>2. CASE SetupFails
  BY <1>2
     DEF SetupFails
<1>3. CASE RequestExec
  BY <1>3
     DEF RequestExec
<1>4. CASE MakeRaw
  BY <1>4
     DEF MakeRaw
<1>5. CASE Notify
  <2>1. notify'
    BY <1>5, Zenon DEF Notify
  <2>2. Phased'
    BY <1>5, <2>1 DEF Notify
  <2>3. RawIsPending'
    BY <1>5 DEF Notify
  <2> QED BY <2>2, <2>3
<1>6. CASE Measure
  BY <1>6
     DEF Measure
<1>7. CASE RequestPty \/ Accepted
  BY <1>7
     DEF RequestPty, Accepted
<1>8. CASE RequestFails
  BY <1>8
     DEF RequestFails
<1>9. CASE WaitReturns
  BY <1>9
     DEF WaitReturns
<1>10. CASE StopSignals \/ CloseDone \/ MainRestores
  BY <1>10
     DEF StopSignals, CloseDone, MainRestores
<1>11. CASE MainCloses \/ MainExits
  BY <1>11
     DEF MainCloses, MainExits, CloseSession
<1> QED BY <1>1, <1>2, <1>3, <1>4, <1>5, <1>6, <1>7, <1>8, <1>9, <1>10, <1>11 DEF Main

\* So does every step of the signal goroutine.
LEMMA HandlerPhased ==
    ASSUME IInv, Handler
    PROVE  Phased' /\ RawIsPending'
<1> USE DEF IInv, TypeOK, Alive, Phased, RawIsPending, Early, Unstarted,
          Notified, HandlerStep, mainVars
<1>1. CASE Receive
  BY <1>1
     DEF Receive
<1>2. CASE SeeDone \/ HandlerMeasures
  BY <1>2
     DEF SeeDone, HandlerMeasures
<1>3. CASE WindowChange
  BY <1>3
     DEF WindowChange
<1>4. CASE HandlerRestores \/ HandlerCloses \/ HandlerExits
  BY <1>4
     DEF HandlerRestores, HandlerCloses, HandlerExits, CloseSession
<1> QED BY <1>1, <1>2, <1>3, <1>4 DEF Handler

\* The sizes that are sent, and the terminal that is left.
LEMMA EnvironmentSizes ==
    ASSUME IInv, Environment
    PROVE  Measured' /\ RemoteUsable' /\ ExitRestores'
<1> USE DEF IInv, Alive, Measured, RemoteUsable, ExitRestores, RawIsPending,
          Phased, Early, NoExit, Killed, sessionVars, signalVars, mainVars,
          handlerVars, historyVars
<1> /\ notify \in BOOLEAN /\ command \in BOOLEAN /\ window \in Sizes
    /\ tty \in {"cooked", "raw"}
  BY DEF TypeOK
<1>1. CASE Resize
  BY <1>1
     DEF Resize, Deliver
<1>2. CASE Term
  <2>1. exit' \notin 0..255
    BY <1>2 DEF Term
  <2> QED BY <1>2, <2>1 DEF Term, Deliver
<1>3. CASE CommandEnds \/ ReportArrives \/ ConnLost
  BY <1>3
     DEF CommandEnds, ReportArrives, ConnLost
<1> QED BY <1>1, <1>2, <1>3 DEF Environment

\* Every step of main sends usable sizes and exits with a restored terminal.
LEMMA MainSizes ==
    ASSUME IInv, Main
    PROVE  Measured' /\ RemoteUsable' /\ ExitRestores'
<1> USE DEF IInv, Alive, Measured, RemoteUsable, ExitRestores, RawIsPending,
          Phased, Early, NoExit, Killed, Step
<1> /\ notify \in BOOLEAN /\ command \in BOOLEAN /\ window \in Sizes
    /\ tty \in {"cooked", "raw"}
  BY DEF TypeOK
<1>1. CASE UsageExits \/ Configured \/ ConnectFails
            \/ Connected \/ SetupFails \/ RequestExec
  BY <1>1
     DEF UsageExits, Configured, ConnectFails, Connected, SetupFails,
         RequestExec
<1>2. CASE MakeRaw \/ Notify \/ Measure
  BY <1>2
     DEF MakeRaw, Notify, Measure
<1>3. CASE RequestPty
  BY <1>3, SizeClamped
     DEF RequestPty
<1>4. CASE Accepted \/ RequestFails \/ WaitReturns
  BY <1>4
     DEF Accepted, RequestFails, WaitReturns
<1>5. CASE StopSignals \/ CloseDone \/ MainRestores
  BY <1>5
     DEF StopSignals, CloseDone, MainRestores
<1>6. CASE MainCloses \/ MainExits
  BY <1>6
     DEF MainCloses, MainExits, CloseSession
<1> QED BY <1>1, <1>2, <1>3, <1>4, <1>5, <1>6 DEF Main

\* So does every step of the signal goroutine.
LEMMA HandlerSizes ==
    ASSUME IInv, Handler
    PROVE  Measured' /\ RemoteUsable' /\ ExitRestores'
<1> USE DEF IInv, Alive, Measured, RemoteUsable, ExitRestores, RawIsPending,
          Phased, Early, NoExit, Killed, HandlerStep, mainVars
<1> /\ notify \in BOOLEAN /\ command \in BOOLEAN /\ window \in Sizes
    /\ tty \in {"cooked", "raw"}
  BY DEF TypeOK
<1>1. CASE Receive \/ SeeDone
  BY <1>1
     DEF Receive, SeeDone
<1>2. CASE HandlerMeasures
  BY <1>2
     DEF HandlerMeasures
<1>3. CASE WindowChange
  BY <1>3, SizeClamped
     DEF WindowChange
<1>4. CASE HandlerRestores \/ HandlerCloses \/ HandlerExits
  BY <1>4
     DEF HandlerRestores, HandlerCloses, HandlerExits, CloseSession
<1> QED BY <1>1, <1>2, <1>3, <1>4 DEF Handler

\* The signals on their way.
LEMMA EnvironmentSettles ==
    ASSUME IInv, Environment
    PROVE  TermWasAsked' /\ Settling'
<1> USE DEF IInv, TypeOK, Alive, Phased, Measured, TermWasAsked, Settling,
          Early, Notified, sessionVars, signalVars, mainVars, handlerVars,
          historyVars
<1>1. CASE Resize \/ Term
  BY <1>1
     DEF Resize, Term, Deliver
<1>2. CASE CommandEnds \/ ReportArrives \/ ConnLost
  BY <1>2
     DEF CommandEnds, ReportArrives, ConnLost
<1> QED BY <1>1, <1>2 DEF Environment

\* Every step of main leaves an outdated size on its way.
LEMMA MainSettles ==
    ASSUME IInv, Main
    PROVE  TermWasAsked' /\ Settling'
<1> USE DEF IInv, TypeOK, Alive, Phased, Measured, TermWasAsked, Settling,
          Early, Notified, Step
<1>1. CASE UsageExits \/ Configured \/ ConnectFails
            \/ Connected \/ SetupFails \/ RequestExec
  BY <1>1
     DEF UsageExits, Configured, ConnectFails, Connected, SetupFails,
         RequestExec
<1>2. CASE MakeRaw \/ Notify \/ Measure
  BY <1>2
     DEF MakeRaw, Notify, Measure
<1>3. CASE RequestPty \/ Accepted \/ RequestFails \/ WaitReturns
  BY <1>3
     DEF RequestPty, Accepted, RequestFails, WaitReturns
<1>4. CASE StopSignals \/ CloseDone
            \/ MainRestores \/ MainCloses \/ MainExits
  BY <1>4
     DEF StopSignals, CloseDone, MainRestores, MainCloses, MainExits,
         CloseSession
<1> QED BY <1>1, <1>2, <1>3, <1>4 DEF Main

\* So does every step of the signal goroutine.
LEMMA HandlerSettles ==
    ASSUME IInv, Handler
    PROVE  TermWasAsked' /\ Settling'
<1> USE DEF IInv, TypeOK, Alive, Phased, Measured, TermWasAsked, Settling,
          Early, Notified, HandlerStep, mainVars
<1>1. CASE Receive \/ SeeDone \/ HandlerMeasures
  BY <1>1
     DEF Receive, SeeDone, HandlerMeasures
<1>2. CASE WindowChange
  BY <1>2
     DEF WindowChange
<1>3. CASE HandlerRestores \/ HandlerCloses \/ HandlerExits
  BY <1>3
     DEF HandlerRestores, HandlerCloses, HandlerExits, CloseSession
<1> QED BY <1>1, <1>2, <1>3 DEF Handler

\* The result of RunShell or RunCommand.
LEMMA EnvironmentResult ==
    ASSUME IInv, Environment
    PROVE  ResultFaithful'
<1> USE DEF IInv, TypeOK, Alive, Phased, ResultFaithful, Past, Early,
          Unstarted, sessionVars, signalVars, mainVars, handlerVars,
          historyVars
<1>1. CASE Resize \/ Term
  BY <1>1, FaithfulKept
     DEF Resize, Term
<1>2. CASE CommandEnds \/ ConnLost
  BY <1>2, FaithfulKept
     DEF CommandEnds, ConnLost
<1>3. CASE ReportArrives
  BY <1>3
     DEF ReportArrives, Faithful
<1> QED BY <1>1, <1>2, <1>3 DEF Environment

\* Every step of main keeps the meaning of its result.
LEMMA MainResult ==
    ASSUME IInv, Main
    PROVE  ResultFaithful'
<1> USE DEF IInv, TypeOK, Alive, Phased, ResultFaithful, Past, Early,
          Unstarted, Step
<1>1. CASE UsageExits \/ Configured
            \/ ConnectFails \/ Connected \/ RequestExec
  BY <1>1
     DEF UsageExits, Configured, ConnectFails, Connected, RequestExec
<1>2. CASE MakeRaw \/ Notify \/ Measure \/ RequestPty \/ Accepted
  BY <1>2
     DEF MakeRaw, Notify, Measure, RequestPty, Accepted
<1>3. CASE SetupFails
  BY <1>3
     DEF SetupFails, Faithful, OtherError
<1>4. CASE RequestFails
  BY <1>4
     DEF RequestFails, Faithful
<1>5. CASE StopSignals \/ CloseDone \/ MainRestores
  BY <1>5, FaithfulKept
     DEF StopSignals, CloseDone, MainRestores
<1>6. CASE MainCloses \/ MainExits
  BY <1>6, FaithfulKept
     DEF MainCloses, MainExits, CloseSession
<1>7. CASE WaitReturns
  <2>1. CASE sess = "reported"
    <3>1. PICK e \in WaitErrors : err' = MapWaitError(e)
      BY <1>7 DEF WaitReturns
    <3>2. \/ OsExit(ExitCode(err')) = Meaning
          \/ err' = OtherError /\ Meaning = 0
      BY <2>1, <3>1, WaitFaithful
    <3>3. UNCHANGED <<sess, end>>
      BY <1>7 DEF WaitReturns
    <3>4. Faithful'
      BY <2>1, <3>2, <3>3 DEF Faithful, Meaning, OsExit, ExitCode
    <3> QED BY <3>4
  <2>2. CASE sess # "reported"
    BY <1>7, <2>2 DEF WaitReturns, WaitErrors, MapWaitError, OtherError, SignalError,
                      Faithful
  <2> QED BY <2>1, <2>2
<1> QED BY <1>1, <1>2, <1>3, <1>4, <1>5, <1>6, <1>7 DEF Main

\* So does every step of the signal goroutine.
LEMMA HandlerResult ==
    ASSUME IInv, Handler
    PROVE  ResultFaithful'
<1> USE DEF IInv, TypeOK, Alive, Phased, ResultFaithful, Past, Early,
          Unstarted, HandlerStep, mainVars
<1>1. CASE Receive \/ SeeDone \/ HandlerMeasures \/ WindowChange
  BY <1>1, FaithfulKept
     DEF Receive, SeeDone, HandlerMeasures, WindowChange
<1>2. CASE HandlerRestores \/ HandlerCloses \/ HandlerExits
  BY <1>2, FaithfulKept
     DEF HandlerRestores, HandlerCloses, HandlerExits, CloseSession
<1> QED BY <1>1, <1>2 DEF Handler

\* The exit code.
LEMMA ExitStepTruthful ==
    ASSUME IInv, Next
    PROVE  ExitTruthful'
<1>1. CASE exit' \notin 0..255
  BY <1>1 DEF ExitTruthful
<1>2. CASE MainExits
  <2>1. /\ mpc = "exit" /\ exit' = OsExit(ExitCode(err))
        /\ UNCHANGED <<sess, end, asked, mpc>>
    BY <1>2 DEF MainExits, Step
  <2>2. Meaning' = Meaning
    BY <2>1 DEF Meaning
  <2>3. Faithful
    BY <2>1 DEF IInv, ResultFaithful, Past
  <2>4. OsExit(ExitCode(OtherError)) = 255
    BY CodesFit DEF OsExit, ExitCode, OtherError
  <2> QED BY <2>1, <2>2, <2>3, <2>4 DEF Faithful, ExitTruthful
<1>3. CASE UsageExits \/ ConnectFails \/ HandlerExits
  BY <1>3 DEF UsageExits, ConnectFails, HandlerExits, Step, HandlerStep, mainVars,
              IInv, TermWasAsked, Phased, ExitTruthful
<1>4. CASE Terminated
  BY <1>4 DEF Terminated, vars, sessionVars, mainVars, historyVars, IInv, ExitTruthful,
              Meaning
<1>5. CASE exit' = exit /\ Alive
  BY <1>1, <1>5 DEF Alive, NoExit
<1>6. CASE Term
  BY <1>1, <1>6 DEF Term, Alive, NoExit, Killed
<1> QED
  BY <1>2, <1>3, <1>4, <1>5, <1>6
     DEF Next, Environment, Main, Handler, Step, HandlerStep, Resize, CommandEnds,
         ReportArrives, ConnLost, Configured, Connected, SetupFails, RequestExec,
         MakeRaw, Notify, Measure, RequestPty, Accepted, RequestFails, WaitReturns,
         StopSignals, CloseDone, MainRestores, MainCloses, Receive, SeeDone,
         HandlerMeasures, WindowChange, HandlerRestores, HandlerCloses

\* Every step keeps the invariant.
LEMMA NextInvariant == IInv /\ [Next]_vars => IInv'
<1> SUFFICES ASSUME IInv, [Next]_vars PROVE IInv'
  OBVIOUS
<1>1. CASE UNCHANGED vars
  <2> USE <1>1 DEF vars, sessionVars, signalVars, mainVars, handlerVars, historyVars,
                   IInv
  <2>1. TypeOK' /\ Phased'
    BY DEF TypeOK, Phased
  <2>2. Measured' /\ RemoteUsable' /\ RawIsPending' /\ ExitRestores'
    BY DEF Measured, RemoteUsable, RawIsPending, ExitRestores
  <2>3. TermWasAsked' /\ Settling'
    BY DEF TermWasAsked, Settling
  <2>4. ResultFaithful' /\ ExitTruthful'
    BY DEF ResultFaithful, Faithful, ExitTruthful, Meaning
  <2> QED BY <2>1, <2>2, <2>3, <2>4
<1>2. CASE Environment
  BY <1>2, EnvironmentTypes, EnvironmentPhases, EnvironmentSizes, EnvironmentSettles,
     EnvironmentResult, ExitStepTruthful DEF IInv, Next
<1>3. CASE Main
  BY <1>3, MainTypes, MainPhased, MainSizes, MainSettles, MainResult,
     ExitStepTruthful DEF IInv, Next
<1>4. CASE Handler
  BY <1>4, HandlerTypes, HandlerPhased, HandlerSizes, HandlerSettles,
     HandlerResult, ExitStepTruthful DEF IInv, Next
<1> QED BY <1>1, <1>2, <1>3, <1>4 DEF Next, Terminated

\* The inductive invariant holds in every reachable state.
THEOREM Invariant == Spec => []IInv
BY InitInvariant, NextInvariant, PTL DEF Spec

-----------------------------------------------------------------------------
(* What follows from it.                                                   *)

\* The variables have their types.
THEOREM TypeCorrect == Spec => []TypeOK
<1>1. IInv => TypeOK
  BY DEF IInv
<1> QED BY <1>1, Invariant, PTL

\* Whichever goroutine ends the process leaves a restored terminal
\* (client.go:163, 186).
THEOREM TerminalRestored == Spec => []ExitRestores
<1>1. IInv => ExitRestores
  BY DEF IInv
<1> QED BY <1>1, Invariant, PTL

\* When nothing is under way the server has the size of the terminal, however
\* fast the resizes came, or else that of a pty-req which a resize has outdated
\* and no window-change has followed (client.go:165, 180-184).
THEOREM SizeArrives == Spec => []ResizesSettle
<1>1. IInv => ResizesSettle
  BY DEF IInv, Phased, Settling, ResizesSettle, Quiescent
<1> QED BY <1>1, Invariant, PTL

\* No program is given a terminal without rows or columns, whatever sizes the
\* user's terminal takes (session.go:51-68).
THEOREM RemoteAlwaysUsable == Spec => []RemoteUsable
<1>1. IInv => RemoteUsable
  BY DEF IInv
<1> QED BY <1>1, Invariant, PTL

\* The exit code means what became of the remote command, for every code it can
\* have, and success is never made up (client.go:104-127).
THEOREM ExitCodesTruthful == Spec => []ExitTruthful
<1>1. IInv => ExitTruthful
  BY DEF IInv
<1> QED BY <1>1, Invariant, PTL

-----------------------------------------------------------------------------
(* Both goroutines run forward.                                            *)

\* How many steps main may still take, deferred calls included; and how many
\* the signal goroutine, once it was told to end the process.
MainLeft ==
    LET left == [main |-> 15, connect |-> 14, start |-> 13, raw |-> 12,
                 notified |-> 11, sized |-> 10, pty |-> 9, shell |-> 8,
                 waiting |-> 7, stop |-> 6, closeDone |-> 5, restore |-> 4,
                 closeSess |-> 3, exit |-> 2]
    IN  IF Alive THEN left[mpc] ELSE 0

Ending == hpc \in {"restore", "close", "exit"}
EndingLeft ==
    LET left == [restore |-> 3, close |-> 2, exit |-> 1]
    IN  IF Alive THEN left[hpc] ELSE 0

\* Whatever fails on the way, every step of main is one towards the exit: no
\* call and no deferred call is made twice.  Neither does the signal goroutine
\* go back to resizes once it ends the process, and nothing that the other
\* goroutine, the kernel or the server does puts the end off
\* (client.go:135-230).
RunsForward ==
    [][/\ Main => MainLeft' < MainLeft
       /\ MainLeft' <= MainLeft
       /\ Ending => /\ Handler => EndingLeft' < EndingLeft
                    /\ EndingLeft' <= EndingLeft]_vars

\* A process that runs has steps left, and its rank is a natural number.
LEMMA LeftNatural ==
    ASSUME TypeOK
    PROVE  /\ MainLeft \in 0..15 /\ (Alive => MainLeft > 0)
           /\ Ending => EndingLeft \in 0..3 /\ (Alive => EndingLeft > 0)
BY DEF TypeOK, MainPhases, MainLeft, Ending, EndingLeft

\* Every step of main lowers its rank.
LEMMA MainRunsForward ==
    ASSUME TypeOK, Main
    PROVE  MainLeft' < MainLeft /\ hpc' \in {hpc, "idle"}
<1>1. CASE UsageExits \/ ConnectFails \/ MainExits
  <2>1. ASSUME MainExits PROVE exit' \in 0..255
    <3>1. ExitCode(err) \in Nat
      BY CodesNatural
         DEF TypeOK, Errors, ExitError, Nil, OtherError, ExitCode
    <3> QED BY <2>1, <3>1, EightBits DEF MainExits, OsExit
  <2>2. Alive /\ ~Alive' /\ hpc' = hpc
    BY <1>1, <2>1 DEF UsageExits, ConnectFails, MainExits, Step, Alive, NoExit
  <2> QED BY <2>2, LeftNatural DEF MainLeft
<1>2. CASE Configured \/ Connected \/ SetupFails \/ RequestExec \/ MakeRaw
  BY <1>2 DEF Configured, Connected, SetupFails, RequestExec, MakeRaw, Step,
              Alive, MainLeft
<1>3. CASE Notify \/ Measure \/ RequestPty \/ Accepted \/ RequestFails
  BY <1>3 DEF Notify, Measure, RequestPty, Accepted, RequestFails, Step, Alive,
              MainLeft
<1>4. CASE WaitReturns \/ StopSignals \/ CloseDone \/ MainRestores \/ MainCloses
  BY <1>4 DEF WaitReturns, StopSignals, CloseDone, MainRestores, MainCloses,
              Step, Alive, MainLeft
<1> QED BY <1>1, <1>2, <1>3, <1>4 DEF Main

\* Every step of a signal goroutine on its way out lowers its rank.
LEMMA HandlerRunsForward ==
    ASSUME TypeOK, Handler
    PROVE  /\ mpc' = mpc
           /\ Ending => EndingLeft' < EndingLeft
<1> USE DEF HandlerStep, mainVars
<1>1. CASE Receive \/ SeeDone \/ HandlerMeasures \/ WindowChange
  BY <1>1 DEF Receive, SeeDone, HandlerMeasures, WindowChange, Ending
<1>2. CASE HandlerRestores \/ HandlerCloses
  BY <1>2 DEF HandlerRestores, HandlerCloses, EndingLeft, Alive
<1>3. CASE HandlerExits
  <2>1. Alive /\ ~Alive'
    BY <1>3 DEF HandlerExits, Alive, NoExit
  <2> QED BY <1>3, <2>1, LeftNatural DEF HandlerExits, EndingLeft
<1> QED BY <1>1, <1>2, <1>3 DEF Handler

\* A process that is gone does not come back.
LEMMA ExitIsFinal ==
    ASSUME [Next]_vars
    PROVE  Alive' => Alive
<1>1. CASE UNCHANGED exit
  BY <1>1 DEF Alive
<1> QED
  BY <1>1 DEF Next, Environment, Main, Handler, Terminated, vars, Resize, Term,
     CommandEnds, ReportArrives, ConnLost, UsageExits, Configured, ConnectFails,
     Connected, SetupFails, RequestExec, MakeRaw, Notify, Measure, RequestPty,
     Accepted, RequestFails, WaitReturns, StopSignals, CloseDone, MainRestores,
     MainCloses, MainExits, Step, Receive, SeeDone, HandlerMeasures,
     WindowChange, HandlerRestores, HandlerCloses, HandlerExits, HandlerStep

\* The rest of the world moves neither.
LEMMA EnvironmentMovesNeither ==
    ASSUME Environment \/ Terminated \/ UNCHANGED vars
    PROVE  mpc' = mpc /\ hpc' = hpc
BY DEF Environment, Terminated, vars, Resize, Term, CommandEnds, ReportArrives,
       ConnLost, mainVars, handlerVars

\* Neither goroutine repeats a call on the way to the exit (client.go:135-230).
THEOREM GoroutinesRunForward == Spec => RunsForward
<1>1. ASSUME IInv, IInv', [Next]_vars
      PROVE  /\ Main => MainLeft' < MainLeft
             /\ MainLeft' <= MainLeft
             /\ Ending => /\ Handler => EndingLeft' < EndingLeft
                          /\ EndingLeft' <= EndingLeft
  <2>1. TypeOK /\ TypeOK' /\ (Alive' => Alive)
    BY <1>1, ExitIsFinal DEF IInv
  <2>2. MainLeft \in 0..15 /\ MainLeft' \in 0..15
    <3>1. MainLeft' \in 0..15
      BY <2>1 DEF TypeOK, MainPhases, MainLeft
    <3> QED BY <2>1, <3>1, LeftNatural
  <2>3. ASSUME Ending PROVE EndingLeft \in 0..3
    BY <2>1, <2>3, LeftNatural
  <2>4. CASE Main
    <3>1. MainLeft' < MainLeft /\ hpc' \in {hpc, "idle"}
      BY <2>1, <2>4, MainRunsForward
    <3>2. ASSUME Ending PROVE hpc' = hpc
      BY <1>1, <2>4, <3>2 DEF Main, IInv, Phased, Early, Ending, UsageExits,
         Configured, ConnectFails, Connected, SetupFails, RequestExec, MakeRaw,
         Notify, Measure, RequestPty, Accepted, RequestFails, WaitReturns,
         StopSignals, CloseDone, MainRestores, MainCloses, MainExits, Step
    <3>3. ASSUME Ending PROVE EndingLeft' <= EndingLeft
      BY <2>1, <2>3, <3>2, <3>3 DEF EndingLeft
    <3>4. ASSUME Ending, Handler PROVE EndingLeft' < EndingLeft
      BY <2>1, <3>4, HandlerRunsForward
    <3> QED BY <2>2, <3>1, <3>3, <3>4
  <2>5. CASE Handler
    <3>1. mpc' = mpc /\ (Ending => EndingLeft' < EndingLeft)
      BY <2>1, <2>5, HandlerRunsForward
    <3>2. MainLeft' <= MainLeft
      BY <2>1, <2>2, <3>1 DEF MainLeft
    <3>3. ASSUME Main PROVE MainLeft' < MainLeft
      BY <2>1, <3>3, MainRunsForward
    <3>4. ASSUME Ending PROVE EndingLeft' <= EndingLeft
      <4>1. hpc' \in {"close", "exit"}
        BY <2>5, <3>4 DEF Handler, Ending, Receive, SeeDone, HandlerMeasures,
           WindowChange, HandlerRestores, HandlerCloses, HandlerExits,
           HandlerStep
      <4>2. EndingLeft' \in 0..3
        BY <4>1 DEF EndingLeft
      <4> QED BY <2>3, <3>1, <3>4, <4>2
    <3> QED BY <3>1, <3>2, <3>3, <3>4
  <2>6. CASE Environment \/ Terminated \/ UNCHANGED vars
    <3>1. mpc' = mpc /\ hpc' = hpc
      BY <2>6, EnvironmentMovesNeither
    <3>2. MainLeft' <= MainLeft
      BY <2>1, <2>2, <3>1 DEF MainLeft
    <3>3. ASSUME Ending PROVE EndingLeft' <= EndingLeft
      BY <2>1, <2>3, <3>1, <3>3 DEF EndingLeft
    <3>4. ASSUME Main PROVE MainLeft' < MainLeft
      BY <2>1, <3>4, MainRunsForward
    <3>5. ASSUME Ending, Handler PROVE EndingLeft' < EndingLeft
      BY <2>1, <3>5, HandlerRunsForward
    <3> QED BY <3>2, <3>3, <3>4, <3>5
  <2> QED BY <1>1, <2>4, <2>5, <2>6 DEF Next
<1>2. IInv /\ IInv' /\ [Next]_vars =>
        [/\ Main => MainLeft' < MainLeft
         /\ MainLeft' <= MainLeft
         /\ Ending => /\ Handler => EndingLeft' < EndingLeft
                      /\ EndingLeft' <= EndingLeft]_vars
  BY <1>1
<1> QED BY <1>2, Invariant, PTL DEF Spec, RunsForward
=============================================================================
