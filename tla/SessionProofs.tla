--------------------------- MODULE SessionProofs ---------------------------
(***************************************************************************)
(* Theorems about Session for any number of sessions and any limit: the    *)
(* inductive invariant, type correctness, the accounting of the children's *)
(* slots, the cap on processes, what is left of a session that is over,    *)
(* when the exit status is sent, and that childrenSem implements           *)
(* Semaphore.                                                              *)
(***************************************************************************)
EXTENDS Session, TLAPS, FiniteSetTheorems

Bit(b) == IF b THEN 1 ELSE 0

\* Session s holds a slot of childrenSem.
Holds(s) == hpc[s] = "starting" \/ rpc[s] \in ReapPhases

\* How far handler, child and reaper of a session may be apart.
Control(s) ==
    /\ chan[s] = "none" => hpc[s] = "none"
    /\ hpc[s] = "none" => rpc[s] = "none"
    /\ hpc[s] = "starting" => rpc[s] = "none"
    /\ hpc[s] \in {"killed", "done"} => child[s] # "running"
    /\ hpc[s] = "done" => ~fdOpen[s]
    /\ rpc[s] = "none" =>
         /\ child[s] = "none" /\ mode[s] = "none" /\ copier[s] = "none"
         /\ ~fdOpen[s] /\ ~reported[s]
    /\ rpc[s] = "wait" => child[s] \in {"running", "exited"}
    /\ rpc[s] \notin {"none", "wait"} => child[s] = "reaped"
    /\ rpc[s] # "none" => copier[s] # "none"
    /\ rpc[s] \in {"report", "closeChan", "release", "done"} =>
         copier[s] = "done" /\ ~fdOpen[s]
    /\ rpc[s] = "drain" => ~fdOpen[s]
    /\ mode[s] = "pty" /\ fdOpen[s] => ptySize[s] = size[s]

\* Where the output of a session is.
Output(s) ==
    /\ made[s] = sent[s] + buffered[s]
    /\ copier[s] = "done" /\ mode[s] = "pipe" /\ chan[s] = "open" =>
         buffered[s] = 0
    /\ reported[s] =>
         /\ rpc[s] \in {"closeChan", "release", "done"}
         /\ mode[s] = "pipe" => buffered[s] = 0

\* None of the properties is inductive by itself: that a slot is released
\* once needs to know that only one of the two goroutines can hold it, and
\* what a finished session leaves behind depends on how far both have come.
IInv ==
    /\ TypeOK
    /\ SlotAccounting
    /\ \A s \in Sessions : Control(s) /\ Output(s)

-----------------------------------------------------------------------------
(* Type correctness.                                                       *)

\* The types apart from the counters: strings and Booleans.
Shape ==
    /\ chan \in [Sessions -> {"none", "open", "closing", "gone"}]
    /\ reqs \in [Sessions -> Seq(Requests)]
    /\ eof \in [Sessions -> BOOLEAN]
    /\ hpc \in [Sessions -> {"none", "loop", "starting", "killed", "done"}]
    /\ havePTY \in [Sessions -> BOOLEAN]
    /\ size \in [Sessions -> Sizes]
    /\ mode \in [Sessions -> {"none", "pty", "pipe"}]
    /\ fdOpen \in [Sessions -> BOOLEAN]
    /\ ptySize \in [Sessions -> Sizes]
    /\ child \in [Sessions -> {"none", "running", "exited", "reaped"}]
    /\ descendant \in [Sessions -> BOOLEAN]
    /\ rpc \in [Sessions -> ReapPhases \cup {"none", "done"}]
    /\ copier \in [Sessions -> {"none", "copying", "done"}]
    /\ stdinCopier \in [Sessions -> {"none", "copying", "done"}]
    /\ reported \in [Sessions -> BOOLEAN]

Counters ==
    /\ made \in [Sessions -> Nat]
    /\ buffered \in [Sessions -> Nat]
    /\ sent \in [Sessions -> Nat]
    /\ childrenSem \in 0..MaxChildren

\* The types fall into two parts that the provers take one by one.
LEMMA TypeParts == TypeOK <=> Shape /\ Counters
  BY DEF TypeOK, Shape, Counters

\* Every step of a session keeps the types of strings and Booleans.
LEMMA ShapeStep ==
    ASSUME Shape, NEW s \in Sessions, SessionStep(s)
    PROVE  Shape'
  <1> USE DEF Shape, clientVars, handlerVars, ttyVars, childVars, outputVars,
          reapVars
  <1>1. CASE Open(s)
    BY <1>1 DEF Open
  <1>2. CASE Send(s)
    BY <1>2 DEF Send
  <1>3. CASE SendEOF(s)
    BY <1>3 DEF SendEOF
  <1>4. CASE Lose(s)
    BY <1>4 DEF Lose
  <1>5. CASE TakeSize(s)
    <2>1. /\ reqs[s] \in Seq(Requests) /\ reqs[s] # <<>>
          /\ reqs' = [reqs EXCEPT ![s] = Tail(reqs[s])]
          /\ Head(reqs[s]).kind \in {"pty-req", "window-change"}
      BY <1>5 DEF TakeSize, Take
    <2>2. Head(reqs[s]) \in Requests /\ Tail(reqs[s]) \in Seq(Requests)
      BY <2>1
    <2>3. Head(reqs[s]) \in SizeRequests
      BY <2>1, <2>2 DEF Requests
    <2>4. Head(reqs[s]).size \in Sizes
      BY <2>3 DEF SizeRequests
    <2> QED
      BY <1>5, <2>1, <2>2, <2>4 DEF TakeSize
  <1>6. CASE Refuse(s)
    <2>1. /\ reqs[s] \in Seq(Requests) /\ reqs[s] # <<>>
          /\ reqs' = [reqs EXCEPT ![s] = Tail(reqs[s])]
      BY <1>6 DEF Refuse, Take
    <2>2. Tail(reqs[s]) \in Seq(Requests)
      BY <2>1
    <2> QED
      BY <1>6, <2>1, <2>2 DEF Refuse
  <1>7. CASE TakeStart(s)
    <2>1. /\ reqs[s] \in Seq(Requests) /\ reqs[s] # <<>>
          /\ reqs' = [reqs EXCEPT ![s] = Tail(reqs[s])]
      BY <1>7 DEF TakeStart, Take
    <2>2. Tail(reqs[s]) \in Seq(Requests)
      BY <2>1
    <2> QED
      BY <1>7, <2>1, <2>2 DEF TakeStart
  <1>8. CASE StartFails(s)
    BY <1>8 DEF StartFails
  <1>9. CASE StartProcess(s)
    BY <1>9 DEF StartProcess, ReapPhases
  <1>10. CASE Kill(s)
    BY <1>10 DEF Kill
  <1>11. CASE CloseInput(s)
    BY <1>11 DEF CloseInput
  <1>12. CASE Write(s)
    BY <1>12 DEF Write
  <1>13. CASE Fork(s)
    BY <1>13 DEF Fork
  <1>14. CASE DescendantExits(s)
    BY <1>14 DEF DescendantExits
  <1>15. CASE ChildExits(s)
    BY <1>15 DEF ChildExits
  <1>16. CASE CopyOut(s)
    BY <1>16 DEF CopyOut
  <1>17. CASE CopyOutEnds(s)
    BY <1>17 DEF CopyOutEnds
  <1>18. CASE CopyInEnds(s)
    BY <1>18 DEF CopyInEnds
  <1>19. CASE WaitChild(s)
    BY <1>19 DEF WaitChild, ReapStep, ReapPhases
  <1>20. CASE WaitCopy(s)
    BY <1>20 DEF WaitCopy, ReapStep, ReapPhases
  <1>21. CASE ReapClose(s)
    BY <1>21 DEF ReapClose, ReapStep, ReapPhases
  <1>22. CASE Report(s)
    BY <1>22 DEF Report, ReapStep, ReapPhases
  <1>23. CASE CloseChannel(s)
    BY <1>23 DEF CloseChannel, ReapStep, ReapPhases
  <1>24. CASE Release(s)
    BY <1>24 DEF Release, ReapStep, ReapPhases
  <1>25. CASE InputFails(s)
    BY <1>25 DEF InputFails
  <1> QED
    BY <1>1, <1>2, <1>3, <1>4, <1>5, <1>6, <1>7, <1>8, <1>9, <1>10, <1>11,
       <1>12, <1>13, <1>14, <1>15, <1>16, <1>17, <1>18, <1>19, <1>20, <1>21,
       <1>22, <1>23, <1>24, <1>25
       DEF SessionStep, ServerStep, ClientStep, HandlerStep, ChildStep, ReaperStep

\* Every step of a session keeps the types of its counters.
LEMMA CountersStep ==
    ASSUME Counters, NEW s \in Sessions, SessionStep(s)
    PROVE  Counters'
  <1> USE MaxChildrenPositive
      DEF Counters, clientVars, handlerVars, ttyVars, childVars, outputVars,
          reapVars
  <1>1. CASE Open(s)
    BY <1>1 DEF Open
  <1>2. CASE Send(s)
    BY <1>2 DEF Send
  <1>3. CASE SendEOF(s)
    BY <1>3 DEF SendEOF
  <1>4. CASE Lose(s)
    BY <1>4 DEF Lose
  <1>5. CASE TakeSize(s)
    BY <1>5 DEF TakeSize, Take
  <1>6. CASE Refuse(s)
    BY <1>6 DEF Refuse, Take
  <1>7. CASE TakeStart(s)
    BY <1>7 DEF TakeStart, Take
  <1>8. CASE StartFails(s)
    BY <1>8 DEF StartFails
  <1>9. CASE StartProcess(s)
    BY <1>9 DEF StartProcess
  <1>10. CASE Kill(s)
    BY <1>10 DEF Kill
  <1>11. CASE CloseInput(s)
    BY <1>11 DEF CloseInput
  <1>12. CASE Write(s)
    BY <1>12 DEF Write
  <1>13. CASE Fork(s)
    BY <1>13 DEF Fork
  <1>14. CASE DescendantExits(s)
    BY <1>14 DEF DescendantExits
  <1>15. CASE ChildExits(s)
    BY <1>15 DEF ChildExits
  <1>16. CASE CopyOut(s)
    BY <1>16 DEF CopyOut
  <1>17. CASE CopyOutEnds(s)
    BY <1>17 DEF CopyOutEnds
  <1>18. CASE CopyInEnds(s)
    BY <1>18 DEF CopyInEnds
  <1>19. CASE WaitChild(s)
    BY <1>19 DEF WaitChild, ReapStep
  <1>20. CASE WaitCopy(s)
    BY <1>20 DEF WaitCopy, ReapStep
  <1>21. CASE ReapClose(s)
    BY <1>21 DEF ReapClose, ReapStep
  <1>22. CASE Report(s)
    BY <1>22 DEF Report, ReapStep
  <1>23. CASE CloseChannel(s)
    BY <1>23 DEF CloseChannel, ReapStep
  <1>24. CASE Release(s)
    BY <1>24 DEF Release, ReapStep
  <1>25. CASE InputFails(s)
    BY <1>25 DEF InputFails
  <1> QED
    BY <1>1, <1>2, <1>3, <1>4, <1>5, <1>6, <1>7, <1>8, <1>9, <1>10, <1>11,
       <1>12, <1>13, <1>14, <1>15, <1>16, <1>17, <1>18, <1>19, <1>20, <1>21,
       <1>22, <1>23, <1>24, <1>25
       DEF SessionStep, ServerStep, ClientStep, HandlerStep, ChildStep, ReaperStep
-----------------------------------------------------------------------------
(* What a step of one session does to it and to the others.                *)

\* A step of session s leaves the other sessions alone.
LEMMA Frame ==
    ASSUME Shape, Counters, NEW s \in Sessions, SessionStep(s),
           NEW x \in Sessions, x # s
    PROVE  /\ chan'[x] = chan[x] /\ hpc'[x] = hpc[x] /\ rpc'[x] = rpc[x]
           /\ size'[x] = size[x] /\ ptySize'[x] = ptySize[x]
           /\ mode'[x] = mode[x] /\ fdOpen'[x] = fdOpen[x]
           /\ child'[x] = child[x] /\ copier'[x] = copier[x]
           /\ made'[x] = made[x] /\ buffered'[x] = buffered[x]
           /\ sent'[x] = sent[x] /\ reported'[x] = reported[x]
  <1> USE DEF Shape, Counters, clientVars, handlerVars, ttyVars, childVars,
          outputVars, reapVars
  <1>1. CASE Open(s)
    BY <1>1 DEF Open
  <1>2. CASE Send(s)
    BY <1>2 DEF Send
  <1>3. CASE SendEOF(s)
    BY <1>3 DEF SendEOF
  <1>4. CASE Lose(s)
    BY <1>4 DEF Lose
  <1>5. CASE TakeSize(s)
    BY <1>5 DEF TakeSize, Take
  <1>6. CASE Refuse(s)
    BY <1>6 DEF Refuse, Take
  <1>7. CASE TakeStart(s)
    BY <1>7 DEF TakeStart, Take
  <1>8. CASE StartFails(s)
    BY <1>8 DEF StartFails
  <1>9. CASE StartProcess(s)
    BY <1>9 DEF StartProcess
  <1>10. CASE Kill(s)
    BY <1>10 DEF Kill
  <1>11. CASE CloseInput(s)
    BY <1>11 DEF CloseInput
  <1>12. CASE Write(s)
    BY <1>12 DEF Write
  <1>13. CASE Fork(s)
    BY <1>13 DEF Fork
  <1>14. CASE DescendantExits(s)
    BY <1>14 DEF DescendantExits
  <1>15. CASE ChildExits(s)
    BY <1>15 DEF ChildExits
  <1>16. CASE CopyOut(s)
    BY <1>16 DEF CopyOut
  <1>17. CASE CopyOutEnds(s)
    BY <1>17 DEF CopyOutEnds
  <1>18. CASE CopyInEnds(s)
    BY <1>18 DEF CopyInEnds
  <1>19. CASE WaitChild(s)
    BY <1>19 DEF WaitChild, ReapStep
  <1>20. CASE WaitCopy(s)
    BY <1>20 DEF WaitCopy, ReapStep
  <1>21. CASE ReapClose(s)
    BY <1>21 DEF ReapClose, ReapStep
  <1>22. CASE Report(s)
    BY <1>22 DEF Report, ReapStep
  <1>23. CASE CloseChannel(s)
    BY <1>23 DEF CloseChannel, ReapStep
  <1>24. CASE Release(s)
    BY <1>24 DEF Release, ReapStep
  <1>25. CASE InputFails(s)
    BY <1>25 DEF InputFails
  <1> QED
    BY <1>1, <1>2, <1>3, <1>4, <1>5, <1>6, <1>7, <1>8, <1>9, <1>10,
       <1>11, <1>12, <1>13, <1>14, <1>15, <1>16, <1>17, <1>18, <1>19,
       <1>20, <1>21, <1>22, <1>23, <1>24, <1>25
       DEF SessionStep, ServerStep, ClientStep, HandlerStep, ChildStep, ReaperStep

\* Every step of a session keeps its handler, child and reaper together.
LEMMA ControlStep ==
    ASSUME Shape, NEW s \in Sessions, SessionStep(s), Control(s)
    PROVE  Control(s)'
  <1> USE DEF Shape, Control, ReapPhases, clientVars, handlerVars, ttyVars,
          childVars, outputVars, reapVars
  <1>1. CASE Open(s)
    BY <1>1 DEF Open
  <1>2. CASE Send(s)
    BY <1>2 DEF Send
  <1>3. CASE SendEOF(s)
    BY <1>3 DEF SendEOF
  <1>4. CASE Lose(s)
    BY <1>4 DEF Lose
  <1>5. CASE TakeSize(s)
    BY <1>5 DEF TakeSize, Take
  <1>6. CASE Refuse(s)
    BY <1>6 DEF Refuse, Take
  <1>7. CASE TakeStart(s)
    BY <1>7 DEF TakeStart, Take, Started
  <1>8. CASE StartFails(s)
    BY <1>8 DEF StartFails
  <1>9. CASE StartProcess(s)
    BY <1>9 DEF StartProcess
  <1>10. CASE Kill(s)
    BY <1>10 DEF Kill
  <1>11. CASE CloseInput(s)
    BY <1>11 DEF CloseInput
  <1>12. CASE Write(s)
    BY <1>12 DEF Write
  <1>13. CASE Fork(s)
    BY <1>13 DEF Fork
  <1>14. CASE DescendantExits(s)
    BY <1>14 DEF DescendantExits
  <1>15. CASE ChildExits(s)
    BY <1>15 DEF ChildExits
  <1>16. CASE CopyOut(s)
    BY <1>16 DEF CopyOut
  <1>17. CASE CopyOutEnds(s)
    BY <1>17 DEF CopyOutEnds
  <1>18. CASE CopyInEnds(s)
    BY <1>18 DEF CopyInEnds
  <1>19. CASE WaitChild(s)
    BY <1>19 DEF WaitChild, ReapStep
  <1>20. CASE WaitCopy(s)
    BY <1>20 DEF WaitCopy, ReapStep
  <1>21. CASE ReapClose(s)
    BY <1>21 DEF ReapClose, ReapStep
  <1>22. CASE Report(s)
    BY <1>22 DEF Report, ReapStep
  <1>23. CASE CloseChannel(s)
    BY <1>23 DEF CloseChannel, ReapStep
  <1>24. CASE Release(s)
    BY <1>24 DEF Release, ReapStep
  <1>25. CASE InputFails(s)
    BY <1>25 DEF InputFails
  <1> QED
    BY <1>1, <1>2, <1>3, <1>4, <1>5, <1>6, <1>7, <1>8, <1>9, <1>10,
       <1>11, <1>12, <1>13, <1>14, <1>15, <1>16, <1>17, <1>18, <1>19,
       <1>20, <1>21, <1>22, <1>23, <1>24, <1>25
       DEF SessionStep, ServerStep, ClientStep, HandlerStep, ChildStep, ReaperStep

\* A chunk of output is in one place, and none is left behind.
LEMMA OutputStep ==
    ASSUME Shape, Counters, NEW s \in Sessions, SessionStep(s),
           Control(s), Output(s)
    PROVE  Output(s)'
  <1> USE DEF Shape, Counters, Control, Output, ReapPhases, clientVars,
          handlerVars, ttyVars, childVars, outputVars, reapVars
  <1>1. CASE Open(s)
    BY <1>1 DEF Open
  <1>2. CASE Send(s)
    BY <1>2 DEF Send
  <1>3. CASE SendEOF(s)
    BY <1>3 DEF SendEOF
  <1>4. CASE Lose(s)
    BY <1>4 DEF Lose
  <1>5. CASE TakeSize(s)
    BY <1>5 DEF TakeSize, Take
  <1>6. CASE Refuse(s)
    BY <1>6 DEF Refuse, Take
  <1>7. CASE TakeStart(s)
    BY <1>7 DEF TakeStart, Take
  <1>8. CASE StartFails(s)
    BY <1>8 DEF StartFails
  <1>9. CASE StartProcess(s)
    BY <1>9 DEF StartProcess
  <1>10. CASE Kill(s)
    BY <1>10 DEF Kill
  <1>11. CASE CloseInput(s)
    BY <1>11 DEF CloseInput
  <1>12. CASE Write(s)
    BY <1>12 DEF Write
  <1>13. CASE Fork(s)
    BY <1>13 DEF Fork
  <1>14. CASE DescendantExits(s)
    BY <1>14 DEF DescendantExits
  <1>15. CASE ChildExits(s)
    BY <1>15 DEF ChildExits
  <1>16. CASE CopyOut(s)
    BY <1>16 DEF CopyOut
  <1>17. CASE CopyOutEnds(s)
    BY <1>17 DEF CopyOutEnds
  <1>18. CASE CopyInEnds(s)
    BY <1>18 DEF CopyInEnds
  <1>19. CASE WaitChild(s)
    BY <1>19 DEF WaitChild, ReapStep
  <1>20. CASE WaitCopy(s)
    BY <1>20 DEF WaitCopy, ReapStep
  <1>21. CASE ReapClose(s)
    BY <1>21 DEF ReapClose, ReapStep
  <1>22. CASE Report(s)
    BY <1>22 DEF Report, ReapStep
  <1>23. CASE CloseChannel(s)
    BY <1>23 DEF CloseChannel, ReapStep
  <1>24. CASE Release(s)
    BY <1>24 DEF Release, ReapStep
  <1>25. CASE InputFails(s)
    BY <1>25 DEF InputFails
  <1> QED
    BY <1>1, <1>2, <1>3, <1>4, <1>5, <1>6, <1>7, <1>8, <1>9, <1>10,
       <1>11, <1>12, <1>13, <1>14, <1>15, <1>16, <1>17, <1>18, <1>19,
       <1>20, <1>21, <1>22, <1>23, <1>24, <1>25
       DEF SessionStep, ServerStep, ClientStep, HandlerStep, ChildStep, ReaperStep
-----------------------------------------------------------------------------
(* The slots of childrenSem.                                               *)

Keeps(s) == (Holds(s)' <=> Holds(s)) /\ childrenSem' = childrenSem
Takes(s) == ~Holds(s) /\ Holds(s)' /\ childrenSem' = childrenSem + 1
GivesBack(s) == Holds(s) /\ ~Holds(s)' /\ childrenSem' = childrenSem - 1

\* The counter follows what a session does: the case split on its steps that
\* the accounting and the refinement share.
LEMMA HoldsStep ==
    ASSUME Shape, NEW s \in Sessions, SessionStep(s), Control(s)
    PROVE  Keeps(s) \/ Takes(s) \/ GivesBack(s)
  <1> USE DEF Shape, Control, Keeps, Takes, GivesBack, Holds, ReapPhases,
          clientVars, handlerVars, ttyVars, childVars, outputVars, reapVars
  <1>1. CASE Open(s)
    BY <1>1 DEF Open
  <1>2. CASE Send(s)
    BY <1>2 DEF Send
  <1>3. CASE SendEOF(s)
    BY <1>3 DEF SendEOF
  <1>4. CASE Lose(s)
    BY <1>4 DEF Lose
  <1>5. CASE TakeSize(s)
    BY <1>5 DEF TakeSize, Take
  <1>6. CASE Refuse(s)
    BY <1>6 DEF Refuse, Take
  <1>7. CASE TakeStart(s)
    BY <1>7 DEF TakeStart, Take, Started
  <1>8. CASE StartFails(s)
    BY <1>8 DEF StartFails
  <1>9. CASE StartProcess(s)
    BY <1>9 DEF StartProcess
  <1>10. CASE Kill(s)
    BY <1>10 DEF Kill
  <1>11. CASE CloseInput(s)
    BY <1>11 DEF CloseInput
  <1>12. CASE Write(s)
    BY <1>12 DEF Write
  <1>13. CASE Fork(s)
    BY <1>13 DEF Fork
  <1>14. CASE DescendantExits(s)
    BY <1>14 DEF DescendantExits
  <1>15. CASE ChildExits(s)
    BY <1>15 DEF ChildExits
  <1>16. CASE CopyOut(s)
    BY <1>16 DEF CopyOut
  <1>17. CASE CopyOutEnds(s)
    BY <1>17 DEF CopyOutEnds
  <1>18. CASE CopyInEnds(s)
    BY <1>18 DEF CopyInEnds
  <1>19. CASE WaitChild(s)
    BY <1>19 DEF WaitChild, ReapStep
  <1>20. CASE WaitCopy(s)
    BY <1>20 DEF WaitCopy, ReapStep
  <1>21. CASE ReapClose(s)
    BY <1>21 DEF ReapClose, ReapStep
  <1>22. CASE Report(s)
    BY <1>22 DEF Report, ReapStep
  <1>23. CASE CloseChannel(s)
    BY <1>23 DEF CloseChannel, ReapStep
  <1>24. CASE Release(s)
    BY <1>24 DEF Release, ReapStep
  <1>25. CASE InputFails(s)
    BY <1>25 DEF InputFails
  <1> QED
    BY <1>1, <1>2, <1>3, <1>4, <1>5, <1>6, <1>7, <1>8, <1>9, <1>10,
       <1>11, <1>12, <1>13, <1>14, <1>15, <1>16, <1>17, <1>18, <1>19,
       <1>20, <1>21, <1>22, <1>23, <1>24, <1>25
       DEF SessionStep, ServerStep, ClientStep, HandlerStep, ChildStep, ReaperStep

\* The same, for the set of holders.
LEMMA HoldersStep ==
    ASSUME Shape, Counters, NEW s \in Sessions, SessionStep(s), Control(s)
    PROVE  \/ /\ SlotHolders' = SlotHolders
              /\ childrenSem' = childrenSem
           \/ /\ s \notin SlotHolders
              /\ SlotHolders' = SlotHolders \cup {s}
              /\ childrenSem' = childrenSem + 1
           \/ /\ s \in SlotHolders
              /\ SlotHolders' = SlotHolders \ {s}
              /\ childrenSem' = childrenSem - 1
  <1>1. \A x \in Sessions : x # s => (Holds(x)' <=> Holds(x))
    <2>1. \A x \in Sessions : x # s => hpc'[x] = hpc[x] /\ rpc'[x] = rpc[x]
      BY Frame
    <2> QED
      BY <2>1 DEF Holds
  <1>2. /\ SlotHolders = {x \in Sessions : Holds(x)}
        /\ SlotHolders' = {x \in Sessions : Holds(x)'}
    BY DEF SlotHolders, Holds
  <1>3. CASE Keeps(s)
    BY <1>1, <1>2, <1>3 DEF Keeps
  <1>4. CASE Takes(s)
    BY <1>1, <1>2, <1>4 DEF Takes
  <1>5. CASE GivesBack(s)
    BY <1>1, <1>2, <1>5 DEF GivesBack
  <1> QED
    BY <1>3, <1>4, <1>5, HoldsStep

\* The sessions that hold a slot are finitely many.
LEMMA HoldersFinite ==
    /\ IsFiniteSet(SlotHolders)
    /\ Cardinality(SlotHolders) \in Nat
  <1>1. SlotHolders \subseteq Sessions
    BY DEF SlotHolders
  <1>2. IsFiniteSet(SlotHolders)
    BY <1>1, SessionsFinite, FS_Subset
  <1> QED
    BY <1>2, FS_CardinalityType

\* Every step of a session keeps childrenSem accurate.
LEMMA AccountingStep ==
    ASSUME Shape, Counters, SlotAccounting,
           NEW s \in Sessions, SessionStep(s), Control(s)
    PROVE  SlotAccounting'
  <1>1. /\ IsFiniteSet(SlotHolders)
        /\ childrenSem = Cardinality(SlotHolders)
    BY HoldersFinite DEF SlotAccounting
  <1>2. CASE SlotHolders' = SlotHolders /\ childrenSem' = childrenSem
    BY <1>1, <1>2 DEF SlotAccounting
  <1>3. CASE /\ s \notin SlotHolders
             /\ SlotHolders' = SlotHolders \cup {s}
             /\ childrenSem' = childrenSem + 1
    <2>1. Cardinality(SlotHolders') = Cardinality(SlotHolders) + 1
      BY <1>1, <1>3, FS_AddElement
    <2> QED
      BY <1>1, <1>3, <2>1 DEF SlotAccounting
  <1>4. CASE /\ s \in SlotHolders
             /\ SlotHolders' = SlotHolders \ {s}
             /\ childrenSem' = childrenSem - 1
    <2>1. Cardinality(SlotHolders') = Cardinality(SlotHolders) - 1
      BY <1>1, <1>4, FS_RemoveElement
    <2> QED
      BY <1>1, <1>4, <2>1 DEF SlotAccounting
  <1> QED
    BY <1>2, <1>3, <1>4, HoldersStep

-----------------------------------------------------------------------------
\* The initial state satisfies the invariant.
LEMMA InitIInv == Init => IInv
  <1> SUFFICES ASSUME Init PROVE IInv
    OBVIOUS
  <1>1. Shape
    BY DefaultSizeValid DEF Init, Shape
  <1>2. Counters
    BY MaxChildrenPositive DEF Init, Counters
  <1>3. SlotHolders = {}
    BY DEF Init, SlotHolders, ReapPhases
  <1>4. Cardinality({}) = 0
    BY FS_EmptySet
  <1>5. ASSUME NEW s \in Sessions
        PROVE  Control(s) /\ Output(s)
    <2>1. Control(s)
      BY DEF Init, Control
    <2>2. Output(s)
      BY DEF Init, Output
    <2> QED
      BY <2>1, <2>2
  <1>6. SlotAccounting
    BY <1>3, <1>4 DEF Init, SlotAccounting
  <1> QED
    BY <1>1, <1>2, <1>5, <1>6, TypeParts DEF IInv

\* Every step of a session keeps the invariant.
LEMMA SessionStepIInv ==
    ASSUME IInv, NEW s \in Sessions, SessionStep(s)
    PROVE  IInv'
  <1>1. Shape /\ Counters /\ SlotAccounting
    BY TypeParts DEF IInv
  <1>2. \A x \in Sessions : Control(x) /\ Output(x)
    BY DEF IInv
  <1>3. Shape' /\ Counters'
    BY <1>1, ShapeStep, CountersStep
  <1>4. SlotAccounting'
    BY <1>1, <1>2, AccountingStep
  <1>5. ASSUME NEW x \in Sessions
        PROVE  Control(x)' /\ Output(x)'
    <2>1. CASE x = s
      BY <1>1, <1>2, <2>1, ControlStep, OutputStep
    <2>2. CASE x # s
      <3>1. /\ chan'[x] = chan[x] /\ hpc'[x] = hpc[x] /\ rpc'[x] = rpc[x]
            /\ size'[x] = size[x] /\ ptySize'[x] = ptySize[x]
            /\ mode'[x] = mode[x] /\ fdOpen'[x] = fdOpen[x]
            /\ child'[x] = child[x] /\ copier'[x] = copier[x]
            /\ made'[x] = made[x] /\ buffered'[x] = buffered[x]
            /\ sent'[x] = sent[x] /\ reported'[x] = reported[x]
        BY <1>1, <2>2, Frame
      <3>2. Control(x)'
        BY <1>2, <3>1 DEF Control
      <3>3. Output(x)'
        BY <1>2, <3>1 DEF Output
      <3> QED
        BY <3>2, <3>3
    <2> QED
      BY <2>1, <2>2
  <1>6. TypeOK'
    BY <1>3 DEF TypeOK, Shape, Counters
  <1> QED
    BY <1>4, <1>5, <1>6 DEF IInv

\* Stuttering keeps the invariant.
LEMMA StutterIInv ==
    ASSUME IInv, UNCHANGED vars
    PROVE  IInv'
  <1> USE DEF vars, clientVars, handlerVars, ttyVars, childVars, outputVars,
          reapVars
  <1>1. TypeOK'
    BY DEF IInv, TypeOK
  <1>2. SlotAccounting'
    BY DEF IInv, SlotAccounting, SlotHolders
  <1>3. ASSUME NEW s \in Sessions
        PROVE  Control(s)' /\ Output(s)'
    BY DEF IInv, Control, Output
  <1> QED
    BY <1>1, <1>2, <1>3 DEF IInv

\* The invariant holds in every reachable state.
THEOREM Invariant == Spec => []IInv
  <1>1. IInv /\ [Next]_vars => IInv'
    BY SessionStepIInv, StutterIInv DEF Next, Terminated
  <1> QED
    BY <1>1, InitIInv, PTL DEF Spec

\* Type correctness: among others, len(childrenSem) stays within its
\* capacity (server.go:139-149, session.go:197-211).
THEOREM TypeCorrect == Spec => []TypeOK
  BY Invariant, PTL DEF IInv

\* Every slot of childrenSem is released once, by the handler or by reap
\* (session.go:197-222, 315).
THEOREM SlotsAccounted == Spec => []SlotAccounting
  BY Invariant, PTL DEF IInv

\* There are never more than MaxChildren processes, zombies included
\* (server.go:62, session.go:197-206): a process that was not reaped belongs
\* to a reaper that still holds the slot.
THEOREM ProcessesAreCapped == Spec => []ProcessesCapped
  <1>1. IInv => ProcessesCapped
    <2> SUFFICES ASSUME IInv PROVE ProcessesCapped
      OBVIOUS
    <2>1. Processes \subseteq SlotHolders
      <3> SUFFICES ASSUME NEW s \in Processes PROVE s \in SlotHolders
        OBVIOUS
      <3>1. s \in Sessions /\ child[s] \in {"running", "exited"}
        BY DEF Processes
      <3>2. Control(s)
        BY <3>1 DEF IInv
      <3>3. rpc[s] = "wait"
        BY <3>1, <3>2 DEF Control
      <3> QED
        BY <3>1, <3>3 DEF SlotHolders, ReapPhases
    <2>2. /\ Cardinality(Processes) \in Nat
          /\ Cardinality(Processes) <= Cardinality(SlotHolders)
      <3>1. IsFiniteSet(Processes)
        BY <2>1, HoldersFinite, FS_Subset
      <3> QED
        BY <2>1, <3>1, HoldersFinite, FS_Subset, FS_CardinalityType
    <2>3. Cardinality(SlotHolders) \in 0..MaxChildren
      BY DEF IInv, TypeOK, SlotAccounting
    <2> QED
      BY <2>2, <2>3, MaxChildrenPositive DEF ProcessesCapped
  <1> QED
    BY <1>1, Invariant, PTL

\* Nothing of a session outlives its goroutines (session.go:110-135,
\* 344-356).
THEOREM NothingIsLeft == Spec => []NothingLeft
  <1>1. IInv => NothingLeft
    BY DEF IInv, Control, NothingLeft
  <1> QED
    BY <1>1, Invariant, PTL

\* Without a PTY the exit status comes after all the output
\* (session.go:340, 377).
THEOREM OutputComesFirst == Spec => []PipeOutputBeforeStatus
  <1>1. IInv => PipeOutputBeforeStatus
    <2> SUFFICES ASSUME IInv,
                        NEW s \in Sessions, mode[s] = "pipe", reported[s]
                 PROVE  sent[s] = made[s]
      BY DEF PipeOutputBeforeStatus
    <2>1. made[s] = sent[s] + buffered[s] /\ buffered[s] = 0
      BY DEF IInv, Output
    <2>2. sent[s] \in Nat
      BY DEF IInv, TypeOK
    <2> QED
      BY <2>1, <2>2
  <1> QED
    BY <1>1, Invariant, PTL

\* An open PTY has the size the handler has accepted last (session.go:155-160,
\* 174-179, 249).
THEOREM SizesFollow == Spec => []PtyFollowsClient
  <1>1. IInv => PtyFollowsClient
    BY DEF IInv, Control, PtyFollowsClient
  <1> QED
    BY <1>1, Invariant, PTL

\* A session never gets a second child (session.go:183).
THEOREM AtMostOneChild == Spec => OneChild
  <1>1. IInv /\ [Next]_vars =>
          \A s \in Sessions :
             Started(s) /\ child'[s] = "running" => child[s] = "running"
    <2> SUFFICES ASSUME IInv, [Next]_vars,
                        NEW s \in Sessions, Started(s), child'[s] = "running"
                 PROVE  child[s] = "running"
      OBVIOUS
    <2>1. Shape /\ Counters /\ Control(s)
      BY TypeParts DEF IInv
    <2>2. CASE child' = child
      BY <2>2
    <2>3. ASSUME NEW x \in Sessions, SessionStep(x), x # s
          PROVE  child[s] = "running"
      <3>1. child'[s] = child[s]
        BY <2>1, <2>3, Frame
      <3> QED
        BY <3>1
    <2>4. CASE SessionStep(s)
      <3>1. CASE StartProcess(s)
        BY <2>1, <3>1 DEF StartProcess, Control, Started
      <3>2. CASE Kill(s) \/ ChildExits(s) \/ WaitChild(s)
        BY <2>1, <3>2 DEF Kill, ChildExits, WaitChild, Shape
      <3> QED
        BY <2>2, <2>4, <3>1, <3>2
           DEF SessionStep, ServerStep, ClientStep, HandlerStep, ChildStep,
               ReaperStep, Open, Send, SendEOF, Lose, InputFails, TakeSize, Refuse,
               TakeStart, StartFails, CloseInput, Write, Fork,
               DescendantExits, CopyOut, CopyOutEnds, CopyInEnds, WaitCopy,
               ReapClose, Report, CloseChannel, Release, childVars
    <2> QED
      BY <2>2, <2>3, <2>4 DEF Next, Terminated, vars, childVars
  <1> QED
    BY <1>1, Invariant, PTL DEF Spec, OneChild

-----------------------------------------------------------------------------
\* A step of a session takes one slot, gives one back, or neither.
LEMMA SessionIsSemaphoreStep ==
    ASSUME IInv, IInv', NEW s \in Sessions, SessionStep(s)
    PROVE  [Slots!Next]_SlotHolders
  <1>1. Shape /\ Counters /\ Control(s)
    BY TypeParts DEF IInv
  <1>2. CASE SlotHolders' = SlotHolders
    BY <1>2
  <1>3. CASE /\ s \notin SlotHolders
             /\ SlotHolders' = SlotHolders \cup {s}
             /\ childrenSem' = childrenSem + 1
    <2>1. childrenSem \in 0..MaxChildren /\ childrenSem' \in 0..MaxChildren
      BY DEF IInv, TypeOK
    <2>2. childrenSem < MaxChildren
      BY <1>3, <2>1, MaxChildrenPositive
    <2>3. Cardinality(SlotHolders) < MaxChildren
      BY <2>2 DEF IInv, SlotAccounting
    <2>4. Slots!Cardinality(SlotHolders) = Cardinality(SlotHolders)
      BY DEF Slots!Cardinality, Cardinality
    <2> QED
      BY <1>3, <2>3, <2>4 DEF Slots!Next, Slots!Acquire
  <1>4. CASE s \in SlotHolders /\ SlotHolders' = SlotHolders \ {s}
    BY <1>4 DEF Slots!Next, Slots!Release
  <1> QED
    BY <1>1, <1>2, <1>3, <1>4, HoldersStep

\* childrenSem, taken in the handlers and released in either goroutine, is a
\* semaphore that admits MaxChildren sessions (session.go:197-222, 315).
THEOREM ChildrenSemaphore == Spec => ImplementsSemaphore
  <1>1. Init => Slots!Init
    BY DEF Init, Slots!Init, SlotHolders, ReapPhases
  <1>2. IInv /\ IInv' /\ [Next]_vars => [Slots!Next]_SlotHolders
    <2>1. UNCHANGED vars => UNCHANGED SlotHolders
      BY DEF vars, handlerVars, reapVars, SlotHolders
    <2> QED
      BY <2>1, SessionIsSemaphoreStep DEF Next, Terminated
  <1> QED
    BY <1>1, <1>2, Invariant, PTL DEF Spec, ImplementsSemaphore, Slots!Spec

-----------------------------------------------------------------------------
(* The goroutines of a session run down.                                   *)

\* How many steps the handler may take on the requests it has, the teardown
\* included, if no more arrive.
HandlerLeft(s) ==
    LET left == [none |-> 0, loop |-> 2, starting |-> 3, killed |-> 1,
                 done |-> 0]
    IN  2 * Len(reqs[s]) + left[hpc[s]]

\* How many steps reap may still take.
ReaperLeft(s) ==
    LET left == [none |-> 0, wait |-> 7, copyWait |-> 6, close |-> 5,
                 drain |-> 4, report |-> 3, closeChan |-> 2, release |-> 1,
                 done |-> 0]
    IN  left[rpc[s]]

\* A handler uses up the requests it has been sent, and a channel that is lost
\* brings no more; reap, once it was started, goes one way, and no second one
\* follows it.  So a lost session cannot go on for ever, whatever its child,
\* its client and the other sessions do (session.go:97-231, 314-380).
SessionsRunDown ==
    [][\A s \in Sessions :
          /\ HandlerStep(s) => HandlerLeft(s)' < HandlerLeft(s)
          /\ ReaperStep(s) => ReaperLeft(s)' < ReaperLeft(s)
          /\ chan[s] = "gone" =>
               chan'[s] = "gone" /\ HandlerLeft(s)' <= HandlerLeft(s)
          /\ Started(s) => Started(s)' /\ ReaperLeft(s)' <= ReaperLeft(s)]_vars

\* Both ranks are natural numbers.
LEMMA LeftNatural ==
    ASSUME Shape, NEW s \in Sessions
    PROVE  HandlerLeft(s) \in Nat /\ ReaperLeft(s) \in 0..7
  <1>1. Len(reqs[s]) \in Nat
    BY DEF Shape
  <1> QED
    BY <1>1 DEF Shape, ReapPhases, HandlerLeft, ReaperLeft

\* Taking a request leaves one less.
LEMMA TakeShortens ==
    ASSUME Shape, NEW s \in Sessions, NEW kinds, Take(s, kinds)
    PROVE  /\ hpc[s] = "loop"
           /\ Len(reqs[s]) \in Nat
           /\ Len(reqs'[s]) = Len(reqs[s]) - 1
  <1>1. reqs[s] \in Seq(Requests) /\ reqs[s] # <<>>
    BY DEF Shape, Take
  <1>2. reqs'[s] = Tail(reqs[s])
    BY DEF Shape, Take
  <1>3. /\ Len(reqs[s]) \in Nat
        /\ Len(Tail(reqs[s])) = Len(reqs[s]) - 1
    BY <1>1
  <1> QED
    BY <1>2, <1>3 DEF Take

\* Every step of the handler lowers its rank.
LEMMA HandlerRunsDown ==
    ASSUME Shape, NEW s \in Sessions, HandlerStep(s)
    PROVE  HandlerLeft(s)' < HandlerLeft(s)
  <1> USE DEF HandlerLeft
  <1>1. CASE TakeSize(s) \/ Refuse(s)
    <2>1. /\ hpc[s] = "loop" /\ hpc'[s] = "loop"
          /\ Len(reqs[s]) \in Nat /\ Len(reqs'[s]) = Len(reqs[s]) - 1
      BY <1>1, TakeShortens DEF TakeSize, Refuse, handlerVars
    <2> QED
      BY <2>1
  <1>2. CASE TakeStart(s)
    <2>1. /\ hpc[s] = "loop" /\ hpc'[s] = "starting"
          /\ Len(reqs[s]) \in Nat /\ Len(reqs'[s]) = Len(reqs[s]) - 1
      BY <1>2, TakeShortens DEF TakeStart, Shape
    <2> QED
      BY <2>1
  <1>3. CASE StartFails(s) \/ StartProcess(s) \/ Kill(s) \/ CloseInput(s)
    <2>1. /\ reqs' = reqs /\ Len(reqs[s]) \in Nat
          /\ \/ hpc[s] = "starting" /\ hpc'[s] = "loop"
             \/ hpc[s] = "loop" /\ hpc'[s] = "killed"
             \/ hpc[s] = "killed" /\ hpc'[s] = "done"
      BY <1>3 DEF StartFails, StartProcess, Kill, CloseInput, clientVars, Shape
    <2> QED
      BY <2>1
  <1> QED
    BY <1>1, <1>2, <1>3 DEF HandlerStep

\* Every step of reap lowers its rank.
LEMMA ReaperRunsDown ==
    ASSUME Shape, NEW s \in Sessions, ReaperStep(s)
    PROVE  ReaperLeft(s)' < ReaperLeft(s) /\ Started(s) /\ Started(s)'
  BY DEF Shape, ReaperLeft, Started, ReaperStep, ReapStep, WaitChild, WaitCopy,
         ReapClose, Report, CloseChannel, Release

\* What is left to do for a session changes only with its own steps.
LEMMA OwnStepsOnly ==
    ASSUME Shape, NEW s \in Sessions, NEW x \in Sessions, x # s, SessionStep(s)
    PROVE  /\ reqs'[x] = reqs[x] /\ hpc'[x] = hpc[x]
           /\ rpc'[x] = rpc[x] /\ chan'[x] = chan[x]
  <1> USE DEF Shape, clientVars, handlerVars, ttyVars, childVars, outputVars,
          reapVars
  <1>1. CASE ClientStep(s)
    BY <1>1 DEF ClientStep, Open, Send, SendEOF, Lose, InputFails
  <1>2. CASE HandlerStep(s)
    BY <1>2 DEF HandlerStep, TakeSize, Refuse, TakeStart, Take, StartFails,
                StartProcess, Kill, CloseInput
  <1>3. CASE ChildStep(s)
    BY <1>3 DEF ChildStep, Write, Fork, DescendantExits, ChildExits
  <1>4. CASE ReaperStep(s)
    BY <1>4 DEF ReaperStep, ReapStep, WaitChild, WaitCopy, ReapClose, Report,
                CloseChannel, Release
  <1>5. CASE CopyOut(s) \/ CopyOutEnds(s) \/ CopyInEnds(s)
    BY <1>5 DEF CopyOut, CopyOutEnds, CopyInEnds
  <1> QED
    BY <1>1, <1>2, <1>3, <1>4, <1>5 DEF SessionStep, ServerStep

\* Its other steps do not touch what the handler has left on a lost channel,
\* nor what reap has left.
LEMMA OthersLeaveAlone ==
    ASSUME Shape, NEW s \in Sessions, Control(s), SessionStep(s)
    PROVE  /\ chan[s] = "gone" =>
                /\ chan'[s] = "gone"
                /\ ~HandlerStep(s) => reqs'[s] = reqs[s] /\ hpc'[s] = hpc[s]
           /\ Started(s) /\ ~ReaperStep(s) => rpc'[s] = rpc[s]
  <1> USE DEF Shape, Control, Started, clientVars, handlerVars, ttyVars,
          childVars, outputVars, reapVars
  <1>1. CASE ClientStep(s)
    BY <1>1 DEF ClientStep, Open, Send, SendEOF, Lose, InputFails
  <1>2. CASE HandlerStep(s)
    BY <1>2 DEF HandlerStep, TakeSize, Refuse, TakeStart, Take, StartFails,
                StartProcess, Kill, CloseInput
  <1>3. CASE ChildStep(s)
    BY <1>3 DEF ChildStep, Write, Fork, DescendantExits, ChildExits
  <1>4. CASE ReaperStep(s)
    BY <1>4 DEF ReaperStep, ReapStep, WaitChild, WaitCopy, ReapClose, Report,
                CloseChannel, Release
  <1>5. CASE CopyOut(s) \/ CopyOutEnds(s) \/ CopyInEnds(s)
    BY <1>5 DEF CopyOut, CopyOutEnds, CopyInEnds
  <1> QED
    BY <1>1, <1>2, <1>3, <1>4, <1>5 DEF SessionStep, ServerStep

\* A lost session cannot go on for ever (session.go:97-231, 314-380).
THEOREM LostSessionsRunDown == Spec => SessionsRunDown
  <1>1. ASSUME IInv, [Next]_vars, NEW s \in Sessions
        PROVE  /\ HandlerStep(s) => HandlerLeft(s)' < HandlerLeft(s)
               /\ ReaperStep(s) => ReaperLeft(s)' < ReaperLeft(s)
               /\ chan[s] = "gone" =>
                    chan'[s] = "gone" /\ HandlerLeft(s)' <= HandlerLeft(s)
               /\ Started(s) =>
                    Started(s)' /\ ReaperLeft(s)' <= ReaperLeft(s)
    <2>1. Shape /\ Control(s)
      BY <1>1, TypeParts DEF IInv
    <2>2. HandlerLeft(s) \in Nat /\ ReaperLeft(s) \in 0..7
      BY <2>1, LeftNatural
    <2>3. Shape'
      BY <1>1, SessionStepIInv, StutterIInv, TypeParts
         DEF Next, Terminated, IInv, TypeOK, Shape
    <2>4. HandlerLeft(s)' \in Nat
      <3>1. Len(reqs'[s]) \in Nat
        BY <2>3 DEF Shape
      <3> QED
        BY <2>3, <3>1 DEF Shape, HandlerLeft
    <2>5. /\ HandlerStep(s) => HandlerLeft(s)' < HandlerLeft(s)
          /\ ReaperStep(s) =>
               ReaperLeft(s)' < ReaperLeft(s) /\ Started(s)'
      BY <2>1, HandlerRunsDown, ReaperRunsDown
    <2>6. CASE reqs'[s] = reqs[s] /\ hpc'[s] = hpc[s] /\ rpc'[s] = rpc[s]
               /\ chan'[s] = chan[s]
      BY <2>2, <2>5, <2>6 DEF HandlerLeft, ReaperLeft, Started
    <2>7. CASE SessionStep(s)
      <3>1. ASSUME chan[s] = "gone"
            PROVE  chan'[s] = "gone" /\ HandlerLeft(s)' <= HandlerLeft(s)
        <4>1. CASE HandlerStep(s)
          BY <2>1, <2>2, <2>4, <2>5, <2>7, <3>1, <4>1, OthersLeaveAlone
        <4>2. CASE ~HandlerStep(s)
          <5>1. chan'[s] = "gone" /\ reqs'[s] = reqs[s] /\ hpc'[s] = hpc[s]
            BY <2>1, <2>7, <3>1, <4>2, OthersLeaveAlone
          <5> QED
            BY <2>2, <5>1 DEF HandlerLeft
        <4> QED
          BY <4>1, <4>2
      <3>2. ASSUME Started(s)
            PROVE  Started(s)' /\ ReaperLeft(s)' <= ReaperLeft(s)
        <4>1. CASE ReaperStep(s)
          <5>1. ReaperLeft(s)' \in 0..7
            BY <2>3 DEF Shape, ReapPhases, ReaperLeft
          <5> QED
            BY <2>2, <2>5, <4>1, <5>1
        <4>2. CASE ~ReaperStep(s)
          <5>1. rpc'[s] = rpc[s]
            BY <2>1, <2>7, <3>2, <4>2, OthersLeaveAlone
          <5> QED
            BY <2>2, <3>2, <5>1 DEF Started, ReaperLeft
        <4> QED
          BY <4>1, <4>2
      <3> QED
        BY <2>5, <3>1, <3>2
    <2>8. ASSUME NEW x \in Sessions, x # s, SessionStep(x)
          PROVE  /\ reqs'[s] = reqs[s] /\ hpc'[s] = hpc[s]
                 /\ rpc'[s] = rpc[s] /\ chan'[s] = chan[s]
      BY <2>1, <2>8, OwnStepsOnly
    <2>9. CASE UNCHANGED vars
      BY <2>6, <2>9 DEF vars, clientVars, handlerVars, reapVars
    <2> QED
      BY <1>1, <2>6, <2>7, <2>8, <2>9 DEF Next, Terminated
  <1>2. IInv /\ [Next]_vars =>
          [\A s \in Sessions :
              /\ HandlerStep(s) => HandlerLeft(s)' < HandlerLeft(s)
              /\ ReaperStep(s) => ReaperLeft(s)' < ReaperLeft(s)
              /\ chan[s] = "gone" =>
                   chan'[s] = "gone" /\ HandlerLeft(s)' <= HandlerLeft(s)
              /\ Started(s) =>
                   Started(s)' /\ ReaperLeft(s)' <= ReaperLeft(s)]_vars
    BY <1>1
  <1> QED
    BY <1>2, Invariant, PTL DEF Spec, SessionsRunDown
=============================================================================
