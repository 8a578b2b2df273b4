----------------------- MODULE ContainerdSessionProofs -----------------------
(****************************************************************************)
(* ContainerdSession implements DebugContainer, and in which order what     *)
(* RunDebugContainer has made goes away again.                              *)
(****************************************************************************)
EXTENDS ContainerdSession, TLAPS

\* What a removed container leaves: neither a task nor a place before its removal.
RemovedLast ==
  container = "removed" =>
    /\ task # "there"
    /\ pc \in {"removeFifo", "closeClient", "respond", "ended", "killed"}

\* The output is copied for as long as there is a task, at most.
OutputOfTask == stdout = "copying" => task = "there"

\* The fifo goes after the container.
FifoByPlace ==
  fifo = "removed" => pc \in {"closeClient", "respond", "ended", "killed"}

IInv == TypeOK /\ RemovedLast /\ OutputOfTask /\ FifoByPlace /\ FifoOutlivesContainer

------------------------------------------------------------------------------

\* IInv holds before the pull.
LEMMA InitInv == Init => IInv
  BY DEF Init, StreamsInit, IInv, TypeOK, Types, StreamTypes, DaemonByPlace, RemovedLast, OutputOfTask,
         FifoByPlace, FifoOutlivesContainer, Preparing, Promise!Containers, Promise!Reasons

\* An excuse the promise names can be added to those the session has.
LEMMA ExcuseTypes ==
  excuses \subseteq Promise!Reasons =>
    \A r \in {"lostReply", "notStarted", "notRemoved"} :
      Excuse(r) => excuses' \subseteq Promise!Reasons
  BY DEF Excuse, Promise!Reasons

\* Every step preserves the types.
LEMMA StepTypes == Types /\ [Next]_vars => Types'
<1> SUFFICES ASSUME Types, [Next]_vars PROVE Types'
  OBVIOUS
<1> USE DEF Types, StreamTypes, Go, Alive, run, daemon, audit, streams, resizing,
            Preparing, Deferred, Promise!Containers
<1>1. CASE StartPull
  BY <1>1 DEF StartPull
<1>2. CASE PullEnds
  BY <1>2 DEF PullEnds, StopProgress
<1>3. CASE MakeFifo
  BY <1>3 DEF MakeFifo
<1>4. CASE Inspect
  BY <1>4 DEF Inspect
<1>5. CASE NewContainer
  <2>1. excuses' \subseteq Promise!Reasons
    BY <1>5, ExcuseTypes DEF NewContainer
  <2> QED
    BY <1>5, <2>1 DEF NewContainer
<1>6. CASE NewTask
  <2>1. excuses' \subseteq Promise!Reasons
    BY <1>6, ExcuseTypes DEF NewTask
  <2> QED
    BY <1>6, <2>1 DEF NewTask
<1>7. CASE WaitTask
  BY <1>7 DEF WaitTask
<1>8. CASE StartTask
  BY <1>8 DEF StartTask
<1>9. CASE ExitStatus \/ ExitUnknown
  BY <1>9 DEF ExitStatus, ExitUnknown
<1>10. CASE KillTask
  <2>1. excuses' \subseteq Promise!Reasons
    BY <1>10, ExcuseTypes DEF KillTask
  <2> QED
    BY <1>10, <2>1 DEF KillTask
<1>11. CASE DeleteTask
  <2>1. excuses' \subseteq Promise!Reasons
    BY <1>11, ExcuseTypes DEF DeleteTask
  <2> QED
    BY <1>11, <2>1 DEF DeleteTask
<1>12. CASE DeleteContainer
  <2>1. excuses' \subseteq Promise!Reasons
    BY <1>12, ExcuseTypes DEF DeleteContainer
  <2> QED
    BY <1>12, <2>1 DEF DeleteContainer
<1>13. CASE RemoveFifo
  BY <1>13 DEF RemoveFifo
<1>14. CASE CloseClient
  BY <1>14 DEF CloseClient
<1>15. CASE Respond
  BY <1>15 DEF Respond, StopProgress
<1>16. CASE LastProgress
  BY <1>16 DEF LastProgress
<1>17. CASE OpenFifo \/ ReadToEnd
  BY <1>17 DEF OpenFifo, ReadToEnd
<1>18. CASE StdoutEnds
  BY <1>18 DEF StdoutEnds
<1>19. CASE Beside(StdinEnds \/ ClientLeaves)
  BY <1>19 DEF Beside, StdinEnds, ClientLeaves
<1>20. CASE Beside(Resizing)
  <2>1. UNCHANGED <<run, daemon, progress, audit, streams>>
    BY <1>20 DEF Beside, Resizing, ReadEvent, TakeSize, ResizeDone, ResizeClosed
  <2>2. events' \in {"reading", "offering", "done"} /\ resizer' \in {"off", "waiting", "calling", "done"}
    BY <1>20 DEF Beside, Resizing, ReadEvent, TakeSize, ResizeDone, ResizeClosed
  <2> QED
    BY <2>1, <2>2
<1>21. CASE ContainerExits
  BY <1>21 DEF ContainerExits
<1>22. CASE AgentKilled
  BY <1>22 DEF AgentKilled
<1>23. CASE UNCHANGED vars
  BY <1>23 DEF vars
<1> QED
  BY <1>1, <1>2, <1>3, <1>4, <1>5, <1>6, <1>7, <1>8, <1>9, <1>10, <1>11, <1>12, <1>13, <1>14,
     <1>15, <1>16, <1>17, <1>18, <1>19, <1>20, <1>21, <1>22, <1>23
     DEF Next, Handler, Over, Beside

\* Every step preserves IInv.
LEMMA StepInv == IInv /\ [Next]_vars => IInv'
<1> SUFFICES ASSUME IInv, [Next]_vars PROVE (IInv)'
  OBVIOUS
<1>0. Types'
  BY StepTypes DEF IInv, TypeOK
<1> SUFFICES (DaemonByPlace /\ RemovedLast /\ OutputOfTask /\ FifoByPlace /\ FifoOutlivesContainer)'
  BY <1>0 DEF IInv, TypeOK
<1> USE DEF IInv, TypeOK, DaemonByPlace, RemovedLast, OutputOfTask, FifoByPlace, FifoOutlivesContainer,
            Go, Excuse, Alive, run, daemon, audit, streams, resizing
<1>1. CASE StartPull
  BY <1>1 DEF StartPull
<1>2. CASE PullEnds
  BY <1>2 DEF PullEnds, StopProgress
<1>3. CASE MakeFifo
  BY <1>3 DEF MakeFifo
<1>4. CASE Inspect
  BY <1>4 DEF Inspect
<1>5. CASE NewContainer
  BY <1>5 DEF NewContainer
<1>6. CASE NewTask
  BY <1>6 DEF NewTask
<1>7. CASE WaitTask
  BY <1>7 DEF WaitTask
<1>8. CASE StartTask
  BY <1>8 DEF StartTask
<1>9. CASE ExitStatus \/ ExitUnknown
  BY <1>9 DEF ExitStatus, ExitUnknown
<1>10. CASE KillTask
  BY <1>10 DEF KillTask
<1>11. CASE DeleteTask
  BY <1>11 DEF DeleteTask
<1>12. CASE DeleteContainer
  BY <1>12 DEF DeleteContainer
<1>13. CASE RemoveFifo
  BY <1>13 DEF RemoveFifo
<1>14. CASE CloseClient
  BY <1>14 DEF CloseClient
<1>15. CASE Respond
  BY <1>15 DEF Respond, StopProgress
<1>16. CASE LastProgress
  BY <1>16 DEF LastProgress
<1>17. CASE OpenFifo \/ ReadToEnd
  BY <1>17 DEF OpenFifo, ReadToEnd
<1>18. CASE StdoutEnds
  BY <1>18 DEF StdoutEnds
<1>19. CASE Beside(StdinEnds \/ ClientLeaves)
  BY <1>19 DEF Beside, StdinEnds, ClientLeaves
<1>20. CASE Beside(Resizing)
  BY <1>20 DEF Beside, Resizing, ReadEvent, TakeSize, ResizeDone, ResizeClosed
<1>21. CASE ContainerExits
  BY <1>21 DEF ContainerExits
<1>22. CASE AgentKilled
  BY <1>22 DEF AgentKilled
<1>23. CASE UNCHANGED vars
  BY <1>23 DEF vars
<1> QED
  BY <1>1, <1>2, <1>3, <1>4, <1>5, <1>6, <1>7, <1>8, <1>9, <1>10, <1>11, <1>12, <1>13, <1>14,
     <1>15, <1>16, <1>17, <1>18, <1>19, <1>20, <1>21, <1>22, <1>23
     DEF Next, Handler, Over, Beside

\* IInv is an invariant of the session.
THEOREM Invariance == Spec => []IInv
  BY InitInv, StepInv, PTL DEF Spec

\* At each place of its handler a session has the container and the task that the
\* place needs, and the deferred functions those that they delete.
THEOREM TypeCorrect == Spec => []TypeOK
<1>1. IInv => TypeOK
  BY DEF IInv
<1> QED
  BY <1>1, Invariance, PTL

\* Neither the deletion of the task nor that of the container cuts output off.
THEOREM OutputIsDrained == Spec => []OutputDrained
<1>1. IInv => OutputDrained
  BY DEF IInv, RemovedLast, OutputOfTask, OutputDrained
<1> QED
  BY <1>1, Invariance, PTL

\* The fifo is removed after the container it is mounted into.
THEOREM FifoIsLast == Spec => []FifoOutlivesContainer
<1>1. IInv => FifoOutlivesContainer
  BY DEF IInv
<1> QED
  BY <1>1, Invariance, PTL

------------------------------------------------------------------------------

\* Every step of the session is a step of the promise, or none that it sees.
LEMMA StepRefines == IInv /\ [Next]_vars => [Promise!Next]_Promise!vars
<1> SUFFICES ASSUME IInv, [Next]_vars PROVE [Promise!Next]_Promise!vars
  OBVIOUS
<1> USE DEF IInv, TypeOK, Types, DaemonByPlace, Go, Excuse, Alive, run, daemon, Preparing, Deferred,
            Promise!Next, Promise!vars, Promise!Excuse, Promise!Reasons
<1>1. CASE StartPull \/ PullEnds \/ MakeFifo \/ Inspect
  BY <1>1 DEF StartPull, PullEnds, MakeFifo, Inspect, Promise!GiveUp
<1>2. CASE NewContainer
  BY <1>2 DEF NewContainer, Promise!Create, Promise!GiveUp
<1>3. CASE NewTask
  BY <1>3 DEF NewTask, Promise!GiveUp, Promise!GivenUp
<1>4. CASE WaitTask
  BY <1>4 DEF WaitTask, Promise!GiveUp, Promise!GivenUp
<1>5. CASE StartTask
  BY <1>5 DEF StartTask, Promise!Start, Promise!GiveUp, Promise!GivenUp
<1>6. CASE ExitStatus \/ ExitUnknown
  BY <1>6 DEF ExitStatus, ExitUnknown, Promise!Close
<1>7. CASE KillTask
  BY <1>7 DEF KillTask, Promise!Exit, Promise!Remove
<1>8. CASE DeleteTask
  BY <1>8 DEF DeleteTask, Promise!Remove
<1>9. CASE DeleteContainer
  BY <1>9 DEF DeleteContainer, Promise!Remove
<1>10. CASE RemoveFifo \/ CloseClient
  BY <1>10 DEF RemoveFifo, CloseClient
<1>11. CASE Respond
  BY <1>11 DEF Respond, Promise!End
<1>12. CASE LastProgress \/ OpenFifo \/ ReadToEnd \/ StdoutEnds
            \/ Beside(StdinEnds \/ Resizing \/ ClientLeaves)
  BY <1>12 DEF LastProgress, OpenFifo, ReadToEnd, StdoutEnds, Beside
<1>13. CASE ContainerExits
  BY <1>13 DEF ContainerExits, Promise!Exit
<1>14. CASE AgentKilled
  BY <1>14 DEF AgentKilled, Promise!Kill
<1>15. CASE UNCHANGED vars
  BY <1>15 DEF vars
<1> QED
  BY <1>1, <1>2, <1>3, <1>4, <1>5, <1>6, <1>7, <1>8, <1>9, <1>10, <1>11, <1>12, <1>13, <1>14, <1>15
     DEF Next, Handler, Over

\* A containerd session keeps the agent's promise.
THEOREM ContainerdKeepsPromise == Spec => KeepsPromise
<1>1. Init => Promise!Init
  BY DEF Init, Promise!Init, Preparing, Deferred
<1>2. IInv /\ [Next]_vars => [Promise!Next]_Promise!vars
  BY StepRefines
<1> QED
  BY <1>1, <1>2, Invariance, PTL DEF Spec, KeepsPromise, Promise!Spec
==============================================================================
