------------------------- MODULE DockerSessionProofs -------------------------
(****************************************************************************)
(* DockerSession implements DebugContainer, and what follows of the debug   *)
(* container.                                                               *)
(****************************************************************************)
EXTENDS DockerSession, TLAPS

\* The type invariant says what container and copier can be at each place, which
\* is what the others need.
IInv == TypeOK /\ OutputDrained

------------------------------------------------------------------------------

\* IInv holds before the image is pulled.
LEMMA InitInv == Init => IInv
  BY DEF Init, StreamsInit, IInv, TypeOK, Types, StreamTypes, ContainerByPlace, OutputByPlace, OutputDrained,
         Promise!Containers, Promise!Reasons

\* Every step preserves IInv.
LEMMA StepInv == IInv /\ [Next]_vars => IInv'
<1> SUFFICES ASSUME IInv, [Next]_vars PROVE IInv'
  OBVIOUS
<1> USE DEF IInv, TypeOK, Types, ContainerByPlace, OutputByPlace, OutputDrained, Go, Excuse, Alive,
            session, streams, resizing, StreamTypes, Promise!Containers, Promise!Reasons
<1>1. CASE PullImage
  BY <1>1 DEF PullImage
<1>2. CASE CreateContainer
  BY <1>2 DEF CreateContainer
<1>3. CASE StartContainer
  BY <1>3 DEF StartContainer
<1>4. CASE AttachToContainer
  BY <1>4 DEF AttachToContainer
<1>5. CASE HoldConnection
  BY <1>5 DEF HoldConnection
<1>6. CASE WaitContainer
  BY <1>6 DEF WaitContainer
<1>7. CASE RmContainer
  BY <1>7 DEF RmContainer
<1>8. CASE Respond
  BY <1>8 DEF Respond
<1>9. CASE StdoutEnds
  BY <1>9 DEF StdoutEnds
<1>10. CASE Beside(StdinEnds \/ ClientLeaves)
  BY <1>10 DEF Beside, StdinEnds, ClientLeaves
<1>11. CASE Beside(Resizing)
  <2>1. UNCHANGED <<session, streams>>
    BY <1>11 DEF Beside, Resizing, ReadEvent, TakeSize, ResizeDone, ResizeClosed
  <2>2. events' \in {"reading", "offering", "done"} /\ resizer' \in {"off", "waiting", "calling", "done"}
    BY <1>11 DEF Beside, Resizing, ReadEvent, TakeSize, ResizeDone, ResizeClosed
  <2> QED
    BY <2>1, <2>2
<1>12. CASE ContainerExits
  BY <1>12 DEF ContainerExits
<1>13. CASE AgentKilled
  BY <1>13 DEF AgentKilled
<1>14. CASE UNCHANGED vars
  BY <1>14 DEF vars
<1> QED
  BY <1>1, <1>2, <1>3, <1>4, <1>5, <1>6, <1>7, <1>8, <1>9, <1>10, <1>11, <1>12, <1>13, <1>14
     DEF Next, Handler, Over, Beside

\* IInv is an invariant of the session.
THEOREM Invariance == Spec => []IInv
  BY InitInv, StepInv, PTL DEF Spec

\* At each place of its handler a session has what that place needs: the container
\* it starts, attaches to or removes, and the copier it waits for.
THEOREM TypeCorrect == Spec => []TypeOK
<1>1. IInv => TypeOK
  BY DEF IInv
<1> QED
  BY <1>1, Invariance, PTL

\* The removal of a container never cuts its output off.
THEOREM OutputIsDrained == Spec => []OutputDrained
<1>1. IInv => OutputDrained
  BY DEF IInv
<1> QED
  BY <1>1, Invariance, PTL

------------------------------------------------------------------------------

\* Every step of the session is a step of the promise, or none that it sees.
LEMMA StepRefines == IInv /\ [Next]_vars => [Promise!Next]_Promise!vars
<1> SUFFICES ASSUME IInv, [Next]_vars PROVE [Promise!Next]_Promise!vars
  OBVIOUS
<1> USE DEF IInv, TypeOK, Types, ContainerByPlace, Go, Excuse, Alive, session, streams, resizing,
            Promise!Next, Promise!vars, Promise!Excuse, Promise!Reasons
<1>1. CASE PullImage
  BY <1>1 DEF PullImage, Promise!GiveUp
<1>2. CASE CreateContainer
  BY <1>2 DEF CreateContainer, Promise!Create, Promise!GiveUp
<1>3. CASE StartContainer
  BY <1>3 DEF StartContainer, Promise!Start, Promise!GiveUp, Promise!GivenUp
<1>4. CASE AttachToContainer
  BY <1>4 DEF AttachToContainer, Promise!Close
<1>5. CASE HoldConnection
  BY <1>5 DEF HoldConnection, Promise!Close
<1>6. CASE WaitContainer
  BY <1>6 DEF WaitContainer
<1>7. CASE RmContainer
  BY <1>7 DEF RmContainer, Promise!Remove
<1>8. CASE Respond
  BY <1>8 DEF Respond, Promise!End
<1>9. CASE StdoutEnds \/ Beside(StdinEnds \/ Resizing \/ ClientLeaves)
  BY <1>9 DEF StdoutEnds, Beside
<1>10. CASE ContainerExits
  BY <1>10 DEF ContainerExits, Promise!Exit
<1>11. CASE AgentKilled
  BY <1>11 DEF AgentKilled, Promise!Kill
<1>12. CASE UNCHANGED vars
  BY <1>12 DEF vars
<1> QED
  BY <1>1, <1>2, <1>3, <1>4, <1>5, <1>6, <1>7, <1>8, <1>9, <1>10, <1>11, <1>12
     DEF Next, Handler, Over

\* A docker session keeps the agent's promise.
THEOREM DockerKeepsPromise == Spec => KeepsPromise
<1>1. Init => Promise!Init
  BY DEF Init, Promise!Init
<1>2. IInv /\ [Next]_vars => [Promise!Next]_Promise!vars
  BY StepRefines
<1> QED
  BY <1>1, <1>2, Invariance, PTL DEF Spec, KeepsPromise, Promise!Spec

\* What the promise is worth here: a session that ended without an excuse left
\* no debug container.
THEOREM NothingLeftByDocker == Spec => []Promise!NothingLeft
<1>1. IInv => Promise!NothingLeft
  BY DEF IInv, TypeOK, Types, ContainerByPlace, Promise!NothingLeft
<1> QED
  BY <1>1, Invariance, PTL
==============================================================================
