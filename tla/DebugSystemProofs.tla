-------------------------- MODULE DebugSystemProofs --------------------------
(****************************************************************************)
(* DebugSystem behaves as each of its two sides does alone, so what is      *)
(* proved of PluginRun and of DockerSession holds of it; and the plugin     *)
(* deletes the agent's pod only when the agent has finished.                *)
(*                                                                          *)
(* Every result holds for any number of signals and any options, a forked   *)
(* pod among them.                                                          *)
(****************************************************************************)
EXTENDS DebugSystem, PluginRunProofs

AgentProofs == INSTANCE DockerSessionProofs WITH pc <- handler

\* A watcher is signalled by a signal.
SignalsCounted == (\E h \in Handlers : watch[h] = "signalled") => signals > 0

SystemInv == /\ IInv /\ AgentProofs!IInv /\ Coupled /\ SignalsCounted
             /\ request \in {"none", "sent", "cut"}

------------------------------------------------------------------------------

\* A step of the system is a step of the plugin, or none that it sees.
LEMMA PluginSide == [SystemNext]_systemVars => [Next]_vars
<1> SUFFICES ASSUME [SystemNext]_systemVars PROVE [Next]_vars
  OBVIOUS
<1>1. CASE Plugin \/ PluginEnded
  BY <1>1 DEF Plugin, PluginEnded, PluginStep, StreamEnds, Next
<1>2. CASE SendRequest \/ AgentRuns \/ Disconnect \/ ConnectionFails \/ AgentKilled
  BY <1>2 DEF SendRequest, AgentRuns, Disconnect, ConnectionFails, Cut, AgentKilled, AgentStep
<1>3. CASE UNCHANGED systemVars
  BY <1>3 DEF systemVars
<1> QED
  BY <1>1, <1>2, <1>3 DEF SystemNext

\* The session proved in DockerSessionProofs is the one that DebugSystem runs.
LEMMA SameSteps ==
  /\ Agent!Handler => AgentProofs!Handler
  /\ Agent!StdoutEnds => AgentProofs!StdoutEnds
  /\ Agent!ContainerExits => AgentProofs!ContainerExits
  /\ Agent!Beside(Agent!StdinEnds) => AgentProofs!Beside(AgentProofs!StdinEnds)
  /\ Agent!Beside(Agent!ClientLeaves) => AgentProofs!Beside(AgentProofs!ClientLeaves)
  /\ Agent!AgentKilled => AgentProofs!AgentKilled
<1> USE DEF Agent!Go, AgentProofs!Go, Agent!Excuse, AgentProofs!Excuse, Agent!streams, AgentProofs!streams,
            Agent!resizing, AgentProofs!resizing, Agent!session, AgentProofs!session,
            Agent!Alive, AgentProofs!Alive
<1>1. Agent!PullImage => AgentProofs!PullImage
  BY DEF Agent!PullImage, AgentProofs!PullImage
<1>2. Agent!CreateContainer => AgentProofs!CreateContainer
  BY DEF Agent!CreateContainer, AgentProofs!CreateContainer
<1>3. Agent!StartContainer => AgentProofs!StartContainer
  BY DEF Agent!StartContainer, AgentProofs!StartContainer
<1>4. Agent!AttachToContainer => AgentProofs!AttachToContainer
  BY DEF Agent!AttachToContainer, AgentProofs!AttachToContainer
<1>5. Agent!HoldConnection => AgentProofs!HoldConnection
  BY DEF Agent!HoldConnection, AgentProofs!HoldConnection
<1>6. Agent!WaitContainer => AgentProofs!WaitContainer
  BY DEF Agent!WaitContainer, AgentProofs!WaitContainer
<1>7. Agent!RmContainer => AgentProofs!RmContainer
  BY DEF Agent!RmContainer, AgentProofs!RmContainer
<1>8. Agent!Respond => AgentProofs!Respond
  BY DEF Agent!Respond, AgentProofs!Respond
<1>9. Agent!Handler => AgentProofs!Handler
  BY <1>1, <1>2, <1>3, <1>4, <1>5, <1>6, <1>7, <1>8 DEF Agent!Handler, AgentProofs!Handler
<1>10. Agent!StdoutEnds => AgentProofs!StdoutEnds
  BY DEF Agent!StdoutEnds, AgentProofs!StdoutEnds
<1>11. Agent!ContainerExits => AgentProofs!ContainerExits
  BY DEF Agent!ContainerExits, AgentProofs!ContainerExits
<1>12. Agent!Beside(Agent!StdinEnds) => AgentProofs!Beside(AgentProofs!StdinEnds)
  BY DEF Agent!Beside, AgentProofs!Beside, Agent!StdinEnds, AgentProofs!StdinEnds
<1>13. Agent!Beside(Agent!ClientLeaves) => AgentProofs!Beside(AgentProofs!ClientLeaves)
  BY DEF Agent!Beside, AgentProofs!Beside, Agent!ClientLeaves, AgentProofs!ClientLeaves
<1>14. Agent!AgentKilled => AgentProofs!AgentKilled
  BY DEF Agent!AgentKilled, AgentProofs!AgentKilled
<1> QED
  BY <1>9, <1>10, <1>11, <1>12, <1>13, <1>14

\* A step of the system is a step of the agent's session, or none that it sees.
LEMMA AgentSide == [SystemNext]_systemVars => [AgentProofs!Next]_AgentProofs!vars
<1> SUFFICES ASSUME [SystemNext]_systemVars PROVE [AgentProofs!Next]_AgentProofs!vars
  OBVIOUS
<1>1. CASE Plugin \/ SendRequest \/ PluginEnded
  <2>1. UNCHANGED agentVars
    BY <1>1 DEF Plugin, PluginStep, SendRequest, PluginEnded
  <2> QED
    BY <2>1 DEF agentVars, AgentProofs!vars, AgentProofs!session, AgentProofs!streams, AgentProofs!resizing
<1>2. CASE AgentRuns
  BY <1>2, SameSteps DEF AgentRuns, AgentStep, AgentProofs!Next, AgentProofs!Beside
<1>3. CASE Disconnect \/ ConnectionFails
  BY <1>3, SameSteps DEF Disconnect, ConnectionFails, Cut, AgentProofs!Next, AgentProofs!Beside
<1>4. CASE AgentKilled
  BY <1>4, SameSteps DEF AgentKilled, AgentStep, AgentProofs!Next
<1>5. CASE UNCHANGED systemVars
  BY <1>5 DEF systemVars, agentVars, AgentProofs!vars, AgentProofs!session, AgentProofs!streams,
              AgentProofs!resizing
<1> QED
  BY <1>1, <1>2, <1>3, <1>4, <1>5 DEF SystemNext

\* From the session on main only goes forward, and a deleted agent stays deleted.
LEMMA LateSteps ==
  ASSUME TypeOK, Next, pc \in Late
  PROVE  /\ pc' \in Late
         /\ pc # "session" => pc' # "session"
         /\ pods["agent"] = "deleted" => pods'["agent"] = "deleted"
<1> USE DEF Late, At, Goto, Return
<1>1. ~Launch
  BY DEF Launch, GetPod, Auth, LaunchAgent, LaunchFork, CreatePod, AwaitRunning, Inspect, GiveUp,
         FindAgent, RunPortForward, AwaitReady, Safe, Chain
<1>2. CASE SessionEnds
  BY <1>2 DEF SessionEnds, clusterVars
<1>3. CASE Notifications
  <2>1. UNCHANGED pc
    BY <1>3 DEF Notifications, DeleteFork, CloseStop, TakeAgentBack, RestoreTerminal, Notify
  <2>2. pods["agent"] = "deleted" => pods'["agent"] = "deleted"
    BY <1>3 DEF Notifications, DeleteFork, CloseStop, TakeAgentBack, RestoreTerminal, DeletePod, DeleteAgent,
                clusterVars, TypeOK, Pods
  <2> QED
    BY <2>1, <2>2
<1>4. CASE Closing
  BY <1>4 DEF Closing, HandlerClose, HandlerClosed, WaitForward, EnterOnce, AfterClose, CloseOf, clusterVars
<1>5. CASE Watching \/ Signal
  BY <1>5 DEF Watching, HandlerSignal, HandlerExits, EnterOnce, Signal, clusterVars
<1>6. CASE Forwarding \/ ConnectionLost \/ Ended
  BY <1>6 DEF Forwarding, ForwardFails, ForwardReady, ForwardStopped, ConnectionLost, Forwarder,
              clusterVars, Ended, vars
<1>7. CASE \E p \in Pods : PodStarts(p)
  BY <1>7 DEF PodStarts, TypeOK, Pods
<1> QED
  BY <1>1, <1>2, <1>3, <1>4, <1>5, <1>6, <1>7 DEF Next

\* Only the end of its stream takes main out of the session.
LEMMA SessionHeld ==
  ASSUME Plugin, pc = "session", pc' # "session"
  PROVE  StreamEnds
<1> USE DEF Plugin, PluginStep, At, Goto, Return
<1>1. ~Launch
  BY DEF Launch, GetPod, Auth, LaunchAgent, LaunchFork, CreatePod, AwaitRunning, Inspect, GiveUp,
         FindAgent, RunPortForward, AwaitReady, Safe, Chain
<1>2. ~Notifications
  BY DEF Notifications, DeleteFork, CloseStop, TakeAgentBack, RestoreTerminal, Notify
<1>3. ~(Closing \/ Watching \/ Signal)
  BY DEF Closing, Watching, HandlerClose, HandlerClosed, HandlerSignal, HandlerExits, EnterOnce,
         WaitForward, CloseOf, Signal
<1>4. ~(Forwarding \/ ConnectionLost \/ \E p \in Pods : PodStarts(p))
  BY DEF Forwarding, ForwardFails, ForwardReady, ForwardStopped, ConnectionLost, Forwarder, PodStarts
<1> QED
  BY <1>1, <1>2, <1>3, <1>4

\* A watcher is signalled by the signal that is counted with it.
LEMMA SignalsStep ==
  ASSUME TypeOK, SignalsCounted, [Next]_vars
  PROVE  SignalsCounted'
<1> USE DEF SignalsCounted
<1>1. CASE Signal
  BY <1>1 DEF Signal, TypeOK, Handlers
<1>2. CASE ~Signal
  <2>1. UNCHANGED <<watch, signals>>
    <3>1. CASE Launch \/ SessionEnds
      BY <3>1 DEF Launch, GetPod, Auth, LaunchAgent, LaunchFork, CreatePod, AwaitRunning, Inspect,
                  GiveUp, FindAgent, RunPortForward, AwaitReady, Safe, Chain, SessionEnds,
                  mainLeaves, handlerVars
    <3>2. CASE Notifications \/ Closing \/ Watching
      BY <3>2 DEF Notifications, DeleteFork, CloseStop, TakeAgentBack, RestoreTerminal, Notify, Closing,
                  Watching, HandlerClose, HandlerClosed, HandlerSignal, HandlerExits, EnterOnce,
                  WaitForward, mainLeaves
    <3>3. CASE Forwarding \/ ConnectionLost \/ (\E p \in Pods : PodStarts(p)) \/ Ended \/ UNCHANGED vars
      BY <3>3 DEF Forwarding, ForwardFails, ForwardReady, ForwardStopped, ConnectionLost, Forwarder,
                  PodStarts, Ended, vars, handlerVars, mainLeaves
    <3> QED
      BY <1>2, <3>1, <3>2, <3>3 DEF Next
  <2> QED
    BY <2>1
<1> QED
  BY <1>1, <1>2

\* The agent's own steps close the connection only with the answer, which is its
\* last, and open it never.
LEMMA AgentAnswersLast ==
  ASSUME AgentRuns
  PROVE  /\ handler' # "killed" \/ UNCHANGED handler
         /\ conn' = "closed" => conn = "closed" \/ handler' = "ended"
         /\ conn = "closed" => conn' = "closed"
         /\ handler \in {"ended", "killed"} => UNCHANGED handler
<1> USE DEF AgentRuns, AgentStep, Agent!Go, Agent!streams, Agent!session
<1>1. CASE Agent!Handler
  BY <1>1 DEF Agent!Handler, Agent!PullImage, Agent!CreateContainer, Agent!StartContainer,
              Agent!AttachToContainer, Agent!HoldConnection, Agent!WaitContainer, Agent!RmContainer,
              Agent!Respond
<1>2. CASE Agent!StdoutEnds \/ Agent!ContainerExits \/ Agent!Beside(Agent!StdinEnds)
  BY <1>2 DEF Agent!StdoutEnds, Agent!ContainerExits, Agent!Beside, Agent!StdinEnds
<1> QED
  BY <1>1, <1>2

------------------------------------------------------------------------------

\* Both sides start as they do alone.
LEMMA InitSides == SystemInit => Init /\ AgentProofs!Init
  BY DEF SystemInit, Agent!Init, AgentProofs!Init, Agent!StreamsInit, AgentProofs!StreamsInit

\* SystemInv holds when the plugin starts.
LEMMA SystemInitInv == SystemInit => SystemInv
<1> SUFFICES ASSUME SystemInit PROVE SystemInv
  OBVIOUS
<1>1. IInv /\ AgentProofs!IInv
  BY InitSides, InitInv, AgentProofs!InitInv
<1>2. Coupled
  BY DEF SystemInit, Agent!Init, Coupled
<1>3. SignalsCounted /\ request \in {"none", "sent", "cut"}
  BY DEF SystemInit, Init, SignalsCounted
<1> QED
  BY <1>1, <1>2, <1>3 DEF SystemInv

\* Every step preserves SystemInv.  What each side says of itself is its own
\* module's matter; the steps below are about what couples them.
LEMMA SystemStepInv == SystemInv /\ [SystemNext]_systemVars => SystemInv'
<1> SUFFICES ASSUME SystemInv, [SystemNext]_systemVars PROVE SystemInv'
  OBVIOUS
<1> USE DEF SystemInv, Late
<1>1. IInv' /\ AgentProofs!IInv' /\ SignalsCounted'
  BY PluginSide, AgentSide, StepInv, AgentProofs!StepInv, SignalsStep DEF IInv
<1>2. Coupled' /\ request' \in {"none", "sent", "cut"}
  <2>1. CASE Plugin
    <3>1. UNCHANGED <<request, agentVars>>
      BY <2>1 DEF Plugin, PluginStep
    <3>2. pc = "session" /\ pc' # "session" => request = "none" \/ conn = "closed"
      BY <2>1, SessionHeld DEF StreamEnds
    <3>3. CASE request = "none"
      BY <3>1, <3>3 DEF Coupled, agentVars
    <3>4. CASE request # "none"
      <4>1. pc \in Late /\ [Next]_vars
        BY <3>4, PluginSide DEF Coupled
      <4>2. /\ pc' \in Late
            /\ pc # "session" => pc' # "session"
            /\ pods["agent"] = "deleted" => pods'["agent"] = "deleted"
        BY <4>1, LateSteps DEF IInv, vars, clusterVars
      <4> QED
        BY <3>1, <3>2, <4>2 DEF Coupled, agentVars
    <3> QED
      BY <3>3, <3>4
  <2>2. CASE SendRequest
    BY <2>2 DEF SendRequest, Coupled, At, agentVars, vars, clusterVars
  <2>3. CASE AgentRuns
    <3>1. request # "none" /\ UNCHANGED <<vars, request>>
      BY <2>3 DEF AgentRuns, AgentStep
    <3> QED
      BY <2>3, <3>1, AgentAnswersLast DEF Coupled, vars, clusterVars
  <2>4. CASE Disconnect \/ ConnectionFails
    <3>1. /\ request # "none" /\ request' = "cut" /\ UNCHANGED vars /\ UNCHANGED handler
      BY <2>4 DEF Disconnect, ConnectionFails, Cut, Agent!Beside, Agent!session
    <3> QED
      BY <3>1 DEF Coupled, vars, clusterVars
  <2>5. CASE AgentKilled
    <3>1. /\ request # "none" /\ UNCHANGED <<vars, request>> /\ pods["agent"] = "deleted"
          /\ handler' = "killed" /\ conn' = "closed"
      BY <2>5 DEF AgentKilled, AgentStep, Agent!AgentKilled
    <3> QED
      BY <3>1 DEF Coupled, vars, clusterVars
  <2>6. CASE PluginEnded \/ UNCHANGED systemVars
    BY <2>6 DEF PluginEnded, PluginStep, Ended, Coupled, systemVars, vars, clusterVars, agentVars
  <2> QED
    BY <2>1, <2>2, <2>3, <2>4, <2>5, <2>6 DEF SystemNext
<1> QED
  BY <1>1, <1>2

\* SystemInv is an invariant of the system.
THEOREM SystemInvariance == SystemSpec => []SystemInv
  BY SystemInitInv, SystemStepInv, PTL DEF SystemSpec

------------------------------------------------------------------------------

\* The system is a plugin run: whatever the agent does, Run behaves as PluginRun
\* says, and every property proved there holds here.
THEOREM PluginInSystem == SystemSpec => Spec
  BY InitSides, PluginSide, PTL DEF SystemSpec, Spec

\* The system's agent serves a session of DockerSession and keeps the promise of
\* DebugContainer, whatever the plugin does to its connection and to its pod.
THEOREM PromiseInSystem == SystemSpec => Agent!KeepsPromise
<1>1. SystemSpec => AgentProofs!Spec
  BY InitSides, AgentSide, PTL DEF SystemSpec, AgentProofs!Spec
<1>2. AgentProofs!KeepsPromise => Agent!KeepsPromise
  <2> USE DEF Agent!Promise!vars, AgentProofs!Promise!vars
  <2>1. AgentProofs!Promise!Init => Agent!Promise!Init
    BY DEF Agent!Promise!Init, AgentProofs!Promise!Init
  <2>2. [AgentProofs!Promise!Next]_AgentProofs!Promise!vars => [Agent!Promise!Next]_Agent!Promise!vars
    BY DEF Agent!Promise!Next, AgentProofs!Promise!Next,
           Agent!Promise!Create, AgentProofs!Promise!Create,
           Agent!Promise!Start, AgentProofs!Promise!Start,
           Agent!Promise!GiveUp, AgentProofs!Promise!GiveUp,
           Agent!Promise!Close, AgentProofs!Promise!Close,
           Agent!Promise!Exit, AgentProofs!Promise!Exit,
           Agent!Promise!Remove, AgentProofs!Promise!Remove,
           Agent!Promise!End, AgentProofs!Promise!End,
           Agent!Promise!Kill, AgentProofs!Promise!Kill,
           Agent!Promise!GivenUp, AgentProofs!Promise!GivenUp,
           Agent!Promise!Excuse, AgentProofs!Promise!Excuse
  <2> QED
    BY <2>1, <2>2, PTL DEF Agent!KeepsPromise, AgentProofs!KeepsPromise, Agent!Promise!Spec,
                           AgentProofs!Promise!Spec
<1> QED
  BY <1>1, <1>2, AgentProofs!DockerKeepsPromise

\* Both sides and the request keep their types, and the sides stay coupled.
THEOREM SystemTypeCorrect == SystemSpec => []SystemTypeOK
<1>1. AgentProofs!TypeOK => Agent!TypeOK
  BY DEF AgentProofs!TypeOK, Agent!TypeOK, AgentProofs!Types, Agent!Types,
         AgentProofs!ContainerByPlace, Agent!ContainerByPlace,
         AgentProofs!OutputByPlace, Agent!OutputByPlace, AgentProofs!StreamTypes, Agent!StreamTypes,
         AgentProofs!Promise!Containers, Agent!Promise!Containers,
         AgentProofs!Promise!Reasons, Agent!Promise!Reasons
<1>2. SystemInv => SystemTypeOK
  BY <1>1 DEF SystemInv, IInv, AgentProofs!IInv, SystemTypeOK
<1> QED
  BY <1>2, SystemInvariance, PTL

\* The plugin takes its agent back only from a session that is over, without a
\* signal or a cut connection: main leaves the session when the connection has
\* closed, and the agent closes it after it has removed the container.
THEOREM AgentIsLast == SystemSpec => AgentOutlivesSession
<1> DEFINE Deletes == request = "sent" /\ signals = 0 /\ pods["agent"] # "deleted"
                      /\ pods'["agent"] = "deleted"
<1>1. ASSUME SystemInv, [SystemNext]_systemVars, Deletes PROVE handler = "ended" /\ Clean
  <2> USE <1>1 DEF SystemInv, IInv
  <2>1. pc \in Late /\ Next
    BY PluginSide DEF Coupled, vars, clusterVars
  <2>2. TakeAgentBack
    <3>1. ~Launch
      BY <2>1 DEF Late, At, Launch, GetPod, Auth, LaunchAgent, LaunchFork, CreatePod, AwaitRunning,
                  Inspect, GiveUp, FindAgent, RunPortForward, AwaitReady, Safe, Chain
    <3>2. ~(SessionEnds \/ Closing \/ Watching \/ Signal)
      BY DEF SessionEnds, Closing, Watching, HandlerClose, HandlerClosed, HandlerSignal, HandlerExits,
             EnterOnce, WaitForward, Signal, clusterVars
    <3>3. ~(Forwarding \/ ConnectionLost \/ (\E p \in Pods : PodStarts(p)) \/ Ended)
      BY DEF Forwarding, ForwardFails, ForwardReady, ForwardStopped, ConnectionLost, Forwarder,
             PodStarts, Ended, vars, clusterVars, TypeOK, Pods
    <3>4. ~(DeleteFork \/ CloseStop \/ RestoreTerminal)
      BY DEF DeleteFork, DeletePod, CloseStop, RestoreTerminal, clusterVars, TypeOK, Pods
    <3> QED
      BY <2>1, <3>1, <3>2, <3>3, <3>4 DEF Next, Notifications
  <2>3. owner["cleanup"] = "main"
    <3>1. step["cleanup"] = "agent"
      BY <2>2 DEF TakeAgentBack, Notify
    <3>2. watch["cleanup"] # "signalled"
      BY DEF SignalsCounted, Handlers
    <3> QED
      BY <3>1, <3>2 DEF OnceInv, TypeOK, Handlers
  <2>4. handler = "ended"
    BY <2>3 DEF Progress, Coupled
  <2> QED
    BY <2>4 DEF AgentProofs!IInv, AgentProofs!TypeOK, AgentProofs!ContainerByPlace, Clean
<1>2. SystemInv /\ [SystemNext]_systemVars => [Deletes => handler = "ended" /\ Clean]_systemVars
  BY <1>1
<1> QED
  BY <1>2, SystemInvariance, PTL DEF SystemSpec, AgentOutlivesSession
==============================================================================
