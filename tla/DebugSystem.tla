----------------------------- MODULE DebugSystem -----------------------------
(****************************************************************************)
(* A debug session from one end to the other: the plugin of PluginRun on    *)
(* the user's machine and the agent of DockerSession on the node, with what *)
(* couples them: the request, the connection it becomes, the port-forward   *)
(* under it, and the agent's pod, which the plugin deletes and in which the *)
(* agent lives.                                                             *)
(*                                                                          *)
(* Beyond the two modules it says when the request can be sent, when the    *)
(* plugin's session can end, what cuts the connection and what kills the    *)
(* agent.  An agent of a daemonset is nobody's to delete.                   *)
(****************************************************************************)
EXTENDS PluginRun

CONSTANT Scenarios  \* the options with which the plugin is run

ASSUME ScenariosAssumption == Scenarios \subseteq Options

VARIABLES
  request,    \* has it been sent, and was its connection cut
  handler, image, container, excuses, conn, stdin, stdout, events, resizer

\* The agent's handler of the request is at "pull" until the request arrives.
Agent == INSTANCE DockerSession WITH pc <- handler

agentVars  == <<handler, image, container, excuses, conn, stdin, stdout, events, resizer>>
systemVars == <<vars, request, agentVars>>

\* Where main is from the session on.
Late == {"session", "closeCleanup", "closeRestore", "waitForward"}

\* What the two sides know of each other.  The agent's handler waits for the
\* request, and only main in its session sends one; while nobody cuts the
\* connection the agent alone closes it, at its end, and main leaves the session
\* only then; the agent dies with its pod.
Coupled ==
  /\ request = "none" => handler = "pull" /\ conn = "open"
  /\ request # "none" => pc \in Late
  /\ request = "sent" /\ conn = "closed" => handler \in {"ended", "killed"}
  /\ request = "sent" /\ pc # "session" => conn = "closed"
  /\ handler = "killed" => pods["agent"] = "deleted"

\* Every variable of both sides has its type, and the two sides agree on where the
\* request is: no plugin goes on beside an agent at work but by a cut connection,
\* and no agent serves or dies for a plugin that did not ask or did not delete it.
SystemTypeOK ==
  /\ TypeOK
  /\ Agent!TypeOK
  /\ request \in {"none", "sent", "cut"}
  /\ Coupled

SystemInit ==
  /\ Init
  /\ opt \in Scenarios
  /\ request = "none"
  /\ Agent!Init
  /\ conn = "open"

------------------------------------------------------------------------------

\* ForwardPorts has failed, and main went on in case the port was already
\* forwarded: by another run, then, and to the agent of a daemonset, since nobody
\* else knows the pod of an agent that this run has launched.
AlreadyForwarded == ~opt.AgentLess /\ forwarder = "done" /\ ready = "open"

\* The plugin reaches its own agent when its pod runs, that of a daemonset when
\* it is there, and either through a port-forward if one was asked for.
SendRequest ==
  /\ At("session")
  /\ request = "none"
  /\ opt.AgentLess => pods["agent"] = "running"
  /\ opt.PortForward => forwarder = "forwarding" \/ AlreadyForwarded
  /\ request' = "sent"
  /\ UNCHANGED <<vars, agentVars>>

\* Mutated StreamEnds: main does not wait for the end of the stream.
StreamEndsAtOnce == SessionEnds

\* Mutated StreamEnds: the session ends with its input, as a pipe's would.
StreamEndsWithInput ==
  /\ request = "none" \/ conn = "closed" \/ stdin = "done"
  /\ SessionEnds

\* exec.Stream returns without having sent the request, or when the connection
\* has closed.
StreamEnds ==
  /\ request = "none" \/ conn = "closed"
  /\ SessionEnds

PluginStep(A) == A /\ UNCHANGED <<request, agentVars>>

Plugin ==
  PluginStep(\/ Launch \/ StreamEnds \/ Notifications \/ Closing \/ Watching
             \/ Signal \/ Forwarding \/ ConnectionLost
             \/ \E p \in Pods : PodStarts(p))

AgentStep(A) ==
  /\ request # "none"
  /\ A
  /\ UNCHANGED <<vars, request>>

\* Nobody resizes the terminal here: the goroutines of its sizes stay as they are.
AgentRuns ==
  AgentStep(\/ Agent!Handler \/ Agent!StdoutEnds \/ Agent!ContainerExits
            \/ Agent!Beside(Agent!StdinEnds))

Cut ==
  /\ request # "none"
  /\ Agent!Beside(Agent!ClientLeaves)
  /\ request' = "cut"
  /\ UNCHANGED vars

\* The connection goes with the process or the port-forward at its other end ...
Disconnect ==
  /\ ~Alive \/ (ready = "closed" /\ forwarder = "done")
  /\ Cut

\* ... or is lost: the network fails, another's port-forward ends, or the agent has
\* seen it idle for too long.
ConnectionFails == Cut

\* The grace period is 0: the agent is killed wherever it is.
AgentKilled ==
  /\ opt.AgentLess
  /\ pods["agent"] = "deleted"
  /\ AgentStep(Agent!AgentKilled)

\* The plugin has ended; the agent may still have something to do.
PluginEnded == PluginStep(Ended)

SystemNext ==
  Plugin \/ SendRequest \/ AgentRuns \/ Disconnect \/ ConnectionFails \/ AgentKilled \/ PluginEnded

------------------------------------------------------------------------------
\* The fairness of the two modules, the plugin's session ends when its
\* connection has, and a dead end of the connection is noticed at the other.

SystemFairness ==
  /\ WF_systemVars(PluginStep(Launch \/ Closing))
  /\ WF_systemVars(PluginStep(request # "none" /\ StreamEnds))
  /\ WF_systemVars(PluginStep(DeleteFork \/ CloseStop \/ TakeAgentBack))
  /\ WF_systemVars(PluginStep(RestoreTerminal))
  /\ \A h \in Handlers : WF_systemVars(PluginStep(HandlerSignal(h) \/ HandlerExits(h)))
  /\ WF_systemVars(PluginStep(Forwarding))
  /\ WF_systemVars(Disconnect)
  /\ WF_systemVars(AgentStep(Agent!Handler))
  /\ WF_systemVars(AgentStep(Agent!StdoutDrained))
  /\ WF_systemVars(AgentStep(conn = "closed" /\ Agent!Beside(Agent!StdinEnds)))

SystemSpec     == SystemInit /\ [][SystemNext]_systemVars
FairSystemSpec == SystemSpec /\ SystemFairness

------------------------------------------------------------------------------
\* Properties.

Clean == container \in {"none", "removed"} \/ excuses # {}

\* The plugin deletes the agent's pod under a request only when the agent has
\* finished with it and left nothing, unless a signal came or the connection was
\* cut: the agent answers last, and the plugin waits for its answer.
AgentOutlivesSession ==
  [][ request = "sent" /\ signals = 0 /\ pods["agent"] # "deleted" /\ pods'["agent"] = "deleted" =>
        handler = "ended" /\ Clean ]_systemVars

\* The end of the session reaches the user: once its program has exited, or its
\* connection has closed, the plugin ends too, by way of both handlers and of the
\* port-forward, and of the container's removal and the answer when it can.
EndReachesUser ==
  (request # "none" /\ (container = "exited" \/ conn = "closed")) ~> ~Alive

\* However the plugin ends, killed in the middle of a session or of the launch of
\* its container, an agent of a daemonset finishes the session it was asked for.
DaemonFinishes ==
  (~Alive /\ ~opt.AgentLess /\ request # "none") ~> (handler = "ended" /\ Clean)

\* README.md says that after the user exits the debug container is deleted, and
\* the agent's pod at last: its deletion finds no debug container that only this
\* agent would have removed.
AgentDeletedLast == handler = "killed" => Clean
==============================================================================
