------------------------------ MODULE PluginRun ------------------------------
(****************************************************************************)
(* One run of the kubectl plugin: DebugOptions.Run of pkg/plugin/cmd.go,    *)
(* TTY.Safe of pkg/util/term.go and the two nested interrupt handlers they  *)
(* register.  Three kinds of goroutine interleave:                          *)
(*                                                                          *)
(*   - main, at pc, from fetching the target pod to returning from Run;     *)
(*   - the port forwarder, started by runPortForward;                       *)
(*   - one signal watcher per registered interrupt handler.                 *)
(*                                                                          *)
(* The handler "cleanup" is the one of withCleanUp (cmd.go), "restore" the  *)
(* one of TTY.Safe (term.go).  Each runs its notifications under a          *)
(* sync.Once: when main returns (Close), or in the watcher when a signal    *)
(* arrives (Signal), and then the watcher leaves the process by os.Exit(1). *)
(****************************************************************************)
EXTENDS Naturals, FiniteSets

CONSTANT MaxSignals  \* termination signals the user may send in one run

ASSUME MaxSignalsAssumption == MaxSignals \in Nat

VARIABLES
  opt,        \* the options the run was started with
  pc,         \* where main is; it stays there when the process ends
  view,       \* status of the target pod as main last fetched it
  pods,       \* state in the cluster of the pods this run creates
  told,       \* pods the user was asked to look after by hand
  forwarder,  \* the goroutine of runPortForward
  ready,      \* ReadyChannel, which the forwarder closes
  stops,      \* how many times StopChannel was closed
  step,       \* the next notification of each handler
  owner,      \* who entered the sync.Once of each handler
  watch,      \* the signal watcher of each handler
  term,       \* mode of the user's terminal
  result,     \* what the debug session returned
  exit,       \* how the process ended
  signals     \* termination signals sent so far

clusterVars == <<pods, told>>
portVars    == <<forwarder, ready, stops>>
handlerVars == <<step, owner, watch, term>>
vars == <<opt, pc, view, clusterVars, portVars, handlerVars, result, exit, signals>>

Pods     == {"agent", "fork"}
Handlers == {"cleanup", "restore"}

Options == [AgentLess : BOOLEAN, Fork : BOOLEAN, PortForward : BOOLEAN, tty : BOOLEAN]

ContainerStates == {"running", "notRunning", "absent"}

\* What Run reads of a pod: a container name is unique in a pod, so at most one
\* of the two status lists has an entry for it.
Views == {v \in [phase : {"active", "completed"}, container : ContainerStates, init : ContainerStates] :
            v.container = "absent" \/ v.init = "absent"}

Locations == {"getPod", "auth", "createAgent", "awaitAgent", "createFork", "awaitFork",
              "inspect", "findAgent", "startForward", "awaitReady", "safe", "raw",
              "chained", "session", "closeCleanup", "closeRestore", "waitForward", "giveUp"}

Steps == {"idle", "fork", "stop", "agent", "restore", "done"}
StepsOf(h) == IF h = "cleanup" THEN Steps \ {"restore"} ELSE {"idle", "restore", "done"}

\* Every variable has its type: among others, each handler runs notifications of
\* its own list.
TypeOK ==
  /\ opt \in Options
  /\ pc \in Locations
  /\ view \in Views
  /\ pods \in [Pods -> {"absent", "pending", "running", "deleted"}]
  /\ told \subseteq Pods
  /\ forwarder \in {"idle", "dialing", "signalling", "forwarding", "done"}
  /\ ready \in {"open", "closed"}
  /\ stops \in Nat
  /\ step \in [Handlers -> Steps]
  /\ \A h \in Handlers : step[h] \in StepsOf(h)
  /\ owner \in [Handlers -> {"nobody", "main", "watcher"}]
  /\ watch \in [Handlers -> {"waiting", "signalled"}]
  /\ term \in {"cooked", "raw"}
  /\ result \in {"ok", "error"}
  /\ exit \in {"none", "ok", "error", "signal", "killed"}
  /\ signals \in 0 .. MaxSignals

Init ==
  /\ opt \in Options
  /\ pc = "getPod"
  /\ view = [phase |-> "active", container |-> "absent", init |-> "absent"]
  /\ pods = [p \in Pods |-> "absent"]
  /\ told = {}
  /\ forwarder = "idle"
  /\ ready = "open"
  /\ stops = 0
  /\ step = [h \in Handlers |-> "idle"]
  /\ owner = [h \in Handlers |-> "nobody"]
  /\ watch = [h \in Handlers |-> "waiting"]
  /\ term = "cooked"
  /\ result = "ok"
  /\ exit = "none"
  /\ signals = 0

------------------------------------------------------------------------------
\* Main, from the target pod to the session.

Alive    == exit = "none"
At(here) == Alive /\ pc = here
Goto(there) == pc' = there /\ UNCHANGED exit
Return(how) == exit' = how /\ UNCHANGED pc

\* What a step of main that touches neither the forwarder nor a handler leaves alone.
mainLeaves == <<opt, forwarder, ready, stops, step, owner, watch, result, signals>>

AfterAgent == IF opt.Fork THEN "createFork" ELSE "inspect"
AfterAuth  == IF opt.AgentLess THEN "createAgent" ELSE AfterAgent

GetPod ==
  /\ At("getPod")
  /\ \/ Return("error") /\ UNCHANGED view
     \/ Goto("auth") /\ view' \in Views
  /\ UNCHANGED <<mainLeaves, clusterVars, term>>

Auth ==
  /\ At("auth")
  /\ Return("error") \/ Goto(AfterAuth)
  /\ UNCHANGED <<mainLeaves, view, clusterVars, term>>

\* The user is told of the pod that did not start; only a failed fork has an
\* agent pod to take back.
LaunchFailed(p) ==
  /\ told' = told \cup {p}
  /\ IF p = "agent" THEN Return("error") ELSE Goto("giveUp")

\* A failed create request may have created the pod: its reply was lost.
CreatePod(p, from, to) ==
  /\ At(from)
  /\ \/ /\ pods' = [pods EXCEPT ![p] = "pending"]
        /\ Goto(to)
        /\ UNCHANGED told
     \/ /\ pods' \in {pods, [pods EXCEPT ![p] = "pending"]}
        /\ LaunchFailed(p)
  /\ UNCHANGED <<mainLeaves, view, term>>

\* The watch returns the running pod, or fails: five minutes passed, the watch
\* was closed, the pod ended.  From here on the forked pod is the target.
AwaitRunning(p, from, to) ==
  /\ At(from)
  /\ \/ /\ pods[p] = "running"
        /\ Goto(to)
        /\ view' \in IF p = "fork" THEN {v \in Views : v.phase = "active"} ELSE {view}
        /\ UNCHANGED told
     \/ LaunchFailed(p) /\ UNCHANGED view
  /\ UNCHANGED <<mainLeaves, pods, term>>

LaunchAgent == \/ CreatePod("agent", "createAgent", "awaitAgent")
               \/ AwaitRunning("agent", "awaitAgent", AfterAgent)
LaunchFork  == \/ CreatePod("fork", "createFork", "awaitFork")
               \/ AwaitRunning("fork", "awaitFork", "inspect")

\* getContainerIDByName: the containers' statuses first, then the init ones.
HasContainerID(v) ==
  IF v.container # "absent" THEN v.container = "running" ELSE v.init = "running"

Inspect ==
  /\ At("inspect")
  /\ IF view.phase = "completed" \/ ~HasContainerID(view) THEN Goto("giveUp")
     ELSE Goto(IF opt.PortForward THEN "findAgent" ELSE "safe")
  /\ UNCHANGED <<mainLeaves, view, clusterVars, term>>

\* The request may be lost on its way back, and then the user is told of a pod
\* that is gone.
DeletePod(p) ==
  \E accepted, answered \in BOOLEAN :
    /\ answered => accepted
    /\ pods' = IF accepted THEN [pods EXCEPT ![p] = "deleted"] ELSE pods
    /\ told' = IF answered THEN told ELSE told \cup {p}

\* deleteAgent: a no-op unless the run brought its own agent.
DeleteAgent == IF opt.AgentLess THEN DeletePod("agent") ELSE UNCHANGED clusterVars

\* Mutated GiveUp: an early return that forgets the agent pod.
GiveUpForgetsAgent ==
  /\ At("giveUp")
  /\ Return("error")
  /\ UNCHANGED <<mainLeaves, view, clusterVars, term>>

\* The early returns that take the agent pod back (and never the forked pod).
GiveUp ==
  /\ At("giveUp")
  /\ DeleteAgent
  /\ Return("error")
  /\ UNCHANGED <<mainLeaves, view, term>>

\* Without an agent of its own the run looks for the daemonset's pod on the
\* target's node, and returns at once when the lookup finds none.
FindAgent ==
  /\ At("findAgent")
  /\ \/ ~opt.AgentLess /\ Return("error")
     \/ Goto("startForward")
  /\ UNCHANGED <<mainLeaves, view, clusterVars, term>>

\* runPortForward: only a daemonset's agent can be found not running.
RunPortForward ==
  /\ At("startForward")
  /\ \/ Goto("awaitReady") /\ forwarder' = "dialing"
     \/ ~opt.AgentLess /\ Goto("giveUp") /\ UNCHANGED forwarder
  /\ UNCHANGED <<opt, view, clusterVars, ready, stops, handlerVars, result, signals>>

\* <-ReadyChannel: closed by the forwarder, or sent to by one that failed.
AwaitReady ==
  /\ At("awaitReady")
  /\ \/ ready = "closed" /\ UNCHANGED forwarder
     \/ forwarder = "signalling" /\ forwarder' = "done"
  /\ Goto("safe")
  /\ UNCHANGED <<opt, view, clusterVars, ready, stops, handlerVars, result, signals>>

\* TTY.Safe: without a terminal only the handler of withCleanUp is registered.
Safe ==
  /\ At("safe")
  /\ \/ ~opt.tty /\ Goto("session") /\ UNCHANGED term
     \/ opt.tty /\ Goto("raw") /\ term' = "raw"
     \/ opt.tty /\ Return("error") /\ UNCHANGED term
  /\ UNCHANGED <<mainLeaves, view, clusterVars>>

\* The handlers are registered one after the other, the terminal's first.
Chain ==
  /\ \/ At("raw") /\ Goto("chained")
     \/ At("chained") /\ Goto("session")
  /\ UNCHANGED <<mainLeaves, view, clusterVars, term>>

\* Mutated SessionEnds: the session closes StopChannel when it ends.
SessionEndsForwarding ==
  /\ At("session")
  /\ result' \in {"ok", "error"}
  /\ stops' = IF opt.PortForward THEN stops + 1 ELSE stops
  /\ Goto("closeCleanup")
  /\ UNCHANGED <<opt, view, clusterVars, forwarder, ready, handlerVars, signals>>

\* fn and remoteExecute: the secret, the request, and the streams until they end.
SessionEnds ==
  /\ At("session")
  /\ result' \in {"ok", "error"}
  /\ Goto("closeCleanup")
  /\ UNCHANGED <<opt, view, clusterVars, portVars, handlerVars, signals>>

------------------------------------------------------------------------------
\* The interrupt handlers.

Registered(h) ==
  IF h = "cleanup" THEN pc \in {"session", "closeCleanup"}
  ELSE opt.tty /\ pc \in {"chained", "session", "closeCleanup", "closeRestore"}

CloseOf(h) == IF h = "cleanup" THEN "closeCleanup" ELSE "closeRestore"
FirstOf(h) == IF h = "cleanup" THEN "fork" ELSE "restore"

\* sync.Once: the first caller runs the notifications, the others wait for it.
EnterOnce(h, who) ==
  /\ owner[h] = "nobody"
  /\ owner' = [owner EXCEPT ![h] = who]
  /\ step' = [step EXCEPT ![h] = FirstOf(h)]
  /\ UNCHANGED <<opt, pc, view, clusterVars, portVars, watch, term, result, exit, signals>>

HandlerClose(h)  == At(CloseOf(h)) /\ EnterOnce(h, "main")
HandlerSignal(h) == Alive /\ watch[h] = "signalled" /\ EnterOnce(h, "watcher")

Notify(h, now, next) ==
  /\ Alive
  /\ step[h] = now
  /\ step' = [step EXCEPT ![h] = next]
  /\ UNCHANGED <<opt, pc, view, forwarder, ready, owner, watch, result, exit, signals>>

\* Mutated DeleteFork: a failed deletion is not reported.
DeleteForkQuietly ==
  /\ Notify("cleanup", "fork", "stop")
  /\ IF opt.Fork THEN \E deleted \in {pods["fork"], "deleted"} : pods' = [pods EXCEPT !["fork"] = deleted]
     ELSE UNCHANGED pods
  /\ UNCHANGED <<told, stops, term>>

DeleteFork ==
  /\ Notify("cleanup", "fork", "stop")
  /\ IF opt.Fork THEN DeletePod("fork") ELSE UNCHANGED clusterVars
  /\ UNCHANGED <<stops, term>>

\* Mutated CloseStop: the port-forward is never told to stop.
CloseStopSkipped ==
  /\ Notify("cleanup", "stop", "agent")
  /\ UNCHANGED <<clusterVars, stops, term>>

CloseStop ==
  /\ Notify("cleanup", "stop", "agent")
  /\ stops' = IF opt.PortForward THEN stops + 1 ELSE stops
  /\ UNCHANGED <<clusterVars, term>>

\* Mutated TakeAgentBack: the deletion has slipped into the block of the port-forward.
TakeAgentBackForwarded ==
  /\ Notify("cleanup", "agent", "done")
  /\ IF opt.PortForward THEN DeleteAgent ELSE UNCHANGED clusterVars
  /\ UNCHANGED <<stops, term>>

TakeAgentBack ==
  /\ Notify("cleanup", "agent", "done")
  /\ DeleteAgent
  /\ UNCHANGED <<stops, term>>

\* Mutated RestoreTerminal: the notifications of both handlers are in one list.
RestoreTerminalFirst ==
  /\ Notify("restore", "restore", "fork")
  /\ term' = "cooked"
  /\ UNCHANGED <<clusterVars, stops>>

RestoreTerminal ==
  /\ Notify("restore", "restore", "done")
  /\ term' = "cooked"
  /\ UNCHANGED <<clusterVars, stops>>

AfterClose(h) == IF h = "cleanup" /\ opt.tty THEN "closeRestore" ELSE "waitForward"

\* Main leaves Handler.Run of h: the notifications have run, by its own hand.
HandlerClosed(h) ==
  /\ At(CloseOf(h))
  /\ owner[h] = "main"
  /\ step[h] = "done"
  /\ Goto(AfterClose(h))
  /\ UNCHANGED <<mainLeaves, view, clusterVars, term>>

\* A watcher that ran the notifications ends the process: both handlers are
\* chained to no parent, so neither waits for the other.
HandlerExits(h) ==
  /\ Alive
  /\ owner[h] = "watcher"
  /\ step[h] = "done"
  /\ Return("signal")
  /\ UNCHANGED <<mainLeaves, view, clusterVars, term>>

\* o.wait.Wait(), skipped when the session returned an error.
WaitForward ==
  /\ At("waitForward")
  /\ \/ result = "error" /\ Return("error")
     \/ result = "ok" /\ forwarder \in {"idle", "done"} /\ Return("ok")
  /\ UNCHANGED <<mainLeaves, view, clusterVars, term>>

\* A termination signal reaches the watcher of every registered handler, and
\* kills a process that has none.
Signal ==
  /\ Alive
  /\ signals < MaxSignals
  /\ signals' = signals + 1
  /\ IF \E h \in Handlers : Registered(h)
     THEN /\ watch' = [h \in Handlers |-> IF Registered(h) THEN "signalled" ELSE watch[h]]
          /\ UNCHANGED exit
     ELSE exit' = "killed" /\ UNCHANGED watch
  /\ UNCHANGED <<opt, pc, view, clusterVars, portVars, step, owner, term, result>>

------------------------------------------------------------------------------
\* The port forwarder and the cluster.

Forwarder(from, to) ==
  /\ Alive
  /\ forwarder = from
  /\ forwarder' = to
  /\ UNCHANGED <<opt, pc, view, clusterVars, stops, handlerVars, result, exit, signals>>

\* Mutated ForwardFails: a failed forwarder ends without the ready signal.
ForwardFailsQuietly == Forwarder("dialing", "done") /\ UNCHANGED ready

ForwardFails   == Forwarder("dialing", "signalling") /\ UNCHANGED ready
ForwardReady   == Forwarder("dialing", "forwarding") /\ ready' = "closed"
ForwardStopped == stops > 0 /\ Forwarder("forwarding", "done") /\ UNCHANGED ready
ConnectionLost == Forwarder("forwarding", "done") /\ UNCHANGED ready

PodStarts(p) ==
  /\ Alive
  /\ pods[p] = "pending"
  /\ pods' = [pods EXCEPT ![p] = "running"]
  /\ UNCHANGED <<mainLeaves, pc, view, told, term, exit>>

\* The process has ended.
Ended == ~Alive /\ UNCHANGED vars

------------------------------------------------------------------------------

Launch   == GetPod \/ Auth \/ LaunchAgent \/ LaunchFork \/ Inspect \/ GiveUp
            \/ FindAgent \/ RunPortForward \/ AwaitReady \/ Safe \/ Chain
Notifications == DeleteFork \/ CloseStop \/ TakeAgentBack \/ RestoreTerminal
Closing  == \/ \E h \in Handlers : HandlerClose(h) \/ HandlerClosed(h)
            \/ WaitForward
Watching == \E h \in Handlers : HandlerSignal(h) \/ HandlerExits(h)
Forwarding == ForwardFails \/ ForwardReady \/ ForwardStopped

Next ==
  \/ Launch \/ SessionEnds \/ Notifications \/ Closing \/ Watching \/ Signal
  \/ Forwarding \/ ConnectionLost
  \/ \E p \in Pods : PodStarts(p)
  \/ Ended

\* The Go scheduler runs every goroutine that can run, every request to the API
\* server is answered or fails, and the watch for a pod ends after five minutes.
\* Nothing obliges the user to end the session or to send a signal, the
\* connection to be lost, or a pod to start.
Fairness ==
  /\ WF_vars(Launch \/ Closing)
  /\ WF_vars(DeleteFork \/ CloseStop \/ TakeAgentBack)
  /\ WF_vars(RestoreTerminal)
  /\ \A h \in Handlers : WF_vars(HandlerSignal(h) \/ HandlerExits(h))
  /\ WF_vars(Forwarding)

Spec     == Init /\ [][Next]_vars
FairSpec == Spec /\ Fairness

------------------------------------------------------------------------------
\* Properties.

Accounted(p) == pods[p] \in {"absent", "deleted"} \/ p \in told

\* StopChannel is closed at most once (a second close panics), although main
\* and the watcher may both come to the cleanup of withCleanUp.
StopClosedOnce == stops <= 1

\* When Run returns after the session, whatever the signals in flight, no pod
\* of this run is left that the user was not told of, the port-forward was told
\* to stop and the terminal is back in its mode.
ReturnCleansUp ==
  exit \in {"ok", "error"} /\ pc = "waitForward" =>
    /\ \A p \in Pods : Accounted(p)
    /\ opt.PortForward => stops = 1
    /\ term = "cooked"

\* Every return of Run accounts for the agent pod it launched, except the one
\* for a terminal that cannot be put in raw mode.
AgentAccounted ==
  exit \in {"ok", "error"} /\ pc # "safe" => Accounted("agent")

\* Without a terminal there is one handler, and a signal during the session
\* cleans up all there is before the process ends.
CancelCleansUp ==
  exit = "signal" /\ ~opt.tty =>
    /\ \A p \in Pods : Accounted(p)
    /\ opt.PortForward => stops = 1

\* A pod is deleted under a running session only because a signal came, and the
\* agent's only after the forwarder to it was told to stop.
DeletesInOrder ==
  [][\A p \in Pods : pods[p] # "deleted" /\ pods'[p] = "deleted" =>
       /\ pc = "session" => watch["cleanup"] = "signalled"
       /\ p = "agent" /\ forwarder = "forwarding" => stops > 0]_vars

\* Run ends or reaches the session: main never waits for ever for a pod, for the
\* forwarder's ready signal or for the Once of a handler.
LaunchSettles == <>(~Alive \/ pc = "session")

\* Once the session has ended, or a signal was delivered, the process ends.
Ends == (pc = "closeCleanup" \/ \E h \in Handlers : watch[h] = "signalled") ~> ~Alive

\* cmd.go says of withCleanUp that it ensures that the forked pod is deleted on
\* cancelation: of a session whose handler was there to hear of it.
ForkDeletedOnCancel ==
  exit = "signal" /\ watch["cleanup"] = "signalled" => Accounted("fork")
==============================================================================
