--------------------------- MODULE PluginRunProofs ---------------------------
(****************************************************************************)
(* The safety properties of PluginRun, for any number of signals.           *)
(*                                                                          *)
(* None of them is inductive.  What makes them true is where main can be    *)
(* while a handler is at a notification, and which pods can exist before    *)
(* the cleanup has run: Progress, PodsByPlace and the rest of IInv.         *)
(****************************************************************************)
EXTENDS PluginRun, TLAPS

\* A handler is at a notification once somebody has entered its Once; a watcher
\* enters it only when signalled.
OnceInv ==
  \A h \in Handlers :
    /\ owner[h] = "nobody" <=> step[h] = "idle"
    /\ owner[h] = "watcher" => watch[h] = "signalled"

\* Where main can be when a handler was signalled or has begun.
Progress ==
  /\ watch["cleanup"] = "signalled" \/ step["cleanup"] # "idle" =>
       pc \in {"session", "closeCleanup", "closeRestore", "waitForward"}
  /\ watch["restore"] = "signalled" \/ step["restore"] # "idle" =>
       /\ opt.tty
       /\ pc \in {"chained", "session", "closeCleanup", "closeRestore", "waitForward"}
  /\ owner["cleanup"] = "main" => pc \in {"closeCleanup", "closeRestore", "waitForward"}
  /\ pc \in {"raw", "chained", "closeRestore"} => opt.tty
  /\ pc \in {"closeRestore", "waitForward"} => step["cleanup"] = "done"
  /\ pc = "waitForward" /\ opt.tty => step["restore"] = "done"

\* StopChannel is closed by one notification, which runs once.
StopInv ==
  stops = IF opt.PortForward /\ step["cleanup"] \in {"agent", "done"} THEN 1 ELSE 0

\* The forwarder starts after the last early return that deletes the agent pod,
\* and only when it was asked for.
ForwardInv ==
  /\ pc \in {"findAgent", "startForward"} => opt.PortForward
  /\ forwarder # "idle" =>
       /\ opt.PortForward
       /\ pc \in {"awaitReady", "safe", "raw", "chained", "session",
                 "closeCleanup", "closeRestore", "waitForward"}

\* The terminal is raw only between MakeRaw and the handler that restores it.
TermInv ==
  term = "raw" =>
    opt.tty /\ pc \in {"raw", "chained", "session", "closeCleanup", "closeRestore", "waitForward"}
            /\ step["restore"] # "done"

\* Which pods there can be at each place.
PodsByPlace ==
  /\ pc \in {"createAgent", "awaitAgent"} => opt.AgentLess
  /\ pc \in {"createFork", "awaitFork"} => opt.Fork
  /\ ~opt.Fork => pods["fork"] = "absent"
  /\ ~opt.AgentLess \/ pc \in {"getPod", "auth"} => pods["agent"] = "absent"
  /\ step["cleanup"] \in {"stop", "agent", "done"} => Accounted("fork")
  /\ step["cleanup"] = "done" => Accounted("agent")

\* A watcher leaves the process after its handler's notifications.
SignalInv == exit = "signal" => \E h \in Handlers : owner[h] = "watcher" /\ step[h] = "done"

IInv == /\ TypeOK /\ OnceInv /\ Progress /\ StopInv /\ ForwardInv /\ TermInv
        /\ PodsByPlace /\ SignalInv /\ AgentAccounted

------------------------------------------------------------------------------

\* IInv holds when Run starts.
LEMMA InitInv == Init => IInv
<1> SUFFICES ASSUME Init PROVE IInv
  OBVIOUS
<1> USE DEF Init
<1>1. TypeOK
  <2>1. view \in Views
    BY DEF Views, ContainerStates
  <2> QED
    BY <2>1, MaxSignalsAssumption DEF TypeOK, Locations, Pods, Handlers, Steps, StepsOf
<1>2. OnceInv /\ Progress /\ StopInv /\ ForwardInv
  BY DEF OnceInv, Progress, StopInv, ForwardInv, Handlers
<1>3. TermInv /\ PodsByPlace /\ SignalInv /\ AgentAccounted
  BY DEF TermInv, PodsByPlace, SignalInv, AgentAccounted, Accounted, Pods
<1> QED
  BY <1>1, <1>2, <1>3 DEF IInv

\* Every step preserves IInv.  The steps of main before the session leave the
\* handlers alone; the steps of the handlers leave main where it is.
LEMMA StepInv == IInv /\ [Next]_vars => IInv'
<1> SUFFICES ASSUME IInv, [Next]_vars PROVE IInv'
  OBVIOUS
<1> USE DEF IInv, At, Alive, clusterVars, portVars, handlerVars, mainLeaves
<1>1. ASSUME GetPod PROVE IInv'
  <2> USE <1>1 DEF GetPod, Goto, Return, vars
  <2>1. TypeOK'
    BY DEF TypeOK, Pods, Handlers, Steps, StepsOf, Locations
  <2>2. OnceInv' /\ StopInv' /\ ForwardInv' /\ Progress' /\ TermInv'
    BY DEF TypeOK, OnceInv, StopInv, ForwardInv, Progress, TermInv, Handlers, Steps
  <2>3. PodsByPlace' /\ SignalInv' /\ AgentAccounted'
    BY DEF TypeOK, PodsByPlace, SignalInv, AgentAccounted, Accounted, Progress, Handlers, Pods
  <2> QED
    BY <2>1, <2>2, <2>3
<1>2. ASSUME Auth PROVE IInv'
  <2> USE <1>2 DEF Auth, Goto, Return, AfterAuth, AfterAgent, vars
  <2>1. TypeOK'
    BY DEF TypeOK, Pods, Handlers, Steps, StepsOf, Locations
  <2>2. OnceInv' /\ StopInv' /\ ForwardInv' /\ Progress' /\ TermInv'
    BY DEF TypeOK, OnceInv, StopInv, ForwardInv, Progress, TermInv, Handlers, Steps
  <2>3. PodsByPlace' /\ SignalInv' /\ AgentAccounted'
    BY DEF TypeOK, PodsByPlace, SignalInv, AgentAccounted, Accounted, Progress, Handlers, Pods
  <2> QED
    BY <2>1, <2>2, <2>3
<1>3. ASSUME LaunchAgent PROVE IInv'
  <2> USE <1>3 DEF LaunchAgent, CreatePod, AwaitRunning, LaunchFailed, Goto, Return, AfterAgent, vars
  <2>1. TypeOK'
    BY DEF TypeOK, Pods, Handlers, Steps, StepsOf, Locations
  <2>2. OnceInv' /\ StopInv' /\ ForwardInv' /\ Progress' /\ TermInv'
    BY DEF TypeOK, OnceInv, StopInv, ForwardInv, Progress, TermInv, Handlers, Steps
  <2>3. PodsByPlace' /\ SignalInv' /\ AgentAccounted'
    BY DEF TypeOK, PodsByPlace, SignalInv, AgentAccounted, Accounted, Progress, Handlers, Pods
  <2> QED
    BY <2>1, <2>2, <2>3
<1>4. ASSUME LaunchFork PROVE IInv'
  <2> USE <1>4 DEF LaunchFork, CreatePod, AwaitRunning, LaunchFailed, Goto, Return, vars
  <2>1. TypeOK'
    BY DEF TypeOK, Pods, Handlers, Steps, StepsOf, Locations
  <2>2. OnceInv' /\ StopInv' /\ ForwardInv' /\ Progress' /\ TermInv'
    BY DEF TypeOK, OnceInv, StopInv, ForwardInv, Progress, TermInv, Handlers, Steps
  <2>3. PodsByPlace' /\ SignalInv' /\ AgentAccounted'
    BY DEF TypeOK, PodsByPlace, SignalInv, AgentAccounted, Accounted, Progress, Handlers, Pods
  <2> QED
    BY <2>1, <2>2, <2>3
<1>5. ASSUME Inspect PROVE IInv'
  <2> USE <1>5 DEF Inspect, Goto, vars
  <2>1. TypeOK'
    BY DEF TypeOK, Pods, Handlers, Steps, StepsOf, Locations
  <2>2. OnceInv' /\ StopInv' /\ ForwardInv' /\ Progress' /\ TermInv'
    BY DEF TypeOK, OnceInv, StopInv, ForwardInv, Progress, TermInv, Handlers, Steps
  <2>3. PodsByPlace' /\ SignalInv' /\ AgentAccounted'
    BY DEF TypeOK, PodsByPlace, SignalInv, AgentAccounted, Accounted, Progress, Handlers, Pods
  <2> QED
    BY <2>1, <2>2, <2>3
<1>6. ASSUME GiveUp PROVE IInv'
  <2> USE <1>6 DEF GiveUp, DeleteAgent, DeletePod, Return, vars
  <2>1. TypeOK'
    BY DEF TypeOK, Pods, Handlers, Steps, StepsOf, Locations
  <2>2. OnceInv' /\ StopInv' /\ ForwardInv' /\ Progress' /\ TermInv'
    BY DEF TypeOK, OnceInv, StopInv, ForwardInv, Progress, TermInv, Handlers, Steps
  <2>3. PodsByPlace' /\ SignalInv' /\ AgentAccounted'
    BY DEF TypeOK, PodsByPlace, SignalInv, AgentAccounted, Accounted, Progress, Handlers, Pods
  <2> QED
    BY <2>1, <2>2, <2>3
<1>7. ASSUME FindAgent PROVE IInv'
  <2> USE <1>7 DEF FindAgent, Goto, Return, vars
  <2>1. TypeOK'
    BY DEF TypeOK, Pods, Handlers, Steps, StepsOf, Locations
  <2>2. OnceInv' /\ StopInv' /\ ForwardInv' /\ Progress' /\ TermInv'
    BY DEF TypeOK, OnceInv, StopInv, ForwardInv, Progress, TermInv, Handlers, Steps
  <2>3. PodsByPlace' /\ SignalInv' /\ AgentAccounted'
    BY DEF TypeOK, PodsByPlace, SignalInv, AgentAccounted, Accounted, Progress, Handlers, Pods
  <2> QED
    BY <2>1, <2>2, <2>3
<1>8. ASSUME RunPortForward PROVE IInv'
  <2> USE <1>8 DEF RunPortForward, Goto, vars
  <2>1. TypeOK'
    BY DEF TypeOK, Pods, Handlers, Steps, StepsOf, Locations
  <2>2. OnceInv' /\ StopInv' /\ ForwardInv' /\ Progress' /\ TermInv'
    BY DEF TypeOK, OnceInv, StopInv, ForwardInv, Progress, TermInv, Handlers, Steps
  <2>3. PodsByPlace' /\ SignalInv' /\ AgentAccounted'
    BY DEF TypeOK, PodsByPlace, SignalInv, AgentAccounted, Accounted, Progress, Handlers, Pods
  <2> QED
    BY <2>1, <2>2, <2>3
<1>9. ASSUME AwaitReady PROVE IInv'
  <2> USE <1>9 DEF AwaitReady, Goto, vars
  <2>1. TypeOK'
    BY DEF TypeOK, Pods, Handlers, Steps, StepsOf, Locations
  <2>2. OnceInv' /\ StopInv' /\ ForwardInv' /\ Progress' /\ TermInv'
    BY DEF TypeOK, OnceInv, StopInv, ForwardInv, Progress, TermInv, Handlers, Steps
  <2>3. PodsByPlace' /\ SignalInv' /\ AgentAccounted'
    BY DEF TypeOK, PodsByPlace, SignalInv, AgentAccounted, Accounted, Progress, Handlers, Pods
  <2> QED
    BY <2>1, <2>2, <2>3
<1>10. ASSUME Safe PROVE IInv'
  <2> USE <1>10 DEF Safe, Goto, Return, vars
  <2>1. TypeOK'
    BY DEF TypeOK, Pods, Handlers, Steps, StepsOf, Locations
  <2>2. OnceInv' /\ StopInv' /\ ForwardInv' /\ Progress' /\ TermInv'
    BY DEF TypeOK, OnceInv, StopInv, ForwardInv, Progress, TermInv, Handlers, Steps
  <2>3. PodsByPlace' /\ SignalInv' /\ AgentAccounted'
    BY DEF TypeOK, PodsByPlace, SignalInv, AgentAccounted, Accounted, Progress, Handlers, Pods
  <2> QED
    BY <2>1, <2>2, <2>3
<1>11. ASSUME Chain PROVE IInv'
  <2> USE <1>11 DEF Chain, Goto, vars
  <2>1. TypeOK'
    BY DEF TypeOK, Pods, Handlers, Steps, StepsOf, Locations
  <2>2. OnceInv' /\ StopInv' /\ ForwardInv' /\ Progress' /\ TermInv'
    BY DEF TypeOK, OnceInv, StopInv, ForwardInv, Progress, TermInv, Handlers, Steps
  <2>3. PodsByPlace' /\ SignalInv' /\ AgentAccounted'
    BY DEF TypeOK, PodsByPlace, SignalInv, AgentAccounted, Accounted, Progress, Handlers, Pods
  <2> QED
    BY <2>1, <2>2, <2>3
<1>12. ASSUME SessionEnds PROVE IInv'
  <2> USE <1>12 DEF SessionEnds, Goto, vars
  <2>1. TypeOK'
    BY DEF TypeOK, Pods, Handlers, Steps, StepsOf, Locations
  <2>2. OnceInv' /\ StopInv' /\ ForwardInv' /\ Progress' /\ TermInv'
    BY DEF TypeOK, OnceInv, StopInv, ForwardInv, Progress, TermInv, Handlers, Steps
  <2>3. PodsByPlace' /\ SignalInv' /\ AgentAccounted'
    BY DEF TypeOK, PodsByPlace, SignalInv, AgentAccounted, Accounted, Progress, Handlers, Pods
  <2> QED
    BY <2>1, <2>2, <2>3
<1>13. ASSUME DeleteFork PROVE IInv'
  <2> USE <1>13 DEF DeleteFork, Notify, DeletePod, vars
  <2>1. TypeOK'
    BY DEF TypeOK, Pods, Handlers, Steps, StepsOf, Locations
  <2>2. OnceInv' /\ StopInv'
    BY DEF TypeOK, OnceInv, StopInv, Progress, Handlers, Steps
  <2>3. ForwardInv' /\ Progress' /\ TermInv'
    BY DEF TypeOK, OnceInv, ForwardInv, Progress, TermInv, Handlers, Steps
  <2>4. PodsByPlace' /\ SignalInv' /\ AgentAccounted'
    BY DEF TypeOK, PodsByPlace, SignalInv, AgentAccounted, Accounted, Progress, Handlers, Pods
  <2> QED
    BY <2>1, <2>2, <2>3, <2>4
<1>14. ASSUME CloseStop PROVE IInv'
  <2> USE <1>14 DEF CloseStop, Notify, vars
  <2>1. TypeOK'
    BY DEF TypeOK, Pods, Handlers, Steps, StepsOf, Locations
  <2>2. OnceInv' /\ StopInv'
    BY DEF TypeOK, OnceInv, StopInv, Progress, Handlers, Steps
  <2>3. ForwardInv' /\ Progress' /\ TermInv'
    BY DEF TypeOK, OnceInv, ForwardInv, Progress, TermInv, Handlers, Steps
  <2>4. PodsByPlace' /\ SignalInv' /\ AgentAccounted'
    BY DEF TypeOK, PodsByPlace, SignalInv, AgentAccounted, Accounted, Progress, Handlers, Pods
  <2> QED
    BY <2>1, <2>2, <2>3, <2>4
<1>15. ASSUME TakeAgentBack PROVE IInv'
  <2> USE <1>15 DEF TakeAgentBack, Notify, DeleteAgent, DeletePod, vars
  <2>1. TypeOK'
    BY DEF TypeOK, Pods, Handlers, Steps, StepsOf, Locations
  <2>2. OnceInv' /\ StopInv'
    BY DEF TypeOK, OnceInv, StopInv, Progress, Handlers, Steps
  <2>3. ForwardInv' /\ Progress' /\ TermInv'
    BY DEF TypeOK, OnceInv, ForwardInv, Progress, TermInv, Handlers, Steps
  <2>4. PodsByPlace' /\ SignalInv' /\ AgentAccounted'
    BY DEF TypeOK, PodsByPlace, SignalInv, AgentAccounted, Accounted, Progress, Handlers, Pods
  <2> QED
    BY <2>1, <2>2, <2>3, <2>4
<1>16. ASSUME RestoreTerminal PROVE IInv'
  <2> USE <1>16 DEF RestoreTerminal, Notify, vars
  <2>1. TypeOK'
    BY DEF TypeOK, Pods, Handlers, Steps, StepsOf, Locations
  <2>2. OnceInv' /\ StopInv'
    BY DEF TypeOK, OnceInv, StopInv, Progress, Handlers, Steps
  <2>3. ForwardInv' /\ Progress' /\ TermInv'
    BY DEF TypeOK, OnceInv, ForwardInv, Progress, TermInv, Handlers, Steps
  <2>4. PodsByPlace' /\ SignalInv' /\ AgentAccounted'
    BY DEF TypeOK, PodsByPlace, SignalInv, AgentAccounted, Accounted, Progress, Handlers, Pods
  <2> QED
    BY <2>1, <2>2, <2>3, <2>4
<1>17. ASSUME NEW h \in Handlers, HandlerClose(h) PROVE IInv'
  <2> USE <1>17 DEF HandlerClose, EnterOnce, FirstOf, CloseOf, vars
  <2>1. TypeOK'
    BY DEF TypeOK, Pods, Handlers, Steps, StepsOf, Locations
  <2>2. OnceInv' /\ StopInv'
    BY DEF TypeOK, OnceInv, StopInv, Progress, Handlers, Steps
  <2>3. ForwardInv' /\ Progress' /\ TermInv'
    BY DEF TypeOK, OnceInv, ForwardInv, Progress, TermInv, Handlers, Steps
  <2>4. PodsByPlace' /\ SignalInv' /\ AgentAccounted'
    BY DEF TypeOK, PodsByPlace, SignalInv, AgentAccounted, Accounted, Progress, Handlers, Pods
  <2> QED
    BY <2>1, <2>2, <2>3, <2>4
<1>18. ASSUME NEW h \in Handlers, HandlerSignal(h) PROVE IInv'
  <2> USE <1>18 DEF HandlerSignal, EnterOnce, FirstOf, vars
  <2>1. TypeOK'
    BY DEF TypeOK, Pods, Handlers, Steps, StepsOf, Locations
  <2>2. OnceInv' /\ StopInv'
    BY DEF TypeOK, OnceInv, StopInv, Progress, Handlers, Steps
  <2>3. ForwardInv' /\ Progress' /\ TermInv'
    BY DEF TypeOK, OnceInv, ForwardInv, Progress, TermInv, Handlers, Steps
  <2>4. PodsByPlace' /\ SignalInv' /\ AgentAccounted'
    BY DEF TypeOK, PodsByPlace, SignalInv, AgentAccounted, Accounted, Progress, Handlers, Pods
  <2> QED
    BY <2>1, <2>2, <2>3, <2>4
<1>19. ASSUME NEW h \in Handlers, HandlerClosed(h) PROVE IInv'
  <2> USE <1>19 DEF HandlerClosed, CloseOf, AfterClose, Goto, vars
  <2>1. TypeOK'
    BY DEF TypeOK, Pods, Handlers, Steps, StepsOf, Locations
  <2>2. OnceInv' /\ StopInv' /\ ForwardInv' /\ Progress' /\ TermInv'
    BY DEF TypeOK, OnceInv, StopInv, ForwardInv, Progress, TermInv, Handlers, Steps
  <2>3. PodsByPlace' /\ SignalInv' /\ AgentAccounted'
    BY DEF TypeOK, PodsByPlace, SignalInv, AgentAccounted, Accounted, Progress, Handlers, Pods
  <2> QED
    BY <2>1, <2>2, <2>3
<1>20. ASSUME NEW h \in Handlers, HandlerExits(h) PROVE IInv'
  <2> USE <1>20 DEF HandlerExits, Return, vars
  <2>1. TypeOK'
    BY DEF TypeOK, Pods, Handlers, Steps, StepsOf, Locations
  <2>2. OnceInv' /\ StopInv' /\ ForwardInv' /\ Progress' /\ TermInv'
    BY DEF TypeOK, OnceInv, StopInv, ForwardInv, Progress, TermInv, Handlers, Steps
  <2>3. PodsByPlace' /\ SignalInv' /\ AgentAccounted'
    BY DEF TypeOK, PodsByPlace, SignalInv, AgentAccounted, Accounted, Progress, Handlers, Pods
  <2> QED
    BY <2>1, <2>2, <2>3
<1>21. ASSUME WaitForward PROVE IInv'
  <2> USE <1>21 DEF WaitForward, Return, vars
  <2>1. TypeOK'
    BY DEF TypeOK, Pods, Handlers, Steps, StepsOf, Locations
  <2>2. OnceInv' /\ StopInv' /\ ForwardInv' /\ Progress' /\ TermInv'
    BY DEF TypeOK, OnceInv, StopInv, ForwardInv, Progress, TermInv, Handlers, Steps
  <2>3. PodsByPlace' /\ SignalInv' /\ AgentAccounted'
    BY DEF TypeOK, PodsByPlace, SignalInv, AgentAccounted, Accounted, Progress, Handlers, Pods
  <2> QED
    BY <2>1, <2>2, <2>3
<1>22. ASSUME Signal PROVE IInv'
  <2> USE <1>22 DEF Signal, Registered, vars
  <2>1. signals' \in 0 .. MaxSignals
    BY MaxSignalsAssumption DEF TypeOK
  <2>2. watch' \in [Handlers -> {"waiting", "signalled"}]
    BY DEF TypeOK
  <2>3. TypeOK'
    BY <2>1, <2>2 DEF TypeOK
  <2>4. OnceInv' /\ StopInv'
    BY DEF TypeOK, OnceInv, StopInv, Progress, Handlers, Steps
  <2>5. ForwardInv' /\ Progress' /\ TermInv'
    BY DEF TypeOK, OnceInv, ForwardInv, Progress, TermInv, Handlers, Steps
  <2>6. PodsByPlace' /\ SignalInv' /\ AgentAccounted'
    BY DEF TypeOK, PodsByPlace, SignalInv, AgentAccounted, Accounted, Progress, Handlers, Pods
  <2> QED
    BY <2>3, <2>4, <2>5, <2>6
<1>23. ASSUME Forwarding \/ ConnectionLost PROVE IInv'
  <2> USE <1>23 DEF Forwarding, ConnectionLost, ForwardFails, ForwardReady, ForwardStopped, Forwarder, vars
  <2>1. TypeOK'
    BY DEF TypeOK, Pods, Handlers, Steps, StepsOf, Locations
  <2>2. OnceInv' /\ StopInv' /\ ForwardInv' /\ Progress' /\ TermInv'
    BY DEF TypeOK, OnceInv, StopInv, ForwardInv, Progress, TermInv, Handlers, Steps
  <2>3. PodsByPlace' /\ SignalInv' /\ AgentAccounted'
    BY DEF TypeOK, PodsByPlace, SignalInv, AgentAccounted, Accounted, Progress, Handlers, Pods
  <2> QED
    BY <2>1, <2>2, <2>3
<1>24. ASSUME NEW p \in Pods, PodStarts(p) PROVE IInv'
  <2> USE <1>24 DEF PodStarts, vars
  <2>1. TypeOK'
    BY DEF TypeOK, Pods, Handlers, Steps, StepsOf, Locations
  <2>2. OnceInv' /\ StopInv' /\ ForwardInv' /\ Progress' /\ TermInv'
    BY DEF TypeOK, OnceInv, StopInv, ForwardInv, Progress, TermInv, Handlers, Steps
  <2>3. PodsByPlace' /\ SignalInv' /\ AgentAccounted'
    BY DEF TypeOK, PodsByPlace, SignalInv, AgentAccounted, Accounted, Progress, Handlers, Pods
  <2> QED
    BY <2>1, <2>2, <2>3
<1>25. ASSUME UNCHANGED vars PROVE IInv'
  <2> USE <1>25 DEF vars
  <2>1. TypeOK'
    BY DEF TypeOK, Pods, Handlers, Steps, StepsOf, Locations
  <2>2. OnceInv' /\ StopInv' /\ ForwardInv' /\ Progress' /\ TermInv'
    BY DEF TypeOK, OnceInv, StopInv, ForwardInv, Progress, TermInv, Handlers, Steps
  <2>3. PodsByPlace' /\ SignalInv' /\ AgentAccounted'
    BY DEF TypeOK, PodsByPlace, SignalInv, AgentAccounted, Accounted, Progress, Handlers, Pods
  <2> QED
    BY <2>1, <2>2, <2>3
<1> QED
  BY <1>1, <1>2, <1>3, <1>4, <1>5, <1>6, <1>7, <1>8, <1>9, <1>10, <1>11, <1>12,
      <1>13, <1>14, <1>15, <1>16, <1>17, <1>18, <1>19, <1>20, <1>21, <1>22, <1>23, <1>24, <1>25 DEF Next, Launch, Notifications, Closing, Watching, Ended

\* IInv is an invariant of the run.
THEOREM Invariance == Spec => []IInv
<1>1. Init => IInv
  BY InitInv
<1>2. IInv /\ [Next]_vars => IInv'
  BY StepInv
<1> QED
  BY <1>1, <1>2, PTL DEF Spec

------------------------------------------------------------------------------

\* The variables keep their types, whatever number of signals is sent.
THEOREM TypeCorrect == Spec => []TypeOK
<1>1. IInv => TypeOK
  BY DEF IInv
<1> QED
  BY <1>1, Invariance, PTL

\* StopChannel is never closed twice: main and the watcher cannot both run the
\* notification that closes it.
THEOREM StopChannelSafe == Spec => []StopClosedOnce
<1>1. IInv => StopClosedOnce
  BY DEF IInv, StopInv, StopClosedOnce
<1> QED
  BY <1>1, Invariance, PTL

\* Run returns after a session only when its cleanup is complete, although main
\* may have waited for a watcher that was running it.
THEOREM ReturnIsClean == Spec => []ReturnCleansUp
<1>1. IInv => ReturnCleansUp
  BY DEF IInv, TypeOK, Progress, PodsByPlace, StopInv, TermInv, ReturnCleansUp, Pods
<1> QED
  BY <1>1, Invariance, PTL

\* Every other return of Run accounts for the agent pod.
THEOREM AgentIsAccounted == Spec => []AgentAccounted
<1>1. IInv => AgentAccounted
  BY DEF IInv
<1> QED
  BY <1>1, Invariance, PTL

\* A signal in a session without a terminal leaves no pod behind.
THEOREM CancelIsClean == Spec => []CancelCleansUp
<1>1. IInv => CancelCleansUp
  <2> SUFFICES ASSUME IInv, exit = "signal", ~opt.tty
               PROVE  (\A p \in Pods : Accounted(p)) /\ (opt.PortForward => stops = 1)
    BY DEF CancelCleansUp
  <2>1. owner["cleanup"] = "watcher" /\ step["cleanup"] = "done"
    BY DEF IInv, SignalInv, OnceInv, Progress, Handlers
  <2> QED
    BY <2>1 DEF IInv, PodsByPlace, StopInv, Pods
<1> QED
  BY <1>1, Invariance, PTL

\* A deletion belongs to an early return, before the session and the forwarder,
\* or to the cleanup, which has closed StopChannel before it deletes the agent.
THEOREM DeletionsInOrder == Spec => DeletesInOrder
<1> DEFINE Ordered ==
      \A p \in Pods : pods[p] # "deleted" /\ pods'[p] = "deleted" =>
        /\ pc = "session" => watch["cleanup"] = "signalled"
        /\ p = "agent" /\ forwarder = "forwarding" => stops > 0
<1>1. ASSUME IInv, [Next]_vars PROVE [Ordered]_vars
  <2> SUFFICES ASSUME Next, NEW p \in Pods, pods[p] # "deleted", pods'[p] = "deleted"
               PROVE  /\ pc = "session" => watch["cleanup"] = "signalled"
                      /\ p = "agent" /\ forwarder = "forwarding" => stops > 0
    BY <1>1
  <2> USE <1>1 DEF IInv, TypeOK, Pods, Handlers
  <2>1. GiveUp \/ DeleteFork \/ TakeAgentBack
    <3>1. CASE Launch
      BY <3>1 DEF Launch, GetPod, Auth, LaunchAgent, LaunchFork, CreatePod, AwaitRunning,
                  Inspect, FindAgent, RunPortForward, AwaitReady, Safe, Chain, clusterVars
    <3>2. CASE Closing \/ Watching \/ WaitForward \/ SessionEnds \/ Signal
      BY <3>2 DEF Closing, Watching, HandlerClose, HandlerClosed, HandlerSignal,
                  HandlerExits, EnterOnce, WaitForward, SessionEnds, Signal, clusterVars
    <3>3. CASE Forwarding \/ ConnectionLost \/ (\E q \in Pods : PodStarts(q)) \/ Ended
      BY <3>3 DEF Forwarding, ForwardFails, ForwardReady, ForwardStopped, ConnectionLost,
                  Forwarder, PodStarts, Ended, vars, clusterVars
    <3>4. CASE Notifications
      BY <3>4 DEF Notifications, CloseStop, RestoreTerminal, clusterVars
    <3> QED
      BY <3>1, <3>2, <3>3, <3>4 DEF Next
  <2>2. CASE GiveUp
    BY <2>2 DEF GiveUp, At, ForwardInv
  <2>3. CASE DeleteFork
    <3>1. p = "fork"
      BY <2>3 DEF DeleteFork, DeletePod, clusterVars
    <3> QED
      BY <2>3, <3>1 DEF DeleteFork, Notify, OnceInv, Progress
  <2>4. CASE TakeAgentBack
    <3>1. stops > 0 \/ ~opt.PortForward
      BY <2>4 DEF TakeAgentBack, Notify, StopInv
    <3> QED
      BY <2>4, <3>1 DEF TakeAgentBack, Notify, OnceInv, Progress, ForwardInv
  <2> QED
    BY <2>1, <2>2, <2>3, <2>4
<1>2. DeletesInOrder <=> [][Ordered]_vars
  BY DEF DeletesInOrder
<1> QED
  BY <1>1, <1>2, Invariance, PTL DEF Spec
==============================================================================
