# A verification project for kubectl-debug

`kubectl debug` starts a container with debugging tools inside the namespaces of
a running container.  This directory models the parts of it in which several
goroutines, processes or machines meet, checks them with TLC on small instances,
and proves their safety properties for every instance with TLAPS.  All paths
below are relative to the repository (`src/` in `PROJECT.json`).

## 1. Inventory

### The system

    user -- terminal -- kubectl plugin --(API server)-- agent pod, forked pod
                             |                             |
                             +--- port-forward, SPDY ----- agent -- docker / containerd
                                                                    |
                                            target container -- debug container

| Component | Code | State it keeps | Operations |
|---|---|---|---|
| Plugin run | `pkg/plugin/cmd.go` `Run` and its helpers | the pods it launched, `StopChannel`, `ReadyChannel`, the wait group, the container id it read | fetch and authorise, launch agent pod and forked pod, find agent, port-forward, session, clean-up |
| Terminal guard | `pkg/util/term.go` `Safe` | the terminal's mode, an interrupt handler | make raw, run, restore |
| Interrupt handlers | k8s `interrupt` (external) | a `sync.Once`, a signal watcher each | close, signal, notifications, `os.Exit(1)` |
| Resize pipeline | `pkg/util/resize*.go`, `pkg/agent/resize.go` | two one-slot channels, the stop channel, the last size | monitor, relay, `Next`, `HandleResizing` |
| Agent server | `pkg/agent/server.go` | the package variable `LxcfsEnabled` | `ServeDebug`, `Run`, `Healthz` |
| Lxcfs remount | `pkg/agent/lxcfs.go`, `runtime.go` `SetContainerLxcfs`, `pkg/nsenter` | the mounts of the target, which outlive everything | check the node, list the target's mounts, bind mount each file |
| Docker runtime | `pkg/agent/runtime.go` 97-323 | the debug container in the daemon, the hijacked connection | pull, create, start, attach, hold, wait, remove |
| Containerd runtime | `pkg/agent/runtime.go` 325-919 | image, fifo, container with its snapshot, task, the client's connection | pull with progress, run, wait, deferred deletions |
| Options and config | `cmd.go` `Complete`, `config.go` | the merged options | flag, file and default precedence |
| Pull progress | `pkg/util/jsonstream.go` | rows of the terminal | cursor movements |
| Entry points, deployment | `cmd/`, `version/`, `contrib/`, `scripts/` | none | none |

How they interact: the plugin talks to the API server in blocking requests, each
of which can fail or be answered by nobody; to the agent through an HTTP request
that is upgraded to SPDY, directly or through a port-forward goroutine that shares
two channels with it; the agent serves each request in goroutines of its own and
talks to the runtime in requests with a timeout each.  The terminal's size travels
from a SIGWINCH, by four goroutines, to the runtime.

### What is hard in it, and what makes it correct

* **Plugin.**  Two interrupt handlers that do not know of each other, signals at any
  moment, main and a watcher meeting in one `sync.Once`, a forwarder that must tell
  main that it is ready or has failed, early returns with pods already launched.
  Correct when every pod is deleted or the user was told, `StopChannel` is closed
  once, the terminal is restored, things are deleted in the right order, and Run
  never hangs by itself.
* **Docker session.**  Replies that are lost, a program, an input and a client that
  end in any order, an agent that is killed.  Correct when the container is removed,
  not before its output is copied, and no goroutine of the session stays.
* **Containerd session.**  A clean-up made of four deferred functions, whose order is the
  opposite of the text's and matters to the daemon and to the audit; three goroutines
  that nobody waits for (progress, audit reader, resize).  Correct when it keeps the
  same promise as docker, the output and the audit are not cut off, and nothing stays.
* **Plugin and agent together.**  Each side can die, be killed by the other or lose the
  connection at any point of the other's session.  Correct when the agent's pod outlives
  its work, and when each side comes to its own end.
* **Options.**  Three sources of each option, and "not given" encoded as a zero value.
  Correct when what nobody asked for has its documented default.
* **Pull display.**  Rows found by counting from the cursor, on a terminal that scrolls.
  Correct when an update hits the row of its layer and nothing else.
* **Agent server and lxcfs.**  Concurrent requests over one package variable; mounts
  made one by one that no session undoes.  Correct when a session that wants lxcfs
  sees all of its files, and gets what its own request asked.
* **Resize.**  Non-blocking sends that drop.  Correct when sizes do not go backwards,
  the container ends with the terminal's size unless a size was dropped, and the
  goroutines end.

The complete list, by line, is `hazards` in `PROJECT.json`.

## 2. Modules

| Module | Models |
|---|---|
| `PluginRun` | one run of the plugin, its forwarder and its two interrupt handlers |
| `PluginRunProofs` | the safety properties of `PluginRun`, for any number of signals |
| `DebugContainer` | abstract: what the agent promises of a debug container |
| `SessionStreams` | the connection, the copiers and the resize goroutines of a session |
| `DockerSession` | one request on a docker node; implements `DebugContainer` |
| `DockerSessionProofs` | the refinement and its consequences |
| `ContainerdSession` | one request on a containerd node; implements `DebugContainer` too |
| `ContainerdSessionProofs` | its refinement and safety properties |
| `DebugSystem`, `MCDebugSystem` | `PluginRun` and `DockerSession` with what couples them |
| `DebugSystemProofs` | the system is both of its sides, and the agent's pod goes last |
| `AgentServer`, `MCAgentServer` | concurrent requests up to the debug container: parsing, lxcfs |
| `AgentServerProofs` | its safety properties, for any requests, targets and files |
| `TerminalResize` | the path of a terminal size from the terminal to the container |
| `TerminalResizeProofs` | its safety properties, for any number of resizes |
| `PluginOptions` | flags, config file and defaults up to the options of a run |
| `PullDisplay` | the rows of the terminal under the progress of a docker pull |
| `PullDisplayProofs` | its safety properties, for any terminal, layers and messages |

### PluginRun

`pc` is the line main is at: one place per call that can fail or block.  `pods` is
the cluster (`pending` until the kubelet starts it), `told` the pods for which the
user saw a line of advice ("delete the failed agentPod", "consider manual deletion").
A failed create may have created the pod; a delete may be done and its reply lost.
`view` is the status of the target as fetched at the start, and not again (the code
keeps it through up to ten minutes of launches), or that of the forked pod.

The two handlers of `interrupt.Chain` are modelled from how the code uses them: a
list of notifications run once under a `sync.Once`, by main (`HandlerClose`) or by the
watcher of a registered handler (`HandlerSignal`), which then exits the process
(`HandlerExits`); the second caller of the Once waits.  `EnterOnce`, the notifications
(`DeleteFork`, `CloseStop`, `TakeAgentBack`; `RestoreTerminal`) and `HandlerClosed` are
steps of their own because a signal, the forwarder or the other handler can come
between any two of them.  `RestoreTerminal` is the notification of `TTY.Safe`; its
other half, the stop of the size queue, is `Stop` in `TerminalResize`.

The forwarder is `runPortForward`'s goroutine with `ForwardPorts`: dialing, then
either forwarding (it closes `ReadyChannel`) or signalling (it failed, and blocks in
its send to `ReadyChannel` until main receives).

### DebugContainer and DockerSession

`DebugContainer` has three variables: the phase of the session, the container, and
the *excuses* for leaving it behind: a reply that was lost, a container that could not
be started, a removal that failed.  A session may end with the container there only
with an excuse, and a container is removed only after the session has closed.

`DockerSession` follows the handler from `PullImage` to the close of the connection
(`pc`).  The copiers of `holdHijackedConnection`, the kubelet's reader of resize events
and the goroutine of `HandleResizing` are in `SessionStreams`, which the two runtimes
share.  Only its output ends a docker session (`HoldConnection` returns when the output
copier sends its result): the input ends it by way of the daemon, which detaches an
attach made with `StdinOnce`.  A client that leaves is noticed only when the copiers
next touch the connection.  The refinement mapping is the `CASE` in `Promise`: each
place of the handler belongs to one phase.  `docs/design.md:18` describes another
order, in which the agent closes the connection and then cleans up; the code cleans up
first, and so does the model.

### ContainerdSession

`RunDebugContainer` of containerd registers its clean-up as it goes, in four `defer`s
that run in the opposite order: the task's deletion (`KillTask` with `WithProcessKill`,
then `DeleteTask`, which waits for the copiers), the container's (`DeleteContainer`),
the fifo's (`RemoveFifo`) and the client's (`CloseClient`).  An error return jumps into
that list at the place that was registered last, and so does `pc`.  Container and task
are two objects of the daemon: one that still has a task cannot be deleted, which is
what makes the order a matter of correctness and not of taste.  Three goroutines run
beside the handler: `progress` shows the pull until its context is cancelled,
`reader` opens the audit fifo (a blocking open, until the shim in the container opens
its end) and logs its lines, and the copiers belong to containerd's client.  Nothing
but the exit of the program ends a session under way (`ExitStatus`), or an error of the
daemon (`ExitUnknown`).

### DebugSystem

`DebugSystem` extends `PluginRun` and instantiates `DockerSession` (`handler` is its
`pc`).  A step is a step of one side, or of what lies between them: `SendRequest` (the
agent must be there, and a port-forward if one is used), `Cut` (the connection goes
with the plugin's process or with the forwarder, or is lost), and `AgentKilled`, enabled
when the plugin has deleted the agent's pod.  `StreamEnds` adds to the plugin's
`SessionEnds` what its own module leaves open: the stream ends when the agent has closed
the connection, or the connection is lost, or when no request was sent.  An agent of a
daemonset (`AgentLess` false) is deleted by nobody.

A forwarder that failed still gives the ready signal, "in case the port is already
forwarded" (`cmd.go:1065`): `AlreadyForwarded` lets the session of a daemonset's agent go
through the forward of another run, whose end is one of the `ConnectionFails`.  An agent of
this run's own cannot be reached so: its pod has a fresh name, and the forward that holds the
local port leads to the agent of another node (two agents on one node cannot share the host
port), which does not know the target's container; to the plugin that is a session that ends
without a request.

### AgentServer

Every request is `parse`, `construct` (`NewRuntimeManager`), `attach` (`GetAttacher`),
`check` (`CheckLxcfsMount`), `info` (`ContainerInfo`), `mount` (one nsenter per file) and
`run`; each is a step, since goroutines of other requests run in between.  `enabled` is
`LxcfsEnabled`; `mounts` counts what is stacked on each file of each target.  The
model takes reads and writes of the variable as atomic: its values are the only ones a
Boolean can have, so what the data race adds is already there.

### TerminalResize

The sizes are numbered in the order the terminal takes them, so that "older" is
"smaller".  The two builds of `monitorResizeEvents` are in one module, told apart by
`platform`.  `missed` is a history variable: it becomes true at each of the places
where the code drops a size or cannot hear of it, and only there.

### PluginOptions

An option is its origin: not given, by flag, in the file, under the file's deprecated
key, or the default.  A switch has the two ways of being off that the code tells apart:
`cobra` knows whether a flag was given, `yaml` whether a key is in the file.  `Load` is
the decoding over the three preset booleans, `LoadFile` also covers the missing and the
broken file, `Merge` is the chain of `if`s in `Complete`: "first that is not zero" for
values, "the flag if it was given" for three switches, "either" for
`registrySkipTLSVerify`.

### PullDisplay

The terminal is all rows there ever were, the first one in view and the cursor's row;
the column is left out because every text ends with a carriage return.  The three
movements are those of the escape sequences: up and down stop at the edges, a line feed
on the last row scrolls.  A message is stamped with its order of arrival, so a row says
whose it is and since when.  `since` is a history variable: the message that began the
present block of layers.

## 3. Runs

| Run | Instance | Shows |
|---|---|---|
| `plugin` | 16 option combinations, 2 signals (40 512 states) | the eight properties of a run |
| `docker` | one session (637 states) | the promise, the output, the ends, the container each call is about |
| `containerd` | one session, verbose or not, audited or not (27 356 states) | the promise, the order of the deferred deletions, the ends |
| `system` | 8 option combinations, 1 signal (406 440 states) | who outlives whom between plugin and agent |
| `server` | 2 requests, 2 targets, 2 files, 1 image (510 039 states) | mounts under concurrency |
| `resize` | 3 resizes, one of a zero side (13 835 states) | order, freshness, stop |
| `display` | 6 messages, 3 layers, 3 rows (45 036 states) | every update on its row |
| `fork_cancel` | 1 signal | **violated**: the terminal's watcher exits before the fork is deleted |
| `lxcfs_race` | 2 requests, 1 target | **violated**: a request gets another's lxcfs setting |
| `containerd_left` | one session | **violated**: a client that leaves does not end the container |
| `agentless_leak` | as `system` | **violated**: the agent is killed with its debug container on the node |
| `options_defaults` | all flags and files (4 switches, 2 values) | **violated**: without a file the defaults are off |

### Properties

*PluginRun.*  `StopClosedOnce`, `ReturnCleansUp`, `AgentAccounted` and `CancelCleansUp` say
what is left when the process is gone; `DeletesInOrder` what a step may never delete;
`LaunchSettles` and `Ends` that main never waits for ever.  `CancelCleansUp` is stated
for input that is not a terminal because `fork_cancel` shows that it fails with one.
`AgentAccounted` excludes the return of `Safe` for a terminal that cannot be put in
raw mode: the code leaks there, and nothing in the repository says otherwise.  Nor does
it speak of the forked pod before a session, which the early returns never delete.

*DockerSession.*  `TypeOK` binds each variable to the place of the handler: a call that goes
on without the container it is about (an unchecked error of the create) breaks it, and so
does a copier that has nobody to send to.  `KeepsPromise` is the refinement.  `OutputDrained` orders the removal
after the output.  `ClosingEndsSession` and `GoroutinesEnd` are about who waits for whom:
the session ends with its program or its client whatever the input does, and the copier
of the input is waited for by nobody and ends by the closing of the connection only.

*ContainerdSession.*  `TypeOK` binds container and task to the place of the handler and of
its deferred functions: each finds what it deletes.  `KeepsPromise` fails for any order of the two deletions but the
code's, because the daemon keeps a container that has a task.  `FifoOutlivesContainer`
orders the two that concern the audit.  `ExitEndsSession` waits for the output to be
copied, which takes a client that reads or has left; it is weaker than docker's
`ClosingEndsSession`, and `containerd_left` shows why it must be.  `ProgressGivesWay` is
about a goroutine whose output would mix with the program's.  `GoroutinesEnd` excludes a
reader that is still opening a fifo no program ever opened: it stays for good.

*DebugSystem.*  `SystemTypeOK` contains `Coupled`, what the two programs know of each other
across the connection; a plugin that does not wait for the end of its stream breaks it.
`AgentOutlivesSession`: without a signal or a lost connection the plugin
deletes the agent's pod only after the agent has answered, and it answers last.  It holds
by a chain over both programs (output copier, removal, response, end of the stream,
notifications) and fails for a session that ends by anything earlier.  `EndReachesUser`
is the same chain as a liveness property, from the program's exit to the end of the
plugin's process; `DaemonFinishes` the one in the other direction, from the plugin's
death to the removal by an agent that survives it.  `agentless_leak` shows what remains
of the first when a session is cut short.

*PullDisplay.*  `LayersKeepTheirRows` says that the arithmetic on the number of layers
stays right through new layers, other lines and scrolling, as long as the layers fit the
screen.  `EarlierLinesKept` holds even when they do not; `RestsBelow` is what the messages
that follow the pull rely on.

*AgentServer.*  `MountsInOrder` holds for any interleaving of sessions that fail half
way, because each mount of a file by a session comes after its own mount of the file
before.  `DebugSeesLxcfs` is what a session may rely on when it starts its container.
`LxcfsAsked` bounds the damage of the shared switch: it can leak between requests, but
cannot be on when nobody asked.

*TerminalResize.*  `FreshAtRest` says that the drops recorded in `missed` are the only
way to end with the wrong size.  `StopEndsMonitoring` names the one goroutine that stop
does not end: a Windows monitor in its send to a full channel.

### Known departures from the repository's own words

Five are runs of their own (`findings` in `PROJECT.json`).  Three more are visible in the
properties of passing runs, where each is named as the exception:

* a docker container that is created and cannot be started is never removed
  (`runtime.go:156` returns before the `defer` at 160, against `server.go:66`): the excuse
  `notStarted` of `DebugContainer`;
* the Windows monitor can block for ever after stop (`resizeevents_windows.go:55`, against
  its comment at 27): `StuckInSend` in `TerminalResize`;
* a size that arrives while `resizeChan` holds an earlier one is dropped and the older
  one kept (`resize.go:106-112`, against 81-82): `missed` in `TerminalResize`.

### Bounds

`MaxSignals = 2`: each handler has one watcher that reads one signal, so a second
signal only meets watchers that are already signalled, or finds the handlers gone; the
theorems hold for every number.  In `system` one signal and no forked pod (`NoFork`) keep
the product of the two sides small: a fork is deleted before the agent's pod by the same
notification, which `plugin` checks with two signals; the resize goroutines, which touch
nothing else, do not move there.  Two requests suffice for every pair of accesses to
`LxcfsEnabled`; two files give a list that can be mounted half; two targets let
sessions share one or not; requests and targets are symmetric (the run has no liveness
property, so the reduction is sound).  Three resizes fill both one-slot channels and
leave one to be dropped.  Three layers on three rows make one more layer than fits above
the cursor; six messages are enough for all three, a line between two blocks and updates
after both.  There is no bound on `wire`, `mounts` or `stops`: what feeds
them is bounded.

### Fairness

The Go scheduler runs a goroutine that can run, so each goroutine's steps are weakly
fair; requests to the API server and to docker are assumed to be answered or to fail
(`launchPod` gives up after five minutes; docker requests have a timeout).  Nothing
obliges the user to type, resize, end the session or send a signal, the program in the
container to exit, the client to leave, a pod to start or a connection to be lost:
these actions have no fairness, and the liveness properties start from their having
happened.  For `system` the fairness is that of the two modules, with the network's part of it: a
connection whose one end is gone is noticed at the other.  In `TerminalResize` `StreamStarts` has none either: until the agent has pulled
its image nobody reads the sizes.

`CHECK_DEADLOCK` is never switched off: the ends of a run are explicit stuttering
actions (`Ended`, `Over`, `Exited`, `Idle`), enabled only where the program has stopped.

## 4. Proofs

`PluginRunProofs` (assumption: `MaxSignals \in Nat`) proves the type invariant, the four
state invariants and `DeletesInOrder` of the run `plugin`.  None of the invariants is
inductive.  `IInv` adds where main can be while a handler is signalled or at a
notification (`Progress`), who can have entered a Once (`OnceInv`), what `StopChannel` has
seen (`StopInv`), when a forwarder can exist (`ForwardInv`), when the terminal is raw
(`TermInv`), which pods exist at each place (`PodsByPlace`), and that a watcher leaves
only after its notifications (`SignalInv`).  `StepInv` has one step per action;
`Invariance` closes the induction; each property then follows from `IInv` in one step.
`DeletionsInOrder` is proved on the steps: a deletion belongs to `GiveUp`, where no
forwarder runs, or to the cleanup, where `StopInv` says that `StopChannel` is closed.

`DockerSessionProofs` (no assumption) proves, from the type invariant, which says what the
container and the output copier can be at each place, that every step of the session is a step
of `DebugContainer` or a stutter (`StepRefines`), hence `DockerKeepsPromise`, and from the
promise that a session without an excuse leaves nothing (`NothingLeftByDocker`).

`ContainerdSessionProofs` (no assumption) follows the same plan with a richer invariant:
which of container, task and fifo can exist at each of the deferred functions, and that
a task that is there past its deletion has an excuse.  `ContainerdKeepsPromise` is the
refinement, `FifoIsLast` and `OutputIsDrained` the two orders of the deletions.

`AgentServerProofs` (assumption: there is at least one lxcfs file) counts.  `MountsInOrder` and
`DebugSeesLxcfs` compare two counters of the target, which a step of any session can
change, and neither says who brought them where they are.  `MountsCounted` does: the
mounts on a file are as many as the sessions past it (`Past`), and a session past a file is
past the one before, so the order of the counters is the inclusion of two sets.
`SessionByPlace` says what a session has checked at each place; `SwitchAsked` carries
`LxcfsAsked` over the time between the request, the shared switch and the mount.  The set
of requests may be infinite: that the sessions past a file are finitely many is part of
the invariant.

`TerminalResizeProofs` (assumption: `MaxResizes` and the sizes with a zero side are
numbers) follows a size along its path.  `NeverBackwards` is about one step, but holds
because everything between the terminal and the agent is sorted (`PathSorted`): the last
size taken, the connection, `resizeChan`, the relay's hand, `resizeEvents`, the monitor.
`FreshAtRest` is the composition of three facts, one per stage (`MonitorFresh`,
`EventsFresh`, `SizesFresh`): what a stage has let go last is the last thing behind it, and a
stage that drops says so in `missed`.  That no channel overflows (`TypeOK`) is proved too.

`DebugSystemProofs` (assumptions: that of `PluginRunProofs`; the scenarios are options) proves that each side of the
system behaves as its own module says: `PluginInSystem` is a plain implication between the
two specifications, so the theorems of `PluginRunProofs` hold of the plugin beside an agent;
`PromiseInSystem` is the refinement of `DebugContainer` by an agent that is killed, cut off or
outlived.  `SystemInv` adds what the sides know of each other (`Coupled`): a request is out
only from a session on, a connection that nobody cut is closed by an agent at its end, main
leaves the session only when the connection is closed, an agent is killed only with its
pod.  `AgentIsLast` is then proved on the one step that deletes the pod.  Unlike the run
`system`, all this is for any number of signals and with forked pods.

`PullDisplayProofs` (assumptions: two rows at least, a number of messages) finds the reason
for `RestsBelow`: at the top of the screen a movement up is cut short, and the movement down
that follows has the full length and is cut short at the bottom.  They cancel because the view
is exactly the last rows (`AtEnd`), which each line feed has to restore (`LineFeedSettles`,
`UpAndDown`).  `LayersKeepTheirRows` needs the numbers of a block to be without repetition
(`LayersNumbered`), and `EarlierLinesKept` that the rows of the block hold nothing older
(`BlockIsNew`): an update that cannot go up far enough lands too low, so still in the block.

Each of these inductive invariants was checked by TLC on the instance of its run before it
was proved.  Of the type invariants those of the two sessions and of the system
already hold the relations between variables that the others need; the other properties do
not follow from themselves and one step: each needs the parts named above.  With them every safety property of a passing run
is a theorem.  Only model-checked are the liveness properties (`LaunchSettles`, `Ends`,
`ClosingEndsSession`, `ExitEndsSession`, `ProgressGivesWay`, `GoroutinesEnd`, `EndReachesUser`,
`DaemonFinishes`, `StopEndsMonitoring`): fairness and ENABLED are out of the prover's reach.  The five violated properties are TLC's: a proof has nothing to
say of them.  `PluginOptions` has no theorem: its runs are two steps long and its instance is
already all there is.

## 5. Not modelled

* `extractSecret` (data of one request), `agent/config.go` (read once, before the server
  exists), entry points and deployment files: no state that interacts.
* In `PluginOptions`: `Validate`, two checks for emptiness, and the lookup of the user's
  name.  In `PullDisplay`: the text of a row, lines that wrap on a narrow terminal,
  messages that a pull of today's daemon does not send.
* The system with containerd: `DebugSystem` instantiates the docker session.  With
  containerd `AgentOutlivesSession` rests on the same last step (`Respond` after the
  deferred deletions), and `DaemonFinishes` fails by `containerd_left`.
* Inside the modelled parts: the content of pods, requests, messages and logs;
  `Healthz`.  The `interrupt` package, client-go's port-forward, the kubelet's
  `ServeAttach`, docker and containerd are external and are modelled by what the code
  relies on.

## 6. Plan

Every part of the system that keeps state is modelled and its safety properties are proved.
What is left, in this order:

1. Freedom from deadlock for every instance: the run checks it on its own, and without
   ENABLED it is an invariant on the guards (`PluginRun`: at every `pc` where main waits,
   somebody else can move; `DockerSession` and `ContainerdSession`: likewise for the handler).
   It is the part of the liveness properties that a proof can carry.
2. `DebugSystem`: an agent that answers is not killed by a plugin without a signal, as an
   invariant on `handler`, from `AgentIsLast`.
3. `ContainerdSession`: the audit reader and the progress goroutine, as state invariants that
   name the places where each can be left over.
