-------------------------- MODULE ContainerdSession --------------------------
(****************************************************************************)
(* One debug request on a node with containerd: PullImage and               *)
(* RunDebugContainer of ContainerdContainerRuntime.                         *)
(*                                                                          *)
(*   - handler, at pc: the pull, the run, and the four functions it defers, *)
(*     which run in the opposite order: delete the task (killing it),       *)
(*     delete the container, remove the audit fifo, close the client;       *)
(*   - progress: the goroutine that shows the pull, when verbose;           *)
(*   - reader: the goroutine that logs what the audit shim writes;          *)
(*   - stdin, stdout: the copiers that containerd's client makes for a      *)
(*     task, and the bringers of terminal sizes (SessionStreams).           *)
(*                                                                          *)
(* A container and its task are two objects of the daemon: a container that *)
(* still has a task cannot be deleted.                                      *)
(****************************************************************************)
EXTENDS SessionStreams

VARIABLES
  opt,        \* verbose, and with an audit
  pc,         \* where the handler is
  container,  \* the debug container, and the program in it
  task,       \* its task in the daemon
  excuses,    \* why the container may be left behind (a history)
  client,     \* the connection to containerd
  progress,   \* shows the progress of the pull
  fifo,       \* the audit fifo on the node
  reader      \* reads it

run == <<opt, pc, client>>
daemon == <<container, task, excuses>>
audit == <<fifo, reader>>
vars == <<run, daemon, progress, audit, streams, resizing>>

Options == [verbose : BOOLEAN, audit : BOOLEAN]

Preparing == {"pull", "pulling", "audit", "inspect", "create", "task", "wait", "start"}
Deferred  == {"kill", "drain", "deleteContainer", "removeFifo", "closeClient"}

Promise == INSTANCE DebugContainer WITH
  phase <- CASE pc \in Preparing                 -> "preparing"
             [] pc = "watching"                  -> "open"
             [] pc \in Deferred \cup {"respond"} -> "closing"
             [] OTHER                            -> pc

Types ==
  /\ opt \in Options
  /\ pc \in Preparing \cup Deferred \cup {"watching", "respond", "ended", "killed"}
  /\ container \in Promise!Containers
  /\ task \in {"none", "there", "deleted"}
  /\ excuses \subseteq Promise!Reasons
  /\ client \in {"open", "closed"}
  /\ progress \in {"off", "ticking", "last", "done"}
  /\ fifo \in {"none", "there", "removed"}
  /\ reader \in {"off", "starting", "opening", "reading", "done"}
  /\ StreamTypes

\* The container and its task at each place of the handler.  The deferred
\* functions meet a task only if they still have to delete it or could not.
DaemonByPlace ==
  /\ pc \in {"pull", "pulling", "audit", "inspect", "create"} => container = "none" /\ task = "none"
  /\ pc = "task" => container = "created" /\ task = "none"
  /\ pc \in {"wait", "start"} => container = "created" /\ task = "there"
  /\ pc = "watching" => container \in {"running", "exited"} /\ task = "there"
  /\ pc = "kill" => container \in {"created", "running", "exited"} /\ task = "there"
  /\ pc = "drain" => container = "exited" /\ task = "there"
  /\ pc = "deleteContainer" =>
       /\ container \in {"created", "running", "exited"}
       /\ task = "there" => excuses # {}
  /\ pc \in {"removeFifo", "closeClient", "respond", "ended"} =>
       container \in {"none", "removed"} \/ excuses # {}

\* At each place of the handler every variable has a value that it can have there:
\* an error return runs the deferred deletions of what was made and of nothing
\* else, and after them container and task are there only with an excuse.
TypeOK == Types /\ DaemonByPlace

Init ==
  /\ opt \in Options
  /\ pc = "pull"
  /\ container = "none"
  /\ task = "none"
  /\ excuses = {}
  /\ client = "open"
  /\ progress = "off"
  /\ fifo = "none"
  /\ reader = "off"
  /\ StreamsInit

------------------------------------------------------------------------------
\* The handler.

Alive == pc # "killed"

Go(from, to) == pc = from /\ pc' = to /\ UNCHANGED opt

Excuse(r) == excuses' = excuses \cup {r}

\* Credentials that cannot be unescaped end the session before the pull.
StartPull ==
  /\ \/ Go("pull", "respond") /\ UNCHANGED progress
     \/ Go("pull", "pulling") /\ progress' = IF opt.verbose THEN "ticking" ELSE "off"
  /\ UNCHANGED <<daemon, client, audit, streams, resizing>>

\* Mutated StopProgress: the context of the progress is left to the session's end.
StopNothing(goroutine) == goroutine

\* stopProgress cancels the context the goroutine selects on; nobody waits for it.
StopProgress(goroutine) == IF goroutine = "ticking" THEN "last" ELSE goroutine

\* The client is closed by RunDebugContainer alone: not after a failed pull.
PullEnds ==
  /\ Go("pulling", "audit") \/ Go("pulling", "respond")
  /\ progress' = StopProgress(progress)
  /\ UNCHANGED <<daemon, client, audit, streams, resizing>>

\* The fifo and the goroutine that reads it.
MakeFifo ==
  /\ \/ ~opt.audit /\ Go("audit", "inspect") /\ UNCHANGED audit
     \/ opt.audit /\ Go("audit", "inspect") /\ fifo' = "there" /\ reader' = "starting"
     \/ opt.audit /\ Go("audit", "closeClient") /\ UNCHANGED audit
  /\ UNCHANGED <<daemon, client, progress, streams, resizing>>

\* ContainerInfo of the target.
Inspect ==
  /\ Go("inspect", "create") \/ Go("inspect", "removeFifo")
  /\ UNCHANGED <<daemon, client, progress, audit, streams, resizing>>

\* NewContainer: with an error there is no container to defer the deletion of.
NewContainer ==
  /\ \/ Go("create", "task") /\ container' = "created" /\ UNCHANGED excuses
     \/ Go("create", "removeFifo") /\ container' = "created" /\ Excuse("lostReply")
     \/ Go("create", "removeFifo") /\ UNCHANGED <<container, excuses>>
  /\ UNCHANGED <<task, client, progress, audit, streams, resizing>>

\* Mutated NewTask: the task's deletion is deferred without a look at whether
\* there is a task.
NewTaskDeferred ==
  /\ \/ Go("task", "wait") /\ task' = "there" /\ stdin' = "copying" /\ stdout' = "copying" /\ UNCHANGED excuses
     \/ Go("task", "kill") /\ task' = "there" /\ Excuse("lostReply") /\ UNCHANGED streams
     \/ Go("task", "kill") /\ UNCHANGED <<task, excuses, streams>>
  /\ UNCHANGED <<container, client, conn, progress, audit, resizing>>

\* NewTask starts the copiers, and stops them again when it fails.
NewTask ==
  /\ \/ Go("task", "wait") /\ task' = "there" /\ stdin' = "copying" /\ stdout' = "copying" /\ UNCHANGED excuses
     \/ Go("task", "deleteContainer") /\ task' = "there" /\ Excuse("lostReply") /\ UNCHANGED streams
     \/ Go("task", "deleteContainer") /\ UNCHANGED <<task, excuses, streams>>
  /\ UNCHANGED <<container, client, conn, progress, audit, resizing>>

\* tsk.Wait asks for the exit status before there can be one.
WaitTask ==
  /\ Go("wait", "start") \/ Go("wait", "kill")
  /\ UNCHANGED <<daemon, client, progress, audit, streams, resizing>>

\* Mutated StartTask: the fifo is unlinked as soon as the program has started.
StartTaskUnlinks ==
  /\ \/ Go("start", "watching") /\ container' = "running"
     \/ Go("start", "kill") /\ container' \in {"created", "running"}
  /\ fifo' = IF fifo = "there" THEN "removed" ELSE fifo
  /\ resizer' = "waiting"
  /\ UNCHANGED <<task, excuses, client, progress, reader, streams, events>>

\* HandleResizing is called first; a failed start may have started the program.
StartTask ==
  /\ \/ Go("start", "watching") /\ container' = "running"
     \/ Go("start", "kill") /\ container' \in {"created", "running"}
  /\ resizer' = "waiting"
  /\ UNCHANGED <<task, excuses, client, progress, audit, streams, events>>

\* Mutated ExitStatus: the handler also waits for the reader of the audit.
ExitStatusAudited ==
  /\ Go("watching", "kill")
  /\ container = "exited" /\ reader \in {"off", "done"}
  /\ UNCHANGED <<daemon, client, progress, audit, streams, resizing>>

\* The exit of the program, and no end of a copier or of the connection.
ExitStatus ==
  /\ Go("watching", "kill")
  /\ container = "exited"
  /\ UNCHANGED <<daemon, client, progress, audit, streams, resizing>>

\* The exit status is an error when the daemon cannot be asked any more.
ExitUnknown ==
  /\ Go("watching", "kill")
  /\ UNCHANGED <<daemon, client, progress, audit, streams, resizing>>

\* Mutated KillTask: the container's deletion is deferred after the task's, and
\* comes first.
KillTaskLast ==
  /\ Go("kill", "deleteContainer")
  /\ container' = IF container \in {"created", "running"} THEN "exited" ELSE container
  /\ UNCHANGED <<task, excuses, client, progress, audit, streams, resizing>>

\* The task's deletion begins by killing it (WithProcessKill), with a timeout.
KillTask ==
  /\ \/ /\ Go("kill", "drain")
        /\ container' = IF container \in {"created", "running"} THEN "exited" ELSE container
        /\ UNCHANGED excuses
     \/ Go("kill", "deleteContainer") /\ Excuse("notRemoved") /\ UNCHANGED container
  /\ UNCHANGED <<task, client, progress, audit, streams, resizing>>

\* Mutated DeleteTask: the copiers are cancelled and not waited for.
DeleteTaskAtOnce ==
  /\ Go("drain", "deleteContainer")
  /\ \/ task' = "deleted" /\ UNCHANGED excuses
     \/ task' \in {"there", "deleted"} /\ Excuse("notRemoved")
  /\ UNCHANGED <<container, client, progress, audit, streams, resizing>>

\* It goes on when the copier of the output has ended.
DeleteTask ==
  /\ stdout = "done"
  /\ Go("drain", "deleteContainer")
  /\ \/ task' = "deleted" /\ UNCHANGED excuses
     \/ task' \in {"there", "deleted"} /\ Excuse("notRemoved")
  /\ UNCHANGED <<container, client, progress, audit, streams, resizing>>

\* The daemon refuses to delete a container that has a task; an error is logged.
DeleteContainer ==
  /\ Go("deleteContainer", "removeFifo")
  /\ \/ task = "there" /\ UNCHANGED <<container, excuses>>
     \/ task # "there" /\ container' = "removed" /\ UNCHANGED excuses
     \/ task # "there" /\ Excuse("notRemoved") /\ UNCHANGED container
  /\ UNCHANGED <<task, client, progress, audit, streams, resizing>>

RemoveFifo ==
  /\ Go("removeFifo", "closeClient")
  /\ fifo' = IF fifo = "there" THEN "removed" ELSE fifo
  /\ UNCHANGED <<daemon, client, progress, reader, streams, resizing>>

CloseClient ==
  /\ Go("closeClient", "respond")
  /\ client' = "closed"
  /\ UNCHANGED <<daemon, progress, audit, streams, resizing>>

\* Mutated Respond: the connection is left open.
RespondOnly ==
  /\ Go("respond", "ended")
  /\ progress' = StopProgress(progress)
  /\ UNCHANGED <<daemon, client, audit, streams, resizing>>

\* The kubelet's ServeAttach writes the status and closes the connection; the
\* context of the request, the progress's parent, is cancelled.
Respond ==
  /\ Go("respond", "ended")
  /\ conn' = "closed"
  /\ progress' = StopProgress(progress)
  /\ UNCHANGED <<daemon, client, audit, stdin, stdout, resizing>>

Handler == StartPull \/ PullEnds \/ MakeFifo \/ Inspect \/ NewContainer \/ NewTask
           \/ WaitTask \/ StartTask \/ ExitStatus \/ KillTask \/ DeleteTask
           \/ DeleteContainer \/ RemoveFifo \/ CloseClient \/ Respond

------------------------------------------------------------------------------
\* The goroutines around the handler.

\* The goroutine ticks until its select picks the cancelled context, shows the
\* progress once more at the next tick, and returns.
LastProgress ==
  /\ Alive
  /\ progress = "last"
  /\ progress' = "done"
  /\ UNCHANGED <<run, daemon, audit, streams, resizing>>

\* os.Open of a fifo waits for a writer, unless the fifo is already gone.
OpenFifo ==
  /\ Alive
  /\ \/ reader = "starting" /\ reader' = IF fifo = "there" THEN "opening" ELSE "done"
     \/ reader = "opening" /\ container = "running" /\ reader' = "reading"
  /\ UNCHANGED <<run, daemon, progress, fifo, streams, resizing>>

\* The end of file, when the last writer has gone.
ReadToEnd ==
  /\ Alive
  /\ reader = "reading"
  /\ container # "running"
  /\ reader' = "done"
  /\ UNCHANGED <<run, daemon, progress, fifo, streams, resizing>>

\* The output ends with the program, or with a client that no longer takes it.
StdoutEnds ==
  /\ Alive
  /\ stdout = "copying"
  /\ container = "exited" \/ conn = "closed"
  /\ stdout' = "done"
  /\ UNCHANGED <<run, daemon, progress, audit, conn, stdin, resizing>>

Beside(step) == Alive /\ step /\ UNCHANGED <<run, daemon, progress, audit>>

\* The program, and whoever kills the agent's pod.  A closed input is not passed
\* on to the program, whose end of the fifo the shim keeps open.
ContainerExits ==
  /\ container = "running"
  /\ container' = "exited"
  /\ UNCHANGED <<run, task, excuses, progress, audit, streams, resizing>>

AgentKilled ==
  /\ pc \notin {"ended", "killed"}
  /\ pc' = "killed"
  /\ conn' = "closed"
  /\ UNCHANGED <<opt, client, daemon, progress, audit, stdin, stdout, resizing>>

\* The request is over, and so are its goroutines unless one is left offering a
\* size that nobody takes or opening a fifo that nobody writes.
Over ==
  /\ pc \in {"ended", "killed"}
  /\ UNCHANGED vars

Next ==
  \/ Handler \/ ExitUnknown \/ LastProgress \/ OpenFifo \/ ReadToEnd \/ StdoutEnds
  \/ Beside(StdinEnds \/ Resizing \/ ClientLeaves)
  \/ ContainerExits \/ AgentKilled \/ Over

\* The daemon answers every request or its timeout does, the pull ends, and the
\* scheduler runs what can run.  Nothing obliges the program to exit or to write
\* to the fifo, the user to end the input, the client to leave or the daemon to
\* be lost.
Fairness ==
  /\ WF_vars(Handler)
  /\ WF_vars(LastProgress)
  /\ WF_vars(reader = "starting" /\ OpenFifo)
  /\ WF_vars(ReadToEnd)
  /\ WF_vars(container = "exited" /\ StdoutEnds)
  /\ WF_vars(conn = "closed" /\ Beside(StdinEnds))
  /\ WF_vars(conn = "closed" /\ Beside(ReadEvent))
  /\ WF_vars(Beside(TakeSize \/ ResizeDone \/ ResizeClosed))

Spec     == Init /\ [][Next]_vars
FairSpec == Spec /\ Fairness

------------------------------------------------------------------------------
\* Properties.

\* The session implements the promise of DebugContainer: of the four deferred
\* functions the two that delete run in the order in which the daemon allows it.
KeepsPromise == Promise!Spec

\* The task and its container are deleted only when the copier of the output has
\* ended: nothing the program wrote is cut off, even when it was killed.
OutputDrained == task = "deleted" \/ container = "removed" => stdout # "copying"

\* The fifo outlives the container into which it is mounted: what the audit shim
\* still has to write when the session ends finds its reader.
FifoOutlivesContainer ==
  fifo = "removed" => container \in {"none", "removed"} \/ excuses # {}

\* A session whose program has exited comes to its end, whatever the reader of the
\* audit and the input do, and with a client that still reads its output or has
\* left: what the program wrote is copied, or refused, before the task is deleted.
ExitEndsSession ==
  pc = "watching" /\ container = "exited" ~> pc \in {"ended", "killed"}

\* The progress of the pull gives way to the session: it does not go on writing
\* over the program's output until the user leaves.
ProgressGivesWay == pc = "watching" ~> progress \in {"off", "done"} \/ pc = "killed"

\* After the response no goroutine of a session that had a task is left behind,
\* but a reader whose fifo the program never opened, and none that has an excuse.
GoroutinesEnd ==
  (pc = "ended" /\ resizer # "off" /\ excuses = {}) ~>
    /\ stdin # "copying" /\ stdout # "copying"
    /\ events = "done" /\ resizer = "done"
    /\ reader \in {"off", "opening", "done"}

\* server.go says that once the connection is closed the server kills the debug
\* container: of a session that is under way, unless the agent itself is killed
\* or cannot remove it.
ClosedKillsContainer ==
  pc = "watching" /\ conn = "closed" ~>
    container = "removed" \/ excuses # {} \/ pc = "killed"
==============================================================================
