---------------------------- MODULE DockerSession ----------------------------
(****************************************************************************)
(* One debug request on a node with docker: the part of pkg/agent that runs *)
(* after ServeDebug has parsed it, in the goroutines that serve it.         *)
(*                                                                          *)
(*   - handler, at pc: PullImage, RunDebugContainer and its deferred        *)
(*     CleanContainer, then the status and the close of the connection;     *)
(*   - stdin and stdout: the two copiers of holdHijackedConnection;         *)
(*   - events and resizer: the bringers of terminal sizes (SessionStreams). *)
(*                                                                          *)
(* Around them the docker daemon, which keeps the image and the container,  *)
(* the program in the container, the client, which may leave, and whoever   *)
(* kills the agent's pod.                                                   *)
(****************************************************************************)
EXTENDS SessionStreams

VARIABLES
  pc,         \* where the handler is
  image,      \* is the debug image on the node
  container,  \* the debug container
  excuses     \* why it may be left behind (a history)

session == <<pc, image, container, excuses>>
vars == <<session, streams, resizing>>

Promise == INSTANCE DebugContainer WITH
  phase <- CASE pc \in {"pull", "create", "start"} -> "preparing"
             [] pc \in {"attach", "copying"}       -> "open"
             [] pc \in {"clean", "remove", "respond"} -> "closing"
             [] OTHER -> pc

Types ==
  /\ pc \in {"pull", "create", "start", "attach", "copying", "clean", "remove",
             "respond", "ended", "killed"}
  /\ image \in {"absent", "present"}
  /\ container \in Promise!Containers
  /\ excuses \subseteq Promise!Reasons
  /\ StreamTypes

\* A container is started when it is created, attached to, waited for and removed
\* when it was started, and still there at the answer only with an excuse.
ContainerByPlace ==
  /\ pc \in {"pull", "create"} => container = "none"
  /\ pc = "start" => container = "created"
  /\ pc \in {"attach", "copying", "clean", "remove"} => container \in {"running", "exited"}
  /\ pc \in {"respond", "ended"} =>
       container \in {"none", "removed"} \/ excuses # {}
  /\ container = "removed" => pc \in {"respond", "ended", "killed"}

\* The copier of the output runs only while the handler waits for it.
OutputByPlace ==
  /\ pc \in {"pull", "create", "start", "attach"} => stdout = "idle"
  /\ pc \in {"clean", "remove", "respond", "ended"} => stdout \in {"idle", "done"}

\* At each place of the handler every variable has a value that it can have there:
\* no call is made of a container that is not there, or not any more, and the
\* copier of the output sends its result only to a handler that receives it.
TypeOK == Types /\ ContainerByPlace /\ OutputByPlace

Init ==
  /\ pc = "pull"
  /\ image \in {"absent", "present"}
  /\ container = "none"
  /\ excuses = {}
  /\ StreamsInit

------------------------------------------------------------------------------
\* The handler.

Alive == pc # "killed"

Go(from, to) == pc = from /\ pc' = to

Excuse(r) == excuses' = excuses \cup {r}

\* The daemon accepts the pull or refuses it; the errors of its progress stream
\* are never looked at, and a quiet pull closes the stream unread, so that the
\* image may be absent when PullImage has returned without an error.
PullImage ==
  /\ \/ Go("pull", "respond") /\ UNCHANGED image
     \/ Go("pull", "create") /\ image' \in {image, "present"}
  /\ UNCHANGED <<container, excuses, streams, resizing>>

\* Mutated CreateContainer: its error is not looked at.
CreateContainerUnchecked ==
  /\ Go("create", "start")
  /\ \/ image = "present" /\ container' = "created"
     \/ UNCHANGED container
  /\ UNCHANGED <<image, excuses, streams, resizing>>

\* The request has a timeout of its own: a container may have been created
\* although the call returns an error.
CreateContainer ==
  /\ \/ /\ image = "present"
        /\ container' = "created"
        /\ \/ Go("create", "start") /\ UNCHANGED excuses
           \/ Go("create", "respond") /\ Excuse("lostReply")
     \/ Go("create", "respond") /\ UNCHANGED <<container, excuses>>
  /\ UNCHANGED <<image, streams, resizing>>

\* RunDebugContainer defers CleanContainer only after a successful start.
StartContainer ==
  /\ \/ Go("start", "attach") /\ container' = "running" /\ UNCHANGED excuses
     \/ Go("start", "respond") /\ container' \in {"created", "running"} /\ Excuse("notStarted")
  /\ UNCHANGED <<image, streams, resizing>>

\* Mutated AttachToContainer: without the input, as for a session that only looks.
AttachWithoutInput ==
  /\ resizer' = "waiting"
  /\ \/ Go("attach", "copying") /\ stdout' = "copying"
     \/ Go("attach", "clean") /\ UNCHANGED stdout
  /\ UNCHANGED <<image, container, excuses, conn, stdin, events>>

\* HandleResizing is called before the attach request.
AttachToContainer ==
  /\ resizer' = "waiting"
  /\ \/ Go("attach", "copying") /\ stdin' = "copying" /\ stdout' = "copying"
     \/ Go("attach", "clean") /\ UNCHANGED <<stdin, stdout>>
  /\ UNCHANGED <<image, container, excuses, conn, events>>

\* Mutated HoldConnection: the session waits for the end of the input as well.
HoldConnectionBoth ==
  /\ stdout = "sending" /\ stdin = "done"
  /\ stdout' = "done"
  /\ Go("copying", "clean")
  /\ UNCHANGED <<image, container, excuses, conn, stdin, resizing>>

\* Mutated HoldConnection: the end of the input ends the session.
HoldConnectionInput ==
  /\ stdin = "done" \/ stdout = "sending"
  /\ stdout' = IF stdout = "sending" THEN "done" ELSE stdout
  /\ Go("copying", "clean")
  /\ UNCHANGED <<image, container, excuses, conn, stdin, resizing>>

\* holdHijackedConnection waits for the output, whether or not the input has
\* ended first.
HoldConnection ==
  /\ stdout = "sending"
  /\ stdout' = "done"
  /\ Go("copying", "clean")
  /\ UNCHANGED <<image, container, excuses, conn, stdin, resizing>>

\* Mutated WaitContainer: a container that does not stop in time is left alone.
WaitContainerOnly ==
  /\ Go("clean", "remove") \/ Go("clean", "respond")
  /\ UNCHANGED <<image, container, excuses, streams, resizing>>

\* CleanContainer waits for the container to stop, for a bounded time.
WaitContainer ==
  /\ Go("clean", "remove")
  /\ UNCHANGED <<image, container, excuses, streams, resizing>>

\* The removal is forced; if it fails the agent logs it and goes on.
RmContainer ==
  /\ Go("remove", "respond")
  /\ \/ container' = "removed" /\ UNCHANGED excuses
     \/ Excuse("notRemoved") /\ UNCHANGED container
  /\ UNCHANGED <<image, streams, resizing>>

\* Mutated Respond: the connection is left open.
RespondOnly ==
  /\ Go("respond", "ended")
  /\ UNCHANGED <<image, container, excuses, streams, resizing>>

\* The kubelet's ServeAttach writes the status and closes the connection.
Respond ==
  /\ Go("respond", "ended")
  /\ conn' = "closed"
  /\ UNCHANGED <<image, container, excuses, stdin, stdout, resizing>>

Handler == PullImage \/ CreateContainer \/ StartContainer \/ AttachToContainer
           \/ HoldConnection \/ WaitContainer \/ RmContainer \/ Respond

------------------------------------------------------------------------------
\* The goroutines around the handler, the program in the container, the client,
\* and the agent's pod.

\* The output ends with the container, with a client that no longer takes it, or
\* because the daemon detaches an attach whose input has ended.
StdoutEnds ==
  /\ Alive
  /\ stdout = "copying"
  /\ container # "running" \/ conn = "closed" \/ stdin = "done"
  /\ stdout' = "sending"
  /\ UNCHANGED <<session, conn, stdin, resizing>>

StdoutDrained == (container # "running" \/ stdin = "done") /\ StdoutEnds

\* The copier of the input, the resizing goroutines and the client touch nothing
\* of the session itself.
Beside(step) == Alive /\ step /\ UNCHANGED session

ContainerExits ==
  /\ container = "running"
  /\ container' = "exited"
  /\ UNCHANGED <<pc, image, excuses, streams, resizing>>

AgentKilled ==
  /\ pc \notin {"ended", "killed"}
  /\ pc' = "killed"
  /\ conn' = "closed"
  /\ UNCHANGED <<image, container, excuses, stdin, stdout, resizing>>

\* The request is over, and so are its goroutines unless one is left offering a
\* size to a session that never took any.
Over ==
  /\ pc \in {"ended", "killed"}
  /\ UNCHANGED vars

Next ==
  \/ Handler \/ StdoutEnds
  \/ Beside(StdinEnds \/ Resizing \/ ClientLeaves)
  \/ ContainerExits \/ AgentKilled \/ Over

\* The daemon answers every request or its timeout does, ends an attach whose
\* container or input has ended, and the scheduler runs what can run.  Nothing
\* obliges the program to exit, the user to end the input or the client to leave.
Fairness ==
  /\ WF_vars(Handler)
  /\ WF_vars(conn = "closed" /\ Beside(StdinEnds))
  /\ WF_vars(StdoutDrained)
  /\ WF_vars(conn = "closed" /\ Beside(ReadEvent))
  /\ WF_vars(Beside(TakeSize \/ ResizeDone \/ ResizeClosed))

Spec     == Init /\ [][Next]_vars
FairSpec == Spec /\ Fairness

------------------------------------------------------------------------------
\* Properties.

\* The session implements the promise of DebugContainer.
KeepsPromise == Promise!Spec

\* A container is removed only when the copier of its output has ended: nothing
\* the program wrote is cut off by the removal, even when the client left first.
OutputDrained == container = "removed" => stdout \in {"idle", "done"}

\* A session whose program has exited, or whose client has left, comes to its
\* end: a dead connection ends the input, and so the attach, before the program.
ClosingEndsSession ==
  pc = "copying" /\ (container = "exited" \/ conn = "closed") ~> pc \in {"ended", "killed"}

\* After the response no goroutine of an attached session is left behind: not
\* the copiers, one of which nobody waits for, nor the resizing pair.
GoroutinesEnd ==
  (pc = "ended" /\ resizer # "off") ~>
    (stdin # "copying" /\ stdout \in {"idle", "done"} /\ events = "done" /\ resizer = "done")
==============================================================================
