---------------------------- MODULE DebugContainer ----------------------------
(****************************************************************************)
(* What the agent promises of the container of one debug session, whatever  *)
(* the container runtime: it exists from its creation to its removal, it is *)
(* removed only after the session has closed, and a session ends leaving    *)
(* one behind only for a reason that this specification can name.           *)
(* DockerSession and ContainerdSession implement it.                        *)
(****************************************************************************)

VARIABLES
  phase,      \* of the session
  container,  \* of the session, in the container runtime
  excuses     \* why the container may be left behind

vars == <<phase, container, excuses>>

Phases     == {"preparing", "open", "closing", "ended", "killed"}
Containers == {"none", "created", "running", "exited", "removed"}

\* The runtime did it and the reply was lost; it could not be started; it could
\* not be removed.
Reasons == {"lostReply", "notStarted", "notRemoved"}

Excuse(r) == excuses' = excuses \cup {r}

\* A session that gave up on a container it has created may still remove it, and
\* then needs no excuse.
GivenUp == UNCHANGED excuses \/ Excuse("notStarted") \/ Excuse("lostReply")

Init ==
  /\ phase = "preparing"
  /\ container = "none"
  /\ excuses = {}

Create ==
  /\ phase = "preparing"
  /\ container = "none"
  /\ container' = "created"
  /\ \/ UNCHANGED <<phase, excuses>>
     \/ phase' = "closing" /\ Excuse("lostReply")

Start ==
  /\ phase = "preparing"
  /\ container = "created"
  /\ container' = "running"
  /\ \/ phase' = "open" /\ UNCHANGED excuses
     \/ phase' = "closing" /\ GivenUp

GiveUp ==
  /\ phase = "preparing"
  /\ phase' = "closing"
  /\ IF container = "none" THEN UNCHANGED excuses ELSE GivenUp
  /\ UNCHANGED container

Close ==
  /\ phase = "open"
  /\ phase' = "closing"
  /\ UNCHANGED <<container, excuses>>

\* The program exits, or is killed, which may be before it was started.
Exit ==
  /\ container \in {"created", "running"}
  /\ container' = "exited"
  /\ UNCHANGED <<phase, excuses>>

Remove ==
  /\ phase = "closing"
  /\ container \in {"created", "running", "exited"}
  /\ \/ container' = "removed" /\ UNCHANGED <<phase, excuses>>
     \/ Excuse("notRemoved") /\ UNCHANGED <<phase, container>>

End ==
  /\ phase = "closing"
  /\ container \in {"none", "removed"} \/ excuses # {}
  /\ phase' = "ended"
  /\ UNCHANGED <<container, excuses>>

Kill ==
  /\ phase \notin {"ended", "killed"}
  /\ phase' = "killed"
  /\ UNCHANGED <<container, excuses>>

Next == Create \/ Start \/ GiveUp \/ Close \/ Exit \/ Remove \/ End \/ Kill

Spec == Init /\ [][Next]_vars

\* The types of the three variables.
TypeOK ==
  /\ phase \in Phases
  /\ container \in Containers
  /\ excuses \subseteq Reasons

\* A session that ended without an excuse left no debug container on the node.
NothingLeft ==
  phase = "ended" /\ excuses = {} => container \in {"none", "removed"}

\* A removed container was never removed under an open session, and stays so.
RemovalIsFinal ==
  container = "removed" => phase \in {"closing", "ended", "killed"}
==============================================================================
