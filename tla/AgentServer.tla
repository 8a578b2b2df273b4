----------------------------- MODULE AgentServer -----------------------------
(****************************************************************************)
(* The debug agent as a server: concurrent requests in ServeDebug of        *)
(* pkg/agent/server.go, the constructor of their runtime, and the part of   *)
(* DebugAttacher.DebugContainer that touches the target: the check of lxcfs *)
(* on the node and the bind mounts of its files into the target.  The rest  *)
(* of a session is DockerSession.                                           *)
(*                                                                          *)
(* net/http serves each request in a goroutine of its own.  They share the  *)
(* package variable LxcfsEnabled, written while a request is parsed and     *)
(* read when its attacher is made, and the targets' mounts, which outlive   *)
(* the sessions and the agent.                                              *)
(****************************************************************************)
EXTENDS Naturals

CONSTANTS
  Requests,   \* the requests the agent receives
  Targets,    \* the containers they are about
  ProcFiles,  \* how many files LxcfsProcFiles lists
  Images      \* the images a client or the environment may name

ASSUME FilesAssumption == ProcFiles \in Nat \ {0}

VARIABLES
  server,   \* the process: it serves until it is interrupted
  env,      \* KCTLDBG_RESTRICT_IMAGE_TO
  enabled,  \* LxcfsEnabled
  home,     \* is lxcfs mounted on the node
  rooted,   \* the targets that have the root directory of lxcfs
  at,       \* where each request is
  req,      \* what each request asks
  lxcfs,    \* the lxcfsEnabled of its attacher
  next,     \* the next file to mount into its target
  mounts    \* how many times each file is mounted on in each target

node == <<env, home, rooted>>
vars == <<server, node, enabled, at, req, lxcfs, next, mounts>>

Files == 1 .. ProcFiles
Empty == ""

Switch == {"on", "off"}

\* The parameters: "other" is any value of lxcfsEnabled the agent does not know.
Params == [image : Images \cup {Empty}, lxcfs : {"true", "false", Empty, "other"},
           runtime : {"known", "unsupported"}, target : Targets]

Places == {"away", "parse", "construct", "attach", "check", "info", "mount", "run",
           "refused", "failed", "over"}

\* Every variable has its type: among others, no session goes past the list of
\* LxcfsProcFiles.
TypeOK ==
  /\ server \in {"serving", "stopping", "exited"}
  /\ env \in Images \cup {Empty}
  /\ enabled \in Switch
  /\ home \in BOOLEAN
  /\ rooted \subseteq Targets
  /\ at \in [Requests -> Places]
  /\ req \in [Requests -> Params]
  /\ lxcfs \in [Requests -> Switch \cup {"unset"}]
  /\ next \in [Requests -> 1 .. ProcFiles + 1]
  /\ mounts \in [Targets -> [Files -> Nat]]

Init ==
  /\ server = "serving"
  /\ env \in Images \cup {Empty}
  /\ enabled = "off"
  /\ home \in BOOLEAN
  /\ rooted \in SUBSET Targets
  /\ at = [r \in Requests |-> "away"]
  /\ req \in [Requests -> Params]
  /\ lxcfs = [r \in Requests |-> "unset"]
  /\ next = [r \in Requests |-> 1]
  /\ mounts = [t \in Targets |-> [f \in Files |-> 0]]

------------------------------------------------------------------------------
\* ServeDebug.

Go(r, from, to) ==
  /\ server # "exited"
  /\ at[r] = from
  /\ at' = [at EXCEPT ![r] = to]
  /\ UNCHANGED <<server, node, req>>

Arrive(r) ==
  /\ server = "serving"
  /\ Go(r, "away", "parse")
  /\ UNCHANGED <<enabled, lxcfs, next, mounts>>

\* The environment's image wins over the client's.
ImageOf(params) == IF env # Empty THEN env ELSE params.image

\* Mutated Enabled: what is not "false" enables lxcfs.
EnabledUnless(value, before) ==
  IF value = "false" THEN "off" ELSE "on"

\* A value that is neither leaves the switch as the previous request left it.
Enabled(value, before) ==
  IF value \in {Empty, "false"} THEN "off" ELSE IF value = "true" THEN "on" ELSE before

\* A request without an image, or whose command cannot be parsed, is refused
\* before it reaches LxcfsEnabled.
Parse(r) ==
  /\ \/ Go(r, "parse", "refused") /\ UNCHANGED enabled
     \/ /\ ImageOf(req[r]) # Empty
        /\ Go(r, "parse", "construct")
        /\ enabled' = Enabled(req[r].lxcfs, enabled)
  /\ UNCHANGED <<lxcfs, next, mounts>>

\* NewRuntimeManager: it refuses an unknown runtime, and the client of a known
\* one may not be had.
Construct(r) ==
  /\ \/ Go(r, "construct", "refused")
     \/ req[r].runtime # "unsupported" /\ Go(r, "construct", "attach")
  /\ UNCHANGED <<enabled, lxcfs, next, mounts>>

\* GetAttacher reads LxcfsEnabled again; ServeAttach then makes the streams.
Attach(r) ==
  /\ lxcfs' = [lxcfs EXCEPT ![r] = enabled]
  /\ Go(r, "attach", "check") \/ Go(r, "attach", "failed")
  /\ UNCHANGED <<enabled, next, mounts>>

------------------------------------------------------------------------------
\* DebugContainer, before the image is pulled.

\* Mutated CheckLxcfsMount: it is enough that the target has the directory.
CheckNothing(r) ==
  /\ \/ Go(r, "check", "failed")
     \/ Go(r, "check", IF lxcfs[r] = "on" THEN "info" ELSE "run")
  /\ UNCHANGED <<enabled, lxcfs, next, mounts>>

\* Without lxcfs on the node, or when the node's mounts cannot be read, a
\* session that wants it fails.
CheckLxcfsMount(r) ==
  /\ \/ lxcfs[r] = "off" /\ Go(r, "check", "run")
     \/ lxcfs[r] = "on" /\ home /\ Go(r, "check", "info")
     \/ lxcfs[r] = "on" /\ Go(r, "check", "failed")
  /\ UNCHANGED <<enabled, lxcfs, next, mounts>>

\* SetContainerLxcfs: a target without the root directory is left as it is.
ContainerInfo(r) ==
  /\ \/ Go(r, "info", "failed")
     \/ Go(r, "info", IF req[r].target \in rooted THEN "mount" ELSE "run")
  /\ UNCHANGED <<enabled, lxcfs, next, mounts>>

Mounted(r) ==
  mounts' = [mounts EXCEPT ![req[r].target][next[r]] = @ + 1]

\* Mutated Advance: one mount too many.
AdvancePast(r) ==
  /\ next' = [next EXCEPT ![r] = @ + 1]
  /\ Go(r, "mount", IF next[r] > ProcFiles THEN "run" ELSE "mount")

Advance(r) ==
  /\ next' = [next EXCEPT ![r] = @ + 1]
  /\ Go(r, "mount", IF next[r] = ProcFiles THEN "run" ELSE "mount")

\* Mutated BindMount: a failed mount is logged and the next file is tried.
BindMountAnyway(r) ==
  /\ Advance(r)
  /\ Mounted(r) \/ UNCHANGED mounts
  /\ UNCHANGED <<enabled, lxcfs>>

\* One nsenter per file, in the order of LxcfsProcFiles; the first that fails
\* ends the session, and what was mounted stays.
BindMount(r) ==
  /\ \/ Advance(r) /\ Mounted(r)
     \/ Go(r, "mount", "failed") /\ UNCHANGED <<next, mounts>>
  /\ UNCHANGED <<enabled, lxcfs>>

\* PullImage and RunDebugContainer.
Debug(r) ==
  /\ Go(r, "run", "over")
  /\ UNCHANGED <<enabled, lxcfs, next, mounts>>

------------------------------------------------------------------------------
\* The process.  Once interrupted it accepts no request; it exits when Shutdown
\* returns or, in the goroutine of ListenAndServe, by log.Fatal.  Other signals
\* and the deletion of its pod end it at once.

Interrupt ==
  /\ server = "serving"
  /\ server' = "stopping"
  /\ UNCHANGED <<node, enabled, at, req, lxcfs, next, mounts>>

Exit ==
  /\ server # "exited"
  /\ server' = "exited"
  /\ UNCHANGED <<node, enabled, at, req, lxcfs, next, mounts>>

Exited == server = "exited" /\ UNCHANGED vars

Serve(r) ==
  \/ Arrive(r) \/ Parse(r) \/ Construct(r) \/ Attach(r)
  \/ CheckLxcfsMount(r) \/ ContainerInfo(r) \/ BindMount(r) \/ Debug(r)

Next == (\E r \in Requests : Serve(r)) \/ Interrupt \/ Exit \/ Exited

Spec == Init /\ [][Next]_vars

------------------------------------------------------------------------------
\* Properties.

\* However the sessions of one target interleave, fail or die with the agent,
\* the files of lxcfs it shows are the first ones of the list: each mount of a
\* file follows one of its predecessor.
MountsInOrder ==
  \A t \in Targets : \A f \in Files : f > 1 => mounts[t][f] <= mounts[t][f - 1]

\* A session that goes on to its debug container with lxcfs enabled shows every
\* file of lxcfs in a target that has the root directory, and never does so on a
\* node without lxcfs.
DebugSeesLxcfs ==
  \A r \in Requests : at[r] = "run" /\ lxcfs[r] = "on" =>
    /\ home
    /\ req[r].target \in rooted => \A f \in Files : mounts[req[r].target][f] > 0

\* Nothing is mounted on an agent none of whose requests asked for lxcfs: the
\* switch starts off and a value that is not understood does not turn it on.
LxcfsAsked ==
  (\E t \in Targets, f \in Files : mounts[t][f] > 0) =>
    \E r \in Requests : at[r] \notin {"away", "parse"} /\ req[r].lxcfs = "true"

\* The flag --enable-lxcfs says that it enables lxcfs, so that the target can use
\* its proc files: the session of a request gets what the request asked.
EnablesLxcfs ==
  \A r \in Requests : lxcfs[r] # "unset" =>
    /\ req[r].lxcfs = "true" => lxcfs[r] = "on"
    /\ req[r].lxcfs = "false" => lxcfs[r] = "off"
==============================================================================
