-------------------------- MODULE AgentServerProofs --------------------------
(****************************************************************************)
(* The safety properties of AgentServer, for any requests, finitely many or *)
(* not, any targets and any number of files.                                *)
(*                                                                          *)
(* The argument is a count: the mounts on a file of a target are as many as *)
(* the sessions that have gone past the file there, and a session past a    *)
(* file is past the one before it.                                          *)
(****************************************************************************)
EXTENDS AgentServer, FiniteSetTheorems, TLAPS

\* The sessions that have mounted a file on their target.
Past(t, f) == {r \in Requests : req[r].target = t /\ next[r] > f}

\* Every mount is one session's, and no session mounts a file twice.
MountsCounted ==
  \A t \in Targets, f \in Files :
    IsFiniteSet(Past(t, f)) /\ mounts[t][f] = Cardinality(Past(t, f))

\* What a session has checked and done at each place.
SessionByPlace ==
  \A r \in Requests :
    /\ at[r] \in {"info", "mount"} => lxcfs[r] = "on"
    /\ at[r] \in {"info", "mount", "run"} /\ lxcfs[r] = "on" => home
    /\ at[r] = "mount" => req[r].target \in rooted /\ next[r] \in Files
    /\ at[r] \in {"away", "parse", "construct", "attach", "check", "info"} => next[r] = 1
    /\ at[r] = "run" /\ lxcfs[r] = "on" /\ req[r].target \in rooted => next[r] > ProcFiles
    /\ next[r] > 1 => lxcfs[r] = "on"

\* The requests for lxcfs that ServeDebug has parsed.
Asked == {r \in Requests : at[r] \notin {"away", "parse"} /\ req[r].lxcfs = "true"}

\* The switch and its copies in the attachers are on only after such a request.
SwitchAsked ==
  enabled = "on" \/ (\E r \in Requests : lxcfs[r] = "on") => Asked # {}

IInv == TypeOK /\ MountsCounted /\ SessionByPlace /\ SwitchAsked

------------------------------------------------------------------------------

\* IInv holds when the agent starts: nobody has gone past a file.
LEMMA InitInv == Init => IInv
<1> SUFFICES ASSUME Init PROVE IInv
  OBVIOUS
<1> USE FilesAssumption DEF Init
<1>1. TypeOK
  BY DEF TypeOK, Switch, Places, Files
<1>2. ASSUME NEW t \in Targets, NEW f \in Files
      PROVE  IsFiniteSet(Past(t, f)) /\ mounts[t][f] = Cardinality(Past(t, f))
  <2>1. Past(t, f) = {}
    BY DEF Past, Files
  <2> QED
    BY <2>1, FS_EmptySet
<1>3. SessionByPlace /\ SwitchAsked
  BY DEF SessionByPlace, SwitchAsked
<1> QED
  BY <1>1, <1>2, <1>3 DEF IInv, MountsCounted

\* A step that moves no session past a file and mounts nothing leaves the count
\* as it is.
LEMMA CountKept ==
  ASSUME MountsCounted, UNCHANGED <<req, next, mounts>>
  PROVE  MountsCounted'
  BY DEF MountsCounted, Past

\* A session that mounts its next file goes past it, and past no other.
LEMMA CountGrows ==
  ASSUME TypeOK, MountsCounted, NEW r \in Requests, next[r] \in Files,
         Mounted(r), next' = [next EXCEPT ![r] = @ + 1], UNCHANGED req
  PROVE  MountsCounted'
<1> SUFFICES ASSUME NEW t \in Targets, NEW f \in Files
             PROVE  IsFiniteSet(Past(t, f)') /\ mounts'[t][f] = Cardinality(Past(t, f)')
  BY DEF MountsCounted
<1>0. /\ next \in [Requests -> Nat] /\ mounts \in [Targets -> [Files -> Nat]] /\ f \in Nat
      /\ req[r].target \in Targets
  BY FilesAssumption DEF TypeOK, Params, Files
<1>1. IsFiniteSet(Past(t, f)) /\ mounts[t][f] = Cardinality(Past(t, f))
  BY DEF MountsCounted
<1>2. CASE t = req[r].target /\ f = next[r]
  <2>1. Past(t, f)' = Past(t, f) \cup {r} /\ r \notin Past(t, f)
    BY <1>0, <1>2 DEF Past
  <2>2. mounts'[t][f] = mounts[t][f] + 1
    BY <1>0, <1>2 DEF Mounted
  <2> QED
    BY <1>1, <2>1, <2>2, FS_AddElement
<1>3. CASE ~(t = req[r].target /\ f = next[r])
  <2>1. Past(t, f)' = Past(t, f)
    BY <1>0, <1>3 DEF Past
  <2>2. mounts'[t][f] = mounts[t][f]
    BY <1>0, <1>3 DEF Mounted
  <2> QED
    BY <1>1, <2>1, <2>2
<1> QED
  BY <1>2, <1>3

\* Once ServeDebug has parsed a request it has parsed it for good.
LEMMA AskedGrows ==
  ASSUME TypeOK, NEW r \in Requests, UNCHANGED req, NEW p \in Places,
         at' = [at EXCEPT ![r] = p], at[r] \in {"away", "parse"} \/ p \notin {"away", "parse"}
  PROVE  Asked \subseteq Asked'
  BY DEF TypeOK, Asked

\* Every step of the agent preserves IInv.
LEMMA StepInv == IInv /\ [Next]_vars => IInv'
<1> SUFFICES ASSUME IInv, [Next]_vars PROVE IInv'
  OBVIOUS
<1> USE FilesAssumption DEF IInv, Go, node
<1>1. ASSUME NEW r \in Requests, Arrive(r) PROVE IInv'
  <2> USE <1>1 DEF Arrive
  <2>1. TypeOK'
    BY DEF TypeOK, Places
  <2>2. MountsCounted'
    BY CountKept
  <2>3. SessionByPlace'
    BY DEF TypeOK, SessionByPlace
  <2>4. SwitchAsked'
    BY AskedGrows DEF SwitchAsked, Places
  <2> QED
    BY <2>1, <2>2, <2>3, <2>4
<1>2. ASSUME NEW r \in Requests, Parse(r) PROVE IInv'
  <2> USE <1>2 DEF Parse
  <2>1. TypeOK'
    BY DEF TypeOK, Places, Enabled, Switch
  <2>2. MountsCounted'
    BY CountKept
  <2>3. SessionByPlace'
    BY DEF TypeOK, SessionByPlace
  <2>4. Asked \subseteq Asked'
    BY AskedGrows DEF Places
  <2>5. enabled' = "on" => enabled = "on" \/ r \in Asked'
    BY DEF TypeOK, Enabled, Empty, Asked
  <2>6. SwitchAsked'
    BY <2>4, <2>5 DEF SwitchAsked
  <2> QED
    BY <2>1, <2>2, <2>3, <2>6
<1>3. ASSUME NEW r \in Requests, Construct(r) PROVE IInv'
  <2> USE <1>3 DEF Construct
  <2>1. TypeOK'
    BY DEF TypeOK, Places
  <2>2. MountsCounted'
    BY CountKept
  <2>3. SessionByPlace'
    BY DEF TypeOK, SessionByPlace
  <2>4. SwitchAsked'
    BY AskedGrows DEF SwitchAsked, Places
  <2> QED
    BY <2>1, <2>2, <2>3, <2>4
<1>4. ASSUME NEW r \in Requests, Attach(r) PROVE IInv'
  <2> USE <1>4 DEF Attach
  <2>1. TypeOK'
    BY DEF TypeOK, Places
  <2>2. MountsCounted'
    BY CountKept
  <2>3. SessionByPlace'
    BY DEF TypeOK, SessionByPlace
  <2>4. Asked \subseteq Asked'
    BY AskedGrows DEF Places
  <2>5. (\E q \in Requests : lxcfs'[q] = "on") => enabled = "on" \/ (\E q \in Requests : lxcfs[q] = "on")
    BY DEF TypeOK
  <2>6. SwitchAsked'
    BY <2>4, <2>5 DEF SwitchAsked
  <2> QED
    BY <2>1, <2>2, <2>3, <2>6
<1>5. ASSUME NEW r \in Requests, CheckLxcfsMount(r) PROVE IInv'
  <2> USE <1>5 DEF CheckLxcfsMount
  <2>1. TypeOK'
    BY DEF TypeOK, Places
  <2>2. MountsCounted'
    BY CountKept
  <2>3. SessionByPlace'
    BY DEF TypeOK, SessionByPlace
  <2>4. SwitchAsked'
    BY AskedGrows DEF SwitchAsked, Places
  <2> QED
    BY <2>1, <2>2, <2>3, <2>4
<1>6. ASSUME NEW r \in Requests, ContainerInfo(r) PROVE IInv'
  <2> USE <1>6 DEF ContainerInfo
  <2>1. TypeOK'
    BY DEF TypeOK, Places
  <2>2. MountsCounted'
    BY CountKept
  <2>3. SessionByPlace'
    BY DEF TypeOK, SessionByPlace, Files
  <2>4. SwitchAsked'
    BY AskedGrows DEF SwitchAsked, Places
  <2> QED
    BY <2>1, <2>2, <2>3, <2>4
<1>7. ASSUME NEW r \in Requests, BindMount(r) PROVE IInv'
  <2> USE <1>7 DEF BindMount
  <2>0. next[r] \in Files /\ lxcfs[r] = "on" /\ home
    BY DEF SessionByPlace, Advance
  <2>1. TypeOK'
    <3>1. CASE Advance(r) /\ Mounted(r)
      <4>1. at' \in [Requests -> Places] /\ next' \in [Requests -> 1 .. ProcFiles + 1]
        BY <2>0, <3>1 DEF TypeOK, Advance, Places, Files
      <4>2. mounts' \in [Targets -> [Files -> Nat]]
        BY <2>0, <3>1 DEF TypeOK, Mounted, Params
      <4> QED
        BY <3>1, <4>1, <4>2 DEF TypeOK, Advance
    <3>2. CASE UNCHANGED <<next, mounts>>
      BY <3>2 DEF TypeOK, Advance, Places
    <3> QED
      BY <3>1, <3>2
  <2>2. MountsCounted'
    BY <2>0, CountKept, CountGrows DEF Advance
  <2>3. SessionByPlace'
    <3>1. CASE Advance(r) /\ Mounted(r)
      <4> USE <3>1 DEF TypeOK, SessionByPlace, Advance
      <4>1. /\ next'[r] = next[r] + 1 /\ next[r] \in 1 .. ProcFiles
            /\ at'[r] = IF next[r] = ProcFiles THEN "run" ELSE "mount"
            /\ \A q \in Requests \ {r} : next'[q] = next[q] /\ at'[q] = at[q]
        BY <2>0 DEF Files
      <4> QED
        BY <2>0, <4>1 DEF Files
    <3>2. CASE Go(r, "mount", "failed") /\ UNCHANGED <<next, mounts>>
      BY <3>2 DEF TypeOK, SessionByPlace
    <3> QED
      BY <3>1, <3>2
  <2>4. SwitchAsked'
    BY AskedGrows DEF SwitchAsked, Places, Advance
  <2> QED
    BY <2>1, <2>2, <2>3, <2>4
<1>8. ASSUME NEW r \in Requests, Debug(r) PROVE IInv'
  <2> USE <1>8 DEF Debug
  <2>1. TypeOK'
    BY DEF TypeOK, Places
  <2>2. MountsCounted'
    BY CountKept
  <2>3. SessionByPlace'
    BY DEF TypeOK, SessionByPlace
  <2>4. SwitchAsked'
    BY AskedGrows DEF SwitchAsked, Places
  <2> QED
    BY <2>1, <2>2, <2>3, <2>4
<1>9. ASSUME Interrupt \/ Exit PROVE IInv'
  <2>1. MountsCounted'
    BY <1>9, CountKept DEF Interrupt, Exit
  <2> QED
    BY <1>9, <2>1 DEF Interrupt, Exit, TypeOK, SessionByPlace, SwitchAsked, Asked
<1>10. CASE UNCHANGED vars
  <2>1. MountsCounted'
    BY <1>10, CountKept DEF vars
  <2> QED
    BY <1>10, <2>1 DEF vars, TypeOK, SessionByPlace, SwitchAsked, Asked
<1> QED
  BY <1>1, <1>2, <1>3, <1>4, <1>5, <1>6, <1>7, <1>8, <1>9, <1>10 DEF Next, Serve, Exited

\* IInv is an invariant of the agent.
THEOREM Invariance == Spec => []IInv
  BY InitInv, StepInv, PTL DEF Spec

------------------------------------------------------------------------------

\* The agent keeps its types: no session goes past the list of LxcfsProcFiles.
THEOREM TypeCorrect == Spec => []TypeOK
<1>1. IInv => TypeOK
  BY DEF IInv
<1> QED
  BY <1>1, Invariance, PTL

\* The files of lxcfs a target shows are the first ones of the list, however the
\* sessions on it interleave and fail: who is past a file is past the one before.
THEOREM FirstFilesFirst == Spec => []MountsInOrder
<1>1. IInv => MountsInOrder
  <2> SUFFICES ASSUME IInv, NEW t \in Targets, NEW f \in Files, f > 1
               PROVE  mounts[t][f] <= mounts[t][f - 1]
    BY DEF MountsInOrder
  <2>1. f - 1 \in Files
    BY FilesAssumption DEF Files
  <2>2. Past(t, f) \in SUBSET Past(t, f - 1)
    BY FilesAssumption DEF IInv, TypeOK, Past, Files
  <2>3. /\ mounts[t][f] = Cardinality(Past(t, f))
        /\ IsFiniteSet(Past(t, f - 1)) /\ mounts[t][f - 1] = Cardinality(Past(t, f - 1))
    BY <2>1 DEF IInv, MountsCounted
  <2> QED
    BY <2>2, <2>3, FS_Subset
<1> QED
  BY <1>1, Invariance, PTL

\* A debug container starts with every file of lxcfs in the target it asked them
\* for, and never where the node has no lxcfs.
THEOREM LxcfsComplete == Spec => []DebugSeesLxcfs
<1>1. IInv => DebugSeesLxcfs
  <2> SUFFICES ASSUME IInv, NEW r \in Requests, at[r] = "run", lxcfs[r] = "on"
               PROVE  home /\ (req[r].target \in rooted =>
                                 \A f \in Files : mounts[req[r].target][f] > 0)
    BY DEF DebugSeesLxcfs
  <2>1. home
    BY DEF IInv, SessionByPlace
  <2>2. ASSUME req[r].target \in rooted, NEW f \in Files PROVE mounts[req[r].target][f] > 0
    <3> DEFINE t == req[r].target
    <3>1. t \in Targets
      BY DEF IInv, TypeOK, Params
    <3>2. r \in Past(t, f)
      BY <2>2, FilesAssumption DEF IInv, TypeOK, SessionByPlace, Past, Files
    <3>3. IsFiniteSet(Past(t, f)) /\ mounts[t][f] = Cardinality(Past(t, f))
      BY <3>1, <2>2 DEF IInv, MountsCounted
    <3> QED
      BY <3>2, <3>3, FS_EmptySet, FS_CardinalityType
  <2> QED
    BY <2>1, <2>2
<1> QED
  BY <1>1, Invariance, PTL

\* Nothing is mounted unless some request asked for lxcfs: the switch that
\* requests share can leak from one to another, and cannot turn on by itself.
THEOREM NothingUnasked == Spec => []LxcfsAsked
<1>1. IInv => LxcfsAsked
  <2> SUFFICES ASSUME IInv, NEW t \in Targets, NEW f \in Files, mounts[t][f] > 0
               PROVE  Asked # {}
    BY DEF LxcfsAsked, Asked
  <2>1. Past(t, f) # {}
    BY FS_EmptySet DEF IInv, MountsCounted
  <2>2. PICK r \in Requests : next[r] > f
    BY <2>1 DEF Past
  <2>3. lxcfs[r] = "on"
    BY <2>2, FilesAssumption DEF IInv, TypeOK, SessionByPlace, Files
  <2> QED
    BY <2>3 DEF IInv, SwitchAsked
<1> QED
  BY <1>1, Invariance, PTL
==============================================================================
