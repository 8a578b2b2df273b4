---------------------------- MODULE PluginOptions ----------------------------
(****************************************************************************)
(* Where the options of a run come from: LoadFile and Load of               *)
(* pkg/plugin/config.go, and the merge of command line, config file and     *)
(* defaults in DebugOptions.Complete of pkg/plugin/cmd.go.                  *)
(*                                                                          *)
(* Of a value (an image, a port, a label list...) only its origin matters.  *)
(* A switch has the two ways of being off that the code tells apart: cobra  *)
(* knows whether its flag was given, yaml whether its key was there.        *)
(****************************************************************************)

VARIABLES
  phase,    \* of the command
  flags,    \* what the command line gives
  file,     \* what is in the config file, if there is one
  config,   \* the Config that Complete works with
  options   \* the options with which the plugin runs

vars == <<phase, flags, file, config, options>>

Defaulted == {"agentless", "portForward", "isLxcfsEnabled"}
Switches  == Defaulted \cup {"registrySkipTLSVerify"}
Names     == {"agentPort", "image"}   \* the image stands for all the others
Settings  == {"unset", "true", "false"}
Origins   == {"none", "flag", "file", "old", "default"}

Given(origins) == [switch : [Switches -> Settings], value : [Names -> origins]]

\* What a config file says, `old' being the deprecated key of the port.
Contents == [status : {"read"}, given : Given({"none", "file"}), old : BOOLEAN]

\* The zero Config: every switch off, nothing else set.
NoConfig == [switch |-> [s \in Switches |-> "false"], value |-> [n \in Names |-> "none"]]

NoFile == [status : {"missing", "broken"}, given : {NoConfig}, old : {FALSE}]

TypeOK ==
  /\ phase \in {"started", "loaded", "completed", "failed"}
  /\ flags \in Given({"none", "flag"})
  /\ file \in NoFile \cup Contents
  /\ config \in Given(Origins)
  /\ options \in Given(Origins)

Init ==
  /\ phase = "started"
  /\ flags \in Given({"none", "flag"})
  /\ file \in NoFile \cup Contents
  /\ config = NoConfig
  /\ options = NoConfig

\* A key that is there, be it false, overwrites what Load has put in first.
Decoded(contents) ==
  [s \in Switches |->
     IF contents.given.switch[s] # "unset" THEN contents.given.switch[s]
     ELSE IF s \in Defaulted THEN "true" ELSE "false"]

\* The port has an older key, for files without the new one.
PortOf(contents) ==
  IF contents.given.value["agentPort"] = "none" /\ contents.old
  THEN "old" ELSE contents.given.value["agentPort"]

Load(contents) ==
  [switch |-> Decoded(contents),
   value  |-> [contents.given.value EXCEPT !["agentPort"] = PortOf(contents)]]

\* A file that cannot be read or decoded is reported at most, and replaced by
\* the zero Config.
LoadFile ==
  /\ phase = "started"
  /\ phase' = "loaded"
  /\ config' = IF file.status = "read" THEN Load(file) ELSE NoConfig
  /\ UNCHANGED <<flags, file, options>>

\* A flag that was given decides. The insecure registry is not asked that way:
\* either of the two turns it on.
SwitchOf(s) ==
  IF s \in Defaulted
  THEN IF flags.switch[s] = "unset" THEN config.switch[s] ELSE flags.switch[s]
  ELSE IF flags.switch[s] = "true" THEN "true" ELSE config.switch[s]

\* The first of the three that is not empty or zero.
FirstOf(flag, other) ==
  IF flag # "none" THEN flag ELSE IF other # "none" THEN other ELSE "default"

Merge ==
  [switch |-> [s \in Switches |-> SwitchOf(s)],
   value  |-> [n \in Names |-> FirstOf(flags.value[n], config.value[n])]]

\* Complete may also fail on the kubeconfig, before the merge or after it.
Complete ==
  /\ phase = "loaded"
  /\ \/ phase' = "completed" /\ options' = Merge
     \/ phase' = "failed" /\ options' \in {options, Merge}
  /\ UNCHANGED <<flags, file, config>>

Done == phase \in {"completed", "failed"} /\ UNCHANGED vars

Next == LoadFile \/ Complete \/ Done

Spec == Init /\ [][Next]_vars

------------------------------------------------------------------------------
\* Properties.

Silent(s) == file.status # "read" \/ file.given.switch[s] = "unset"

\* The help of the flags and README.md say that agentless mode, the port-forward
\* and lxcfs default to true: when neither the command line nor the file says
\* otherwise, they are on.
DefaultsToTrue ==
  phase = "completed" =>
    \A s \in Defaulted : flags.switch[s] = "unset" /\ Silent(s) => options.switch[s] = "true"
==============================================================================
