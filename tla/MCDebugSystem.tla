---------------------------- MODULE MCDebugSystem ----------------------------
(****************************************************************************)
(* DebugSystem with an agent of its own or of a daemonset, with and without *)
(* port-forward and terminal; a forked pod is PluginRun's matter alone.     *)
(****************************************************************************)
EXTENDS DebugSystem

NoFork == {o \in Options : ~o.Fork}
==============================================================================
