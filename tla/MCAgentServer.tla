---------------------------- MODULE MCAgentServer ----------------------------
(****************************************************************************)
(* AgentServer with two requests, so that the flag of one can fall in the   *)
(* other's window, on one or two targets, and two files, so that a list can *)
(* be mounted half.  The requests are interchangeable, and so are the       *)
(* targets.                                                                 *)
(****************************************************************************)
EXTENDS AgentServer, TLC

Symmetry == Permutations(Requests) \cup Permutations(Targets)
==============================================================================
