---------------------------- MODULE MCAgentWrap ----------------------------
(***************************************************************************)
(* AgentWrap for TLC, with the mutants that show what each property sees.  *)
(***************************************************************************)
EXTENDS AgentWrap
=============================================================================
