----------------------------- MODULE MCAgentLink -----------------------------
(* AgentLink on small instances.  Without symmetry: connections and minutes  *)
(* are ordered.                                                              *)
EXTENDS AgentLink
=============================================================================
