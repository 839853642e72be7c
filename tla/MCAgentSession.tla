--------------------------- MODULE MCAgentSession ---------------------------
(* AgentSession on small instances. *)
EXTENDS AgentSession, TLC

Symmetry == Permutations(Callers)

(* Nothing is promised after a race but what AbortIsHeard says. *)
NoRaceYet == ~raced
=============================================================================
