------------------------- MODULE MCServerConnections -------------------------
(* ServerConnections on small instances. *)
EXTENDS ServerConnections, TLC

Symmetry == Permutations(Conns)
=============================================================================
