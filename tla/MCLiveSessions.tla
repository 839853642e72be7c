--------------------------- MODULE MCLiveSessions ---------------------------
(* Instances of LiveSessions for TLC. *)
EXTENDS LiveSessions, TLC

Symmetry == Permutations(Conns)
=============================================================================
