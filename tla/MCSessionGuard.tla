--------------------------- MODULE MCSessionGuard ---------------------------
(* Instances of SessionGuard for TLC. *)
EXTENDS SessionGuard, TLC

Symmetry == Permutations(Csg) \cup Permutations(Hook) \cup Permutations(Session)
=============================================================================
