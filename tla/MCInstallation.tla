--------------------------- MODULE MCInstallation ---------------------------
(* Instances of Installation for TLC. *)
EXTENDS Installation, TLC

Symmetry == Permutations(Version) \cup Permutations(Dir) \cup Permutations(UserHandler)
=============================================================================
