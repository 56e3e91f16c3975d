------------------------------ MODULE MCResume ------------------------------
(* A small instance of Resume for TLC: two directories, in either order in  *)
(* PATH, and a name that Windows also tries with an extension.              *)
EXTENDS Resume, TLC

CONSTANTS d1, d2

MCPlace == {d1, d2}
MCName  == {"codex", "codex.cmd", "csg"}
MCBatch == [name \in MCName |-> IF name = "codex.cmd" THEN <<name>>
                                ELSE IF name = "codex" THEN <<name, "codex.cmd">> ELSE <<name>>]
MCPath  == {<<d1, d2>>, <<d2, d1>>}
MCLine  == UNION {[1..n -> Argument] : n \in 0..4}
Symmetry == Permutations(MCPlace) \cup Permutations(Pid)
=============================================================================
