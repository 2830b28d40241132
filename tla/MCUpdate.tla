------------------------------- MODULE MCUpdate -------------------------------
(* Update with patches of both files of a game, and of one of them.               *)
EXTENDS Update, TLC

MCFile == {"grf", "exe"}
MCWrites ==
  [k \in 1 .. LastPatch |->
     CASE k = 1 -> MCFile [] k = 2 -> {"grf"} [] k = 3 -> MCFile [] OTHER -> {"exe"}]

Symmetry == Permutations(Instance)
=============================================================================
