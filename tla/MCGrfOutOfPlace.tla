-------------------------- MODULE MCGrfOutOfPlace --------------------------
(* GrfOutOfPlace for every archive and every patch over a few paths.         *)
EXTENDS GrfOutOfPlace, TLC

Symmetry == Permutations(Path)
=============================================================================
