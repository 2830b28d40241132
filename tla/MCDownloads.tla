---------------------------- MODULE MCDownloads ----------------------------
(* Downloads of every list of up to three patches, in the order of           *)
(* patch_list_from_string, with repeated names and repeated indices.         *)
EXTENDS Downloads, TLC

MCLists ==
  {l \in UNION {[1 .. n -> [index : 1 .. 2, file : File]] : n \in 0 .. 3} :
     \A i, j \in DOMAIN l : i < j => l[i].index <= l[j].index}

Symmetry == Permutations(File)
=============================================================================
