---------------------------- MODULE MCGrfInPlace ----------------------------
(* GrfInPlace on every small archive and every small patch.                  *)
EXTENDS GrfInPlace, TLC

CONSTANTS Sizes, MaxImports

MCArchives ==
  LET Extents == {x \in [offset : HeaderSize .. OffsetLimit, size : Sizes] :
                    EndOf(x) <= OffsetLimit}
  IN  {es \in UNION {[D -> Extents] : D \in SUBSET Path} : ~Malformed(es)}

ImportLists ==
  {s \in UNION {[1 .. k -> Path \X Sizes] : k \in 0 .. MaxImports} :
     \A i, j \in DOMAIN s : s[i][1] = s[j][1] => i = j}

MCPatches ==
  {pt \in [removed : SUBSET Path, imports : ImportLists] :
     /\ pt.removed # {} \/ pt.imports # <<>>
     /\ \A i \in DOMAIN pt.imports : pt.imports[i][1] \notin pt.removed}

Symmetry == Permutations(Path)
=============================================================================
