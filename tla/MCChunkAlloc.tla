---------------------------- MODULE MCChunkAlloc ----------------------------
(* ChunkAlloc on a small archive: every well-formed layout of the paths in   *)
(* OffsetLimit - HeaderSize bytes is a possible start.                       *)
EXTENDS ChunkAlloc, TLC

MCExtents ==
  {x \in [offset : HeaderSize .. OffsetLimit, size : ContentSizes] :
     EndOf(x) <= OffsetLimit}

MCArchives ==
  {es \in UNION {[D -> MCExtents] : D \in SUBSET Path} : ~Malformed(es)}

Symmetry == Permutations(Path)
=============================================================================
