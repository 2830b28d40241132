------------------------------ MODULE ChunkList ------------------------------
(***************************************************************************)
(* The free-space list of a GRF archive: gruf/src/grf/dyn_alloc.rs.        *)
(*                                                                         *)
(* An AvailableChunkList is a record [end, sizes, chunks]: `end` is the    *)
(* offset past the data area, `chunks` maps the offset of every free chunk *)
(* to its size (the BTreeMap) and `sizes` is the same set of chunks as     *)
(* <<size, offset>> pairs, ordered by size first (the BTreeSet).  The two  *)
(* collections are updated separately, as in the code, so they may differ. *)
(*                                                                         *)
(* The module has operators only.  Fallible operations return a record     *)
(* [ok, offset, list]; ok = FALSE stands for GrufError::DynAllocError.     *)
(***************************************************************************)
EXTENDS Integers

CONSTANT HeaderSize     \* GRF_HEADER_SIZE: data never starts before it

ASSUME HeaderSizeAssumption == HeaderSize \in Nat

(* An extent is [offset, size]; it covers the bytes offset .. offset+size-1. *)
Extent == [offset : Nat, size : Nat \ {0}]

EndOf(x) == x.offset + x.size

(* No byte belongs to both extents. *)
Disjoint(x, y) == EndOf(x) <= y.offset \/ EndOf(y) <= x.offset

EmptyList == [end |-> HeaderSize, sizes |-> {}, chunks |-> [o \in {} |-> 0]]

-----------------------------------------------------------------------------
(* Mutant of InsertChunk: `sizes` is not updated. *)
InsertChunkWithoutPair(cl, o, n) ==
  [cl EXCEPT !.chunks = [p \in DOMAIN cl.chunks \cup {o} |->
                           IF p = o THEN n ELSE cl.chunks[p]]]

(* insert_chunk_internal: BTreeMap::insert replaces the value of a key that  *)
(* is already present, BTreeSet::insert adds the pair beside the old one.    *)
InsertChunk(cl, o, n) ==
  [end    |-> cl.end,
   sizes  |-> cl.sizes \cup {<<n, o>>},
   chunks |-> [p \in DOMAIN cl.chunks \cup {o} |->
                 IF p = o THEN n ELSE cl.chunks[p]]]

(* Mutant of RemoveChunk: the pair stays in `sizes`. *)
RemoveChunkKeepingPair(cl, o) ==
  [cl EXCEPT !.chunks = [p \in DOMAIN cl.chunks \ {o} |-> cl.chunks[p]]]

(* remove_chunk_internal of a chunk that is present. *)
RemoveChunk(cl, o) ==
  [end    |-> cl.end,
   sizes  |-> cl.sizes \ {<<cl.chunks[o], o>>},
   chunks |-> [p \in DOMAIN cl.chunks \ {o} |-> cl.chunks[p]]]

Fits(cl, n) == {t \in cl.sizes : t[1] >= n}

(* find_suitable_chunk: the first pair not below (n, 0), or the end offset. *)
FindSuitableChunk(cl, n) ==
  IF Fits(cl, n) = {}
  THEN cl.end
  ELSE (CHOOSE t \in Fits(cl, n) :
          \A u \in Fits(cl, n) : t[1] < u[1] \/ (t[1] = u[1] /\ t[2] <= u[2]))[2]

Success(o, list) == [ok |-> TRUE, offset |-> o, list |-> list]
Failure(o, list) == [ok |-> FALSE, offset |-> o, list |-> list]

(* Mutant of AllocAt: the end of the data area does not move. *)
AllocAtWithoutEnd(cl, o, n) ==
  IF o = cl.end
  THEN Success(o, cl)
  ELSE IF o \notin DOMAIN cl.chunks
       THEN Failure(o, cl)
       ELSE Success(o, IF cl.chunks[o] > n
                       THEN InsertChunk(RemoveChunk(cl, o), o + n, cl.chunks[o] - n)
                       ELSE RemoveChunk(cl, o))

(* Mutant of AllocAt: what is left of a chunk that is used is forgotten. *)
AllocAtWithoutRest(cl, o, n) ==
  IF o = cl.end
  THEN Success(o, [cl EXCEPT !.end = o + n])
  ELSE IF o \notin DOMAIN cl.chunks
       THEN Failure(o, cl)
       ELSE Success(o, RemoveChunk(cl, o))

(* alloc_chunk: at the end of the data area, or at the front of a free chunk. *)
AllocAt(cl, o, n) ==
  IF o = cl.end
  THEN Success(o, [cl EXCEPT !.end = o + n])
  ELSE IF o \notin DOMAIN cl.chunks
       THEN Failure(o, cl)
       ELSE Success(o, IF cl.chunks[o] > n
                       THEN InsertChunk(RemoveChunk(cl, o), o + n, cl.chunks[o] - n)
                       ELSE RemoveChunk(cl, o))

AllocChunk(cl, n) == AllocAt(cl, FindSuitableChunk(cl, n), n)

(* free_chunk, the left side: `chunks.range(..offset).last()`, kept only when *)
(* that chunk ends where the released extent starts.                          *)
LeftNeighbours(cl, o) ==
  {l \in DOMAIN cl.chunks :
     /\ l < o
     /\ \A p \in DOMAIN cl.chunks : p < o => p <= l
     /\ l + cl.chunks[l] = o}

(* Mutant of ReleaseMerged: the chunk on the right is not merged. *)
ReleaseUnmerged(cl, x) ==
  InsertChunk(IF EndOf(x) = cl.end THEN [cl EXCEPT !.end = x.offset] ELSE cl,
              x.offset, x.size)

(* free_chunk once the left side is settled: x is the extent to insert.  When *)
(* the extent reaches the end of the data area the end moves back and the     *)
(* extent is inserted as a free chunk all the same.                           *)
ReleaseMerged(cl, x) ==
  IF EndOf(x) = cl.end
  THEN InsertChunk([cl EXCEPT !.end = x.offset], x.offset, x.size)
  ELSE IF EndOf(x) \in DOMAIN cl.chunks
       THEN InsertChunk(RemoveChunk(cl, EndOf(x)), x.offset,
                        x.size + cl.chunks[EndOf(x)])
       ELSE InsertChunk(cl, x.offset, x.size)

FreeChunk(cl, o, s) ==
  IF LeftNeighbours(cl, o) = {}
  THEN ReleaseMerged(cl, [offset |-> o, size |-> s])
  ELSE LET l == CHOOSE l \in LeftNeighbours(cl, o) : TRUE
       IN  ReleaseMerged(RemoveChunk(cl, l),
                         [offset |-> l, size |-> s + cl.chunks[l]])

(* Mutants of ReallocChunk: the size of the free chunk that follows is not    *)
(* checked; what is left of it is listed where it was.                        *)
ReallocChunkUnchecked(cl, o, s, n) ==
  IF o + s = cl.end
  THEN Success(o, [cl EXCEPT !.end = o + n])
  ELSE IF o + s \in DOMAIN cl.chunks
       THEN Success(o, InsertChunk(RemoveChunk(cl, o + s), o + n,
                                   s + cl.chunks[o + s] - n))
       ELSE AllocChunk(FreeChunk(cl, o, s), n)

ReallocChunkOldOffset(cl, o, s, n) ==
  IF o + s = cl.end
  THEN Success(o, [cl EXCEPT !.end = o + n])
  ELSE IF o + s \in DOMAIN cl.chunks /\ s + cl.chunks[o + s] >= n
       THEN Success(o, InsertChunk(RemoveChunk(cl, o + s), o + s,
                                   s + cl.chunks[o + s] - n))
       ELSE AllocChunk(FreeChunk(cl, o, s), n)

(* realloc_chunk: resize at the end of the data area, grow or shrink over the *)
(* free chunk that follows, or release the extent and allocate another one.   *)
ReallocChunk(cl, o, s, n) ==
  IF o + s = cl.end
  THEN Success(o, [cl EXCEPT !.end = o + n])
  ELSE IF o + s \in DOMAIN cl.chunks /\ s + cl.chunks[o + s] >= n
       THEN Success(o, InsertChunk(RemoveChunk(cl, o + s), o + n,
                                   s + cl.chunks[o + s] - n))
       ELSE AllocChunk(FreeChunk(cl, o, s), n)

(* What every import of GrfArchiveBuilder asks for, in a table es: the entry *)
(* of a known path is resized or moved, a new path gets a chunk of its own.  *)
PlaceEntry(cl, es, p, n) ==
  IF p \in DOMAIN es
  THEN ReallocChunk(cl, es[p].offset, es[p].size, n)
  ELSE AllocChunk(cl, n)

-----------------------------------------------------------------------------
(* list_available_chunks over a table of entries es (path -> extent), sorted  *)
(* by offset: the gap after every entry but the last one, empty gaps too.     *)
(* Well defined for tables that pass the "Archive is malformed" check.        *)
Starts(es) == {es[p].offset : p \in DOMAIN es}
Ends(es)   == {EndOf(es[p]) : p \in DOMAIN es}

Malformed(es) == \E p, q \in DOMAIN es : p # q /\ ~Disjoint(es[p], es[q])

LastEnd(es) == CHOOSE x \in Ends(es) : \A y \in Ends(es) : y <= x

NextStart(es, x) ==
  CHOOSE s \in Starts(es) :
    /\ s >= x
    /\ \A r \in Starts(es) : r >= x => s <= r

Gap(es, x) == NextStart(es, x) - x

ListAvailableChunks(es) ==
  IF DOMAIN es = {}
  THEN EmptyList
  ELSE LET inner == Ends(es) \ {LastEnd(es)}
       IN  [end    |-> LastEnd(es),
            sizes  |-> {<<Gap(es, x), x>> : x \in inner},
            chunks |-> [x \in inner |-> Gap(es, x)]]

-----------------------------------------------------------------------------
(* What a list must satisfy.                                                 *)
ChunkExtent(cl, o) == [offset |-> o, size |-> cl.chunks[o]]

ListType(cl) ==
  /\ cl = [end |-> cl.end, sizes |-> cl.sizes, chunks |-> cl.chunks]
  /\ cl.end \in Nat
  /\ cl.sizes \subseteq Nat \X Nat
  /\ DOMAIN cl.chunks \subseteq Nat
  /\ cl.chunks \in [DOMAIN cl.chunks -> Nat]

(* `assert!(removed)` of remove_chunk_internal never panics: every chunk has *)
(* its pair in `sizes`.                                                      *)
SizesCover(cl) == \A o \in DOMAIN cl.chunks : <<cl.chunks[o], o>> \in cl.sizes

(* The other way round, a pair of a positive size stands for a chunk of that *)
(* size; only pairs of size zero may outlive their chunk.                    *)
PairsBacked(cl) ==
  \A t \in cl.sizes :
    t[1] > 0 => t[2] \in DOMAIN cl.chunks /\ cl.chunks[t[2]] = t[1]

(* Two free chunks never touch, nor overlap.                                 *)
Merged(cl) ==
  \A o1, o2 \in DOMAIN cl.chunks : o1 < o2 => o1 + cl.chunks[o1] < o2

(* Free chunks lie past the header and before the end, never up to the end.  *)
Inside(cl) ==
  /\ HeaderSize <= cl.end
  /\ \A o \in DOMAIN cl.chunks : HeaderSize <= o /\ o + cl.chunks[o] < cl.end

ListInv(cl) ==
  ListType(cl) /\ SizesCover(cl) /\ PairsBacked(cl) /\ Merged(cl) /\ Inside(cl)

(* No free chunk shares a byte with x. *)
Unlisted(cl, x) == \A o \in DOMAIN cl.chunks : Disjoint(ChunkExtent(cl, o), x)

(* What is left of this when the entry at the end of the data area may be    *)
(* removed: chunks and the pairs that find_suitable_chunk may pick lie past  *)
(* the header, and none shares a byte with y, which ends before the end.     *)
Roomy(cl) ==
  /\ ListType(cl)
  /\ HeaderSize <= cl.end
  /\ \A o \in DOMAIN cl.chunks : HeaderSize <= o
  /\ \A t \in cl.sizes : t[1] > 0 => HeaderSize <= t[2]

Clear(cl, y) ==
  /\ EndOf(y) <= cl.end
  /\ Unlisted(cl, y)
  /\ \A t \in cl.sizes : t[1] > 0 => Disjoint([offset |-> t[2], size |-> t[1]], y)

Holds(x, b) == x.offset <= b /\ b < EndOf(x)

(* The list may still hand out byte b: it is past the end or in a chunk.     *)
Free(cl, b) ==
  cl.end <= b \/ \E o \in DOMAIN cl.chunks : Holds(ChunkExtent(cl, o), b)
=============================================================================
