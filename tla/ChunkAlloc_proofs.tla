-------------------------- MODULE ChunkAlloc_proofs --------------------------
(***************************************************************************)
(* Proofs about the archive that allocates from the free-space list: the   *)
(* invariants of ChunkAlloc, from the lemmas of ChunkList_proofs.          *)
(***************************************************************************)
EXTENDS ChunkAlloc, ChunkList_proofs

-----------------------------------------------------------------------------
(* What the two kinds of import do: the placement succeeds and spares every  *)
(* other entry.                                                              *)
LEMMA PlacementSafe ==
  ASSUME IInv, status = "open", NEW p \in Path, NEW n \in ContentSizes
  PROVE  LET r == Placement(p, n)
         IN  /\ Allocated(list, n, r)
             /\ \A q \in DOMAIN entries \ {p} : Spared(entries[q], n, r)
             /\ p \in DOMAIN entries =>
                  \A b \in Nat : Holds(entries[p], b) =>
                    Free(r.list, b) \/ Holds([offset |-> r.offset, size |-> n], b)
<1>1. /\ n \in Nat \ {0} /\ ListInv(list)
      /\ \A q \in DOMAIN entries :
           /\ entries[q] \in Extent /\ HeaderSize <= entries[q].offset
           /\ Unlisted(list, entries[q]) /\ EndOf(entries[q]) <= list.end
      /\ \A q1, q2 \in DOMAIN entries : q1 # q2 => Disjoint(entries[q1], entries[q2])
  BY SizesAssumption
  DEF IInv, TypeOK, TableDisjoint, ListAgreesWithEntries, EntriesDisjoint
<1>2. CASE p \in DOMAIN entries
  <2>1. Placement(p, n) = ReallocChunk(list, entries[p].offset, entries[p].size, n)
    BY <1>2 DEF Placement, PlaceEntry
  <2>2. \A q \in DOMAIN entries \ {p} : Disjoint(entries[p], entries[q])
    BY <1>1, <1>2
  <2> QED
    BY <1>1, <1>2, <2>1, <2>2, ReallocChunkSafe
<1>3. CASE p \notin DOMAIN entries
  <2>1. Placement(p, n) = AllocChunk(list, n)
    BY <1>3 DEF Placement, PlaceEntry
  <2> QED
    BY <1>1, <1>3, <2>1, AllocChunkSafe
<1> QED
  BY <1>2, <1>3

LEMMA InitInv == Init => IInv
<1> SUFFICES ASSUME Init PROVE IInv
  OBVIOUS
<1> USE HeaderSizeAssumption, SizesAssumption DEF Init
<1>1. WellFormed(entries)
  BY ArchivesAssumption
<1>2. TypeOK
  BY <1>1 DEF TypeOK, WellFormed, ListType, EmptyList
<1>3. EntriesDisjoint
  BY <1>1 DEF WellFormed, Malformed, EntriesDisjoint
<1>4. TableDisjoint
  BY <1>1 DEF WellFormed, TableDisjoint
<1>5. ListInv(list)
  BY <1>2 DEF ListInv, TypeOK, EmptyList, SizesCover, PairsBacked, Merged, Inside
<1>6. NoDynAllocError /\ ListAgreesWithEntries
  BY DEF NoDynAllocError, ListAgreesWithEntries
<1> QED
  BY <1>2, <1>3, <1>4, <1>5, <1>6 DEF IInv

LEMMA OpenInv == IInv /\ Open => IInv'
<1> SUFFICES ASSUME IInv, Open PROVE IInv'
  OBVIOUS
<1>1. /\ ListInv(list')
      /\ \A p \in DOMAIN entries : Unlisted(list', entries[p]) /\ EndOf(entries[p]) <= list'.end
  <2>1. \A p \in DOMAIN entries : HeaderSize <= entries[p].offset /\ EndOf(entries[p]) <= OffsetLimit
    BY DEF IInv, TypeOK, TableDisjoint
  <2>2. entries \in [DOMAIN entries -> Extent] /\ ~Malformed(entries)
    BY DEF IInv, TypeOK, Open
  <2> QED
    BY <2>1, <2>2, SizesAssumption, ListAvailableChunksSafe DEF Open
<1>2. TypeOK'
  BY <1>1 DEF IInv, TypeOK, Open, ListInv
<1>3. EntriesDisjoint' /\ TableDisjoint' /\ NoDynAllocError'
  BY DEF IInv, EntriesDisjoint, TableDisjoint, NoDynAllocError, Open
<1>4. ListAgreesWithEntries'
  BY <1>1 DEF ListAgreesWithEntries, Open
<1> QED
  BY <1>1, <1>2, <1>3, <1>4 DEF IInv

LEMMA ImportInv ==
  ASSUME IInv, NEW p \in Path, NEW n \in ContentSizes, Import(p, n)
  PROVE  IInv'
<1> DEFINE r == Placement(p, n)
           x == [offset |-> r.offset, size |-> n]
<1>1. /\ Allocated(list, n, r)
      /\ \A q \in DOMAIN entries \ {p} : Spared(entries[q], n, r)
  BY PlacementSafe DEF Import
<1>2. /\ list' = r.list /\ status = "open" /\ status' = "open" /\ table' = table
      /\ DOMAIN entries' = DOMAIN entries \cup {p}
      /\ entries'[p] = x
      /\ \A q \in DOMAIN entries \ {p} : entries'[q] = entries[q]
      /\ entries' = [q \in DOMAIN entries' |-> entries'[q]]
      /\ r.list.end <= OffsetLimit
  BY <1>1 DEF Import, Allocated
<1>3. /\ x \in Extent /\ EndOf(x) <= r.list.end /\ HeaderSize <= x.offset
      /\ Unlisted(r.list, x) /\ ListInv(r.list)
      /\ r.list.end \in Nat /\ EndOf(x) \in Nat
  BY <1>1, SizesAssumption DEF Allocated, Extent, EndOf, ListInv, ListType
<1> HIDE DEF x, r
<1>4. TypeOK'
  <2>1. \A q \in DOMAIN entries' : entries'[q] \in Extent
    BY <1>2, <1>3 DEF IInv, TypeOK
  <2>2. \A q \in DOMAIN entries' : EndOf(entries'[q]) <= OffsetLimit
    BY <1>2, <1>3, SizesAssumption DEF IInv, TypeOK
  <2>3. DOMAIN entries' \subseteq Path /\ entries' \in [DOMAIN entries' -> Extent]
    BY <1>2, <2>1 DEF IInv, TypeOK
  <2> QED
    BY <1>2, <1>3, <2>2, <2>3 DEF IInv, TypeOK, ListInv
<1>5. EntriesDisjoint'
  <2>1. \A q \in DOMAIN entries \ {p} : Disjoint(x, entries[q])
    BY <1>1 DEF Spared, x
  <2>2. \A q \in DOMAIN entries \ {p} : Disjoint(entries[q], x)
    BY <2>1 DEF Disjoint
  <2> QED
    BY <1>2, <2>1, <2>2 DEF EntriesDisjoint, IInv
<1>6. TableDisjoint' /\ NoDynAllocError'
  BY <1>2, <1>3 DEF TableDisjoint, NoDynAllocError, IInv
<1>7. ListAgreesWithEntries'
  BY <1>1, <1>2, <1>3 DEF ListAgreesWithEntries, Spared
<1> QED
  BY <1>2, <1>3, <1>4, <1>5, <1>6, <1>7 DEF IInv

(* An inner entry meets the precondition of FreeChunkSafe. *)
LEMMA RemoveInnerPre ==
  ASSUME IInv, NEW p \in Path, RemoveInner(p)
  PROVE  /\ ListInv(list) /\ entries[p] \in Extent /\ HeaderSize <= entries[p].offset
         /\ Unlisted(list, entries[p]) /\ EndOf(entries[p]) < list.end
<1>1. status = "open" /\ p \in DOMAIN entries /\ EndOf(entries[p]) # list.end
  BY DEF RemoveInner, RemoveFile, IsTail
<1>2. /\ EndOf(entries[p]) <= list.end
      /\ ListInv(list) /\ entries[p] \in Extent /\ HeaderSize <= entries[p].offset
      /\ Unlisted(list, entries[p])
  BY <1>1 DEF IInv, TypeOK, TableDisjoint, ListAgreesWithEntries
<1>3. EndOf(entries[p]) \in Nat /\ list.end \in Nat
  BY <1>2 DEF EndOf, Extent, ListInv, ListType
<1> QED
  BY <1>1, <1>2, <1>3

LEMMA RemoveInnerInv ==
  ASSUME IInv, NEW p \in Path, RemoveInner(p)
  PROVE  IInv'
<1> USE DEF RemoveInner, RemoveFile
<1>1. /\ status = "open" /\ status' = "open" /\ table' = table
      /\ p \in DOMAIN entries
      /\ list' = FreeChunk(list, entries[p].offset, entries[p].size)
      /\ DOMAIN entries' = DOMAIN entries \ {p}
      /\ \A q \in DOMAIN entries' : entries'[q] = entries[q]
      /\ entries' = [q \in DOMAIN entries' |-> entries'[q]]
  OBVIOUS
<1>2. /\ ListInv(list) /\ entries[p] \in Extent /\ HeaderSize <= entries[p].offset
      /\ Unlisted(list, entries[p]) /\ EndOf(entries[p]) < list.end
  BY RemoveInnerPre
<1>3. /\ ListInv(list') /\ list'.end = list.end
      /\ \A y \in Extent : Unlisted(list, y) /\ Disjoint(entries[p], y) => Unlisted(list', y)
  BY <1>1, <1>2, FreeChunkSafe
<1>4. TypeOK'
  BY <1>1, <1>3 DEF IInv, TypeOK, ListInv
<1>5. EntriesDisjoint' /\ TableDisjoint' /\ NoDynAllocError'
  BY <1>1 DEF IInv, EntriesDisjoint, TableDisjoint, NoDynAllocError
<1>6. ListAgreesWithEntries'
  <2>1. \A q \in DOMAIN entries' : Disjoint(entries[p], entries[q]) /\ entries[q] \in Extent
    BY <1>1 DEF IInv, EntriesDisjoint, TypeOK
  <2> QED
    BY <1>1, <1>3, <2>1 DEF IInv, ListAgreesWithEntries
<1> QED
  BY <1>3, <1>4, <1>5, <1>6 DEF IInv

LEMMA FinishInv ==
  ASSUME IInv, NEW n \in TableSizes, Finish(n)
  PROVE  IInv'
<1> DEFINE r == AllocChunk(list, n)
<1>1. /\ status = "open" /\ status' = "closed" /\ entries' = entries /\ list' = r.list
  BY DEF Finish, IInv, NoDynAllocError
<1>2. /\ n \in Nat \ {0} /\ ListInv(list)
      /\ \A q \in DOMAIN entries :
           /\ entries[q] \in Extent
           /\ Unlisted(list, entries[q]) /\ EndOf(entries[q]) <= list.end
  BY <1>1, SizesAssumption DEF IInv, TypeOK, ListAgreesWithEntries
<1>3. /\ Allocated(list, n, r)
      /\ \A q \in DOMAIN entries : Spared(entries[q], n, r)
  BY <1>2, AllocChunkSafe
<1>4. table' = [offset |-> r.offset, size |-> n] /\ ListInv(r.list)
      /\ r.offset \in Nat /\ HeaderSize <= r.offset
  BY <1>3 DEF Finish, Allocated
<1>5. TypeOK'
  BY <1>1, <1>2, <1>4 DEF IInv, TypeOK, ListInv
<1>6. EntriesDisjoint' /\ NoDynAllocError' /\ ListAgreesWithEntries'
  BY <1>1 DEF IInv, EntriesDisjoint, NoDynAllocError, ListAgreesWithEntries
<1>7. TableDisjoint'
  BY <1>1, <1>3, <1>4 DEF IInv, TableDisjoint, TableFits, Spared
<1> QED
  BY <1>1, <1>4, <1>5, <1>6, <1>7 DEF IInv

LEMMA NextKeepTailInv == IInv /\ [NextKeepTail]_vars => IInv'
<1> SUFFICES ASSUME IInv, [NextKeepTail]_vars PROVE IInv'
  OBVIOUS
<1>1. CASE Open
  BY <1>1, OpenInv
<1>2. ASSUME NEW p \in Path, NEW n \in ContentSizes, Import(p, n) PROVE IInv'
  BY <1>2, ImportInv
<1>3. ASSUME NEW n \in TableSizes, Finish(n) PROVE IInv'
  BY <1>3, FinishInv
<1>4. ASSUME NEW p \in Path, RemoveInner(p) PROVE IInv'
  BY <1>4, RemoveInnerInv
<1>5. CASE UNCHANGED vars
  BY <1>5 DEF vars, IInv, TypeOK, EntriesDisjoint, TableDisjoint, TableFits,
              NoDynAllocError, ListAgreesWithEntries
<1> QED
  BY <1>1, <1>2, <1>3, <1>4, <1>5 DEF NextKeepTail, NextWithoutRemoval

(* As long as no patch removes the entry at the end of the data area, the    *)
(* free-space list stays exact, for any number of paths, sizes and patches.  *)
THEOREM KeepTailInvariant == SpecKeepTail => []IInv
<1>1. Init => IInv
  BY InitInv
<1>2. IInv /\ [NextKeepTail]_vars => IInv'
  BY NextKeepTailInv
<1> QED
  BY <1>1, <1>2, PTL DEF SpecKeepTail

(* Type correctness. *)
THEOREM KeepTailTypeOK == SpecKeepTail => []TypeOK
<1>1. IInv => TypeOK
  BY DEF IInv
<1> QED
  BY <1>1, KeepTailInvariant, PTL

(* Then no import overwrites an entry. *)
THEOREM KeepTailSafe == SpecKeepTail => []EntriesDisjoint
<1>1. IInv => EntriesDisjoint
  BY DEF IInv
<1> QED
  BY <1>1, KeepTailInvariant, PTL

(* Then the table overwrites no entry, and neither lies in the header. *)
THEOREM KeepTailTableDisjoint == SpecKeepTail => []TableDisjoint
<1>1. IInv => TableDisjoint
  BY DEF IInv
<1> QED
  BY <1>1, KeepTailInvariant, PTL

(* Then no allocation of the free-space list fails. *)
THEOREM KeepTailNoError == SpecKeepTail => []NoDynAllocError
<1>1. IInv => NoDynAllocError
  BY DEF IInv
<1> QED
  BY <1>1, KeepTailInvariant, PTL

(* Then free chunks are merged, as realloc_chunk assumes. *)
THEOREM KeepTailFreeMerged == SpecKeepTail => []FreeMerged
<1>1. IInv => FreeMerged
  BY DEF IInv, ListInv, FreeMerged
<1> QED
  BY <1>1, KeepTailInvariant, PTL

(* Then imports and removals leak no space. *)
THEOREM KeepTailNoSpaceLost == SpecKeepTail => NoSpaceLost
<1> DEFINE Kept == status = "open" /\ status' = "open" =>
                     \A b \in HeaderSize .. OffsetLimit : Accounted(b) => Accounted(b)'
<1>1. IInv /\ [NextKeepTail]_vars => [Kept]_vars
  <2> SUFFICES ASSUME IInv, NextKeepTail, status = "open", status' = "open",
                      NEW b \in HeaderSize .. OffsetLimit, Accounted(b)
               PROVE  Accounted(b)'
    BY DEF vars
  <2>1. b \in Nat
    BY HeaderSizeAssumption, SizesAssumption
  <2>2. ASSUME NEW p \in Path, NEW n \in ContentSizes, Import(p, n) PROVE Accounted(b)'
    <3> DEFINE r == Placement(p, n)
               x == [offset |-> r.offset, size |-> n]
    <3>1. /\ \A c \in Nat : Free(list, c) => Free(r.list, c) \/ Holds(x, c)
          /\ p \in DOMAIN entries =>
               \A c \in Nat : Holds(entries[p], c) => Free(r.list, c) \/ Holds(x, c)
      BY PlacementSafe DEF Allocated
    <3>2. /\ list' = r.list /\ DOMAIN entries' = DOMAIN entries \cup {p}
          /\ entries'[p] = x
          /\ \A q \in DOMAIN entries \ {p} : entries'[q] = entries[q]
      BY <2>2, PlacementSafe DEF Import, Allocated
    <3> HIDE DEF x, r
    <3>3. CASE Free(list, b) \/ (p \in DOMAIN entries /\ Holds(entries[p], b))
      BY <2>1, <3>1, <3>2, <3>3 DEF Accounted
    <3>4. ASSUME NEW q \in DOMAIN entries \ {p}, Holds(entries[q], b) PROVE Accounted(b)'
      BY <3>2, <3>4 DEF Accounted
    <3> QED
      BY <3>3, <3>4 DEF Accounted
  <2>3. ASSUME NEW p \in Path, RemoveInner(p) PROVE Accounted(b)'
    <3>1. /\ p \in DOMAIN entries
          /\ list' = FreeChunk(list, entries[p].offset, entries[p].size)
          /\ DOMAIN entries' = DOMAIN entries \ {p}
          /\ \A q \in DOMAIN entries' : entries'[q] = entries[q]
      BY <2>3 DEF RemoveInner, RemoveFile
    <3>2. /\ ListInv(list) /\ entries[p] \in Extent /\ HeaderSize <= entries[p].offset
          /\ Unlisted(list, entries[p]) /\ EndOf(entries[p]) < list.end
      BY <2>3, RemoveInnerPre
    <3>3. Free(list, b) \/ Holds(entries[p], b) => Free(list', b)
      BY <2>1, <3>1, <3>2, FreeChunkSafe
    <3>4. ASSUME NEW q \in DOMAIN entries \ {p}, Holds(entries[q], b) PROVE Accounted(b)'
      BY <3>1, <3>4 DEF Accounted
    <3> QED
      BY <3>3, <3>4 DEF Accounted
  <2> QED
    BY <2>2, <2>3 DEF NextKeepTail, NextWithoutRemoval, Open, Finish
<1> QED
  BY <1>1, KeepTailInvariant, PTL DEF SpecKeepTail, NoSpaceLost

-----------------------------------------------------------------------------
(* `assert!(removed)` of remove_chunk_internal never panics, whatever is     *)
(* imported and removed.                                                     *)
THEOREM SizesAlwaysCoverChunks == Spec => []SizesCoverChunks
<1> USE DEF SizesCoverChunks
<1>1. Init => SizesCoverChunks
  BY DEF Init, SizesCover, EmptyList
<1>2. SizesCoverChunks /\ [Next]_vars => SizesCoverChunks'
  <2> SUFFICES ASSUME SizesCover(list), [Next]_vars PROVE SizesCover(list')
    OBVIOUS
  <2>1. CASE Open
    <3>1. SizesCover(ListAvailableChunks(entries))
      BY DEF ListAvailableChunks, EmptyList, SizesCover
    <3> QED
      BY <2>1, <3>1 DEF Open
  <2>2. ASSUME NEW p \in Path, NEW n \in ContentSizes, Import(p, n)
        PROVE  SizesCover(list')
    <3>1. SizesCover(Placement(p, n).list)
      BY AllocChunkCover, ReallocChunkCover DEF Placement, PlaceEntry
    <3> QED
      BY <2>2, <3>1 DEF Import
  <2>3. ASSUME NEW p \in Path, RemoveFile(p) PROVE SizesCover(list')
    BY <2>3, FreeChunkCover DEF RemoveFile
  <2>4. ASSUME NEW n \in TableSizes, Finish(n) PROVE SizesCover(list')
    BY <2>4, AllocChunkCover DEF Finish
  <2>5. CASE UNCHANGED vars
    BY <2>5 DEF vars
  <2> QED
    BY <2>1, <2>2, <2>3, <2>4, <2>5 DEF Next, NextWithoutRemoval
<1> QED
  BY <1>1, <1>2, PTL DEF Spec
=============================================================================
