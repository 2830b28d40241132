-------------------------- MODULE ChunkList_proofs --------------------------
(***************************************************************************)
(* Proofs about the operations of the free-space list (ChunkList): what    *)
(* each preserves and returns, for every list that satisfies ListInv, then *)
(* for the looser lists that a removed tail entry leaves.                  *)
(***************************************************************************)
EXTENDS ChunkList, TLAPS, WellFoundedInduction

-----------------------------------------------------------------------------
(* A non-empty set of naturals has a least element. *)
LEMMA NatMin ==
  ASSUME NEW S, S \subseteq Nat, S # {}
  PROVE  \E m \in S : \A k \in S : m <= k
<1>1. PICK m \in S : \A k \in S : <<k, m>> \notin OpToRel(<, Nat)
  BY WFMin, NatLessThanWellFounded, Zenon
<1>2. \A k \in S : ~(k < m)
  BY <1>1, Zenon DEF OpToRel
<1> QED
  BY <1>2

(* A non-empty bounded set of naturals has a greatest element. *)
LEMMA NatMax ==
  ASSUME NEW S, S \subseteq Nat, S # {}, NEW L \in Nat, \A k \in S : k <= L
  PROVE  \E m \in S : \A k \in S : k <= m
<1> DEFINE D == {d \in Nat : \E k \in S : d = L - k}
<1>1. D \subseteq Nat /\ D # {}
  <2>1. PICK k \in S : TRUE
    OBVIOUS
  <2>2. L - k \in D
    BY <2>1
  <2> QED
    BY <2>2
<1>2. PICK d \in D : \A e \in D : d <= e
  BY <1>1, NatMin
<1>3. PICK m \in S : d = L - m
  BY <1>2
<1>4. ASSUME NEW k \in S PROVE k <= m
  <2>1. L - k \in D
    BY <1>4
  <2>2. d <= L - k
    BY <2>1, <1>2
  <2> QED
    BY <2>2, <1>3
<1> QED
  BY <1>4

-----------------------------------------------------------------------------
(* find_suitable_chunk returns the end, or the offset of a pair that is large *)
(* enough.                                                                    *)
LEMMA FindSuitableChunkPair ==
  ASSUME NEW cl, cl.sizes \subseteq Nat \X Nat, NEW n \in Nat \ {0},
         FindSuitableChunk(cl, n) # cl.end
  PROVE  \E t \in cl.sizes : t[1] >= n /\ t[1] > 0 /\ t[2] = FindSuitableChunk(cl, n)
<1> DEFINE Least(t) == \A u \in Fits(cl, n) :
                         t[1] < u[1] \/ (t[1] = u[1] /\ t[2] <= u[2])
<1>1. Fits(cl, n) # {} /\ Fits(cl, n) \subseteq Nat \X Nat
  BY DEF FindSuitableChunk, Fits
<1>2. \E t \in Fits(cl, n) : Least(t)
  <2> DEFINE S1 == {s \in Nat : \E t \in Fits(cl, n) : t[1] = s}
  <2>1. S1 # {} /\ S1 \subseteq Nat
    BY <1>1
  <2>2. PICK s \in S1 : \A k \in S1 : s <= k
    BY <2>1, NatMin
  <2> DEFINE S2 == {o \in Nat : \E t \in Fits(cl, n) : t[1] = s /\ t[2] = o}
  <2>3. S2 # {} /\ S2 \subseteq Nat
    BY <1>1, <2>2
  <2>4. PICK o \in S2 : \A k \in S2 : o <= k
    BY <2>3, NatMin
  <2>5. PICK t \in Fits(cl, n) : t[1] = s /\ t[2] = o
    BY <2>4
  <2>6. ASSUME NEW u \in Fits(cl, n)
        PROVE  t[1] < u[1] \/ (t[1] = u[1] /\ t[2] <= u[2])
    <3>1. u[1] \in S1 /\ u[1] \in Nat /\ u[2] \in Nat /\ s \in Nat
      BY <1>1, <2>2
    <3>2. CASE u[1] = s
      <4>1. u[2] \in S2
        BY <3>1, <3>2
      <4> QED
        BY <4>1, <2>4, <2>5, <3>2
    <3>3. CASE u[1] # s
      BY <3>1, <3>3, <2>2, <2>5
    <3> QED
      BY <3>2, <3>3
  <2> QED
    BY <2>5, <2>6
<1> DEFINE t == CHOOSE t \in Fits(cl, n) : Least(t)
<1>3. t \in Fits(cl, n)
  BY <1>2
<1>4. FindSuitableChunk(cl, n) = t[2]
  BY <1>1 DEF FindSuitableChunk
<1>5. t \in cl.sizes /\ t[1] >= n /\ t[1] > 0
  BY <1>3, <1>1 DEF Fits
<1> QED
  BY <1>4, <1>5

(* In an exact list it is a chunk. *)
LEMMA FindSuitableChunkFits ==
  ASSUME NEW cl, ListInv(cl), NEW n \in Nat \ {0},
         FindSuitableChunk(cl, n) # cl.end
  PROVE  /\ FindSuitableChunk(cl, n) \in DOMAIN cl.chunks
         /\ cl.chunks[FindSuitableChunk(cl, n)] >= n
BY FindSuitableChunkPair DEF ListInv, ListType, PairsBacked

-----------------------------------------------------------------------------
(* insert_chunk_internal of a chunk that fits between its neighbours. *)
LEMMA InsertChunkInv ==
  ASSUME NEW cl, ListInv(cl), NEW o \in Nat, NEW n \in Nat,
         HeaderSize <= o, o + n < cl.end,
         o \in DOMAIN cl.chunks => cl.chunks[o] = 0,
         \A p \in DOMAIN cl.chunks : p < o => p + cl.chunks[p] < o,
         \A p \in DOMAIN cl.chunks : o < p => o + n < p
  PROVE  ListInv(InsertChunk(cl, o, n))
<1> DEFINE r == InsertChunk(cl, o, n)
<1> USE DEF ListInv
<1>0. /\ r.end = cl.end
      /\ r.sizes = cl.sizes \cup {<<n, o>>}
      /\ DOMAIN r.chunks = DOMAIN cl.chunks \cup {o}
      /\ r.chunks[o] = n
      /\ \A p \in DOMAIN cl.chunks : p # o => r.chunks[p] = cl.chunks[p]
      /\ r = [end |-> r.end, sizes |-> r.sizes, chunks |-> r.chunks]
      /\ r.chunks = [p \in DOMAIN r.chunks |-> r.chunks[p]]
  BY DEF InsertChunk
<1>1. ListType(r)
  BY <1>0 DEF ListType
<1>2. SizesCover(r)
  BY <1>0 DEF SizesCover
<1>3. PairsBacked(r)
  <2>1. ASSUME NEW t \in r.sizes, t[1] > 0, t # <<n, o>>
        PROVE  t[2] \in DOMAIN r.chunks /\ r.chunks[t[2]] = t[1]
    <3>1. t \in cl.sizes /\ t[2] \in DOMAIN cl.chunks /\ cl.chunks[t[2]] = t[1]
      BY <2>1, <1>0 DEF PairsBacked
    <3>2. t[2] # o
      BY <3>1, <2>1 DEF ListType
    <3> QED
      BY <3>1, <3>2, <1>0
  <2> QED
    BY <2>1, <1>0 DEF PairsBacked
<1>4. Merged(r)
  BY <1>0 DEF Merged, ListType
<1>5. Inside(r)
  BY <1>0 DEF Inside
<1> QED
  BY <1>1, <1>2, <1>3, <1>4, <1>5

(* remove_chunk_internal of a chunk of the list. *)
LEMMA RemoveChunkInv ==
  ASSUME NEW cl, ListInv(cl), NEW o \in DOMAIN cl.chunks
  PROVE  ListInv(RemoveChunk(cl, o))
<1> DEFINE r == RemoveChunk(cl, o)
<1> USE DEF ListInv
<1>0. /\ r.end = cl.end
      /\ r.sizes = cl.sizes \ {<<cl.chunks[o], o>>}
      /\ DOMAIN r.chunks = DOMAIN cl.chunks \ {o}
      /\ \A p \in DOMAIN r.chunks : r.chunks[p] = cl.chunks[p]
      /\ r = [end |-> r.end, sizes |-> r.sizes, chunks |-> r.chunks]
      /\ r.chunks = [p \in DOMAIN r.chunks |-> r.chunks[p]]
  BY DEF RemoveChunk
<1>1. ListType(r)
  BY <1>0 DEF ListType
<1>2. SizesCover(r)
  BY <1>0 DEF SizesCover
<1>3. PairsBacked(r)
  <2>1. ASSUME NEW t \in r.sizes, t[1] > 0
        PROVE  t[2] \in DOMAIN r.chunks /\ r.chunks[t[2]] = t[1]
    <3>1. t \in cl.sizes /\ t[2] \in DOMAIN cl.chunks /\ cl.chunks[t[2]] = t[1]
      BY <2>1, <1>0 DEF PairsBacked
    <3>2. t = <<t[1], t[2]>>
      BY <3>1 DEF ListType
    <3>3. t[2] # o
      BY <3>1, <3>2, <2>1, <1>0
    <3> QED
      BY <3>1, <3>3, <1>0
  <2> QED
    BY <2>1 DEF PairsBacked
<1>4. Merged(r)
  BY <1>0 DEF Merged, ListType
<1>5. Inside(r)
  BY <1>0 DEF Inside
<1> QED
  BY <1>1, <1>2, <1>3, <1>4, <1>5

(* What an allocation of n bytes returns in r, for a list that was cl: room  *)
(* of its own, past the header, inside the new data area.                    *)
Allocated(cl, n, r) ==
  /\ r.ok
  /\ r.offset \in Nat /\ HeaderSize <= r.offset
  /\ ListInv(r.list)
  /\ r.offset + n <= r.list.end
  /\ Unlisted(r.list, [offset |-> r.offset, size |-> n])
  /\ \A b \in Nat : Free(cl, b) =>
       Free(r.list, b) \/ Holds([offset |-> r.offset, size |-> n], b)

(* What it leaves alone: an extent y in use keeps its bytes.                 *)
Spared(y, n, r) ==
  /\ Disjoint([offset |-> r.offset, size |-> n], y)
  /\ Unlisted(r.list, y)
  /\ EndOf(y) <= r.list.end

(* alloc_chunk succeeds, and takes only bytes that nobody uses. *)
LEMMA AllocChunkSafe ==
  ASSUME NEW cl, ListInv(cl), NEW n \in Nat \ {0}
  PROVE  /\ Allocated(cl, n, AllocChunk(cl, n))
         /\ \A y \in Extent :
              Unlisted(cl, y) /\ EndOf(y) <= cl.end => Spared(y, n, AllocChunk(cl, n))
<1> DEFINE o == FindSuitableChunk(cl, n)
           r == AllocChunk(cl, n)
           x == [offset |-> r.offset, size |-> n]
<1> USE HeaderSizeAssumption
<1>1. CASE o = cl.end
  <2>1. /\ r = [ok |-> TRUE, offset |-> o, list |-> [cl EXCEPT !.end = o + n]]
    BY <1>1 DEF AllocChunk, AllocAt, Success
  <2>2. /\ r.ok /\ r.offset = cl.end /\ r.list.end = cl.end + n
        /\ r.list.sizes = cl.sizes /\ r.list.chunks = cl.chunks
        /\ r.list = [end |-> r.list.end, sizes |-> r.list.sizes, chunks |-> r.list.chunks]
    BY <2>1, <1>1 DEF ListInv, ListType
  <2>3. ListInv(r.list)
    BY <2>2 DEF ListInv, ListType, SizesCover, PairsBacked, Merged, Inside
  <2>4. Unlisted(r.list, x)
    BY <2>2 DEF Unlisted, Disjoint, EndOf, ChunkExtent, ListInv, ListType, Inside
  <2>5. \A b \in Nat : Free(cl, b) => Free(r.list, b) \/ Holds(x, b)
    BY <2>2 DEF Free, Holds, EndOf, ChunkExtent, ListInv, ListType
  <2>6. ASSUME NEW y \in Extent, Unlisted(cl, y), EndOf(y) <= cl.end
        PROVE  Spared(y, n, r)
    BY <2>2, <2>6 DEF Spared, Disjoint, Unlisted, ChunkExtent, EndOf, Extent, ListInv, ListType
  <2> QED
    BY <2>2, <2>3, <2>4, <2>5, <2>6 DEF Allocated, ListInv, ListType, Inside
<1>2. CASE o # cl.end
  <2> DEFINE c  == cl.chunks[o]
             rm == RemoveChunk(cl, o)
  <2>1. o \in DOMAIN cl.chunks /\ c >= n /\ o \in Nat /\ c \in Nat
    BY <1>2, FindSuitableChunkFits DEF ListInv, ListType
  <2>2. r = [ok |-> TRUE, offset |-> o,
             list |-> IF c > n THEN InsertChunk(rm, o + n, c - n) ELSE rm]
    BY <2>1, <1>2 DEF AllocChunk, AllocAt, Success
  <2>3. /\ ListInv(rm) /\ rm.end = cl.end
        /\ DOMAIN rm.chunks = DOMAIN cl.chunks \ {o}
        /\ \A p \in DOMAIN rm.chunks : rm.chunks[p] = cl.chunks[p]
    BY <2>1, RemoveChunkInv DEF RemoveChunk
  <2>4. \A p \in DOMAIN cl.chunks :
          /\ p \in Nat /\ cl.chunks[p] \in Nat
          /\ p < o => p + cl.chunks[p] < o
          /\ o < p => o + c < p
    BY <2>1 DEF ListInv, ListType, Merged
  <2>5. HeaderSize <= o /\ o + c < cl.end /\ cl.end \in Nat
    BY <2>1 DEF ListInv, Inside, ListType
  <2>6. CASE c > n
    <3> DEFINE l == InsertChunk(rm, o + n, c - n)
    <3>1. ListInv(l)
      <4>1. \A p \in DOMAIN rm.chunks : p # o + n
        BY <2>1, <2>3, <2>4, <2>6
      <4>2. \A p \in DOMAIN rm.chunks :
              /\ p < o + n => p + rm.chunks[p] < o + n
              /\ o + n < p => (o + n) + (c - n) < p
        BY <2>1, <2>3, <2>4, <2>6
      <4>3. (o + n) + (c - n) < rm.end /\ HeaderSize <= o + n
            /\ o + n \in Nat /\ c - n \in Nat
        BY <2>1, <2>3, <2>5, <2>6
      <4> QED
        BY <4>1, <4>2, <4>3, <2>3, InsertChunkInv
    <3>2. /\ r.ok /\ r.offset = o /\ r.list = l
          /\ l.end = cl.end
          /\ DOMAIN l.chunks = (DOMAIN cl.chunks \ {o}) \cup {o + n}
          /\ l.chunks[o + n] = c - n
          /\ \A p \in DOMAIN cl.chunks \ {o} : p # o + n => l.chunks[p] = cl.chunks[p]
      BY <2>2, <2>3, <2>6 DEF InsertChunk
    <3>3. \A p \in DOMAIN cl.chunks \ {o} : p # o + n /\ l.chunks[p] = cl.chunks[p]
      BY <2>1, <2>4, <2>6, <3>2
    <3>4. Unlisted(l, x)
      BY <3>2, <3>3, <2>1, <2>4 DEF Unlisted, Disjoint, EndOf, ChunkExtent
    <3>5. ASSUME NEW b \in Nat, Free(cl, b) PROVE Free(l, b) \/ Holds(x, b)
      BY <3>2, <3>3, <3>5, <2>1, <2>4 DEF Free, Holds, EndOf, ChunkExtent
    <3>6. ASSUME NEW y \in Extent, Unlisted(cl, y), EndOf(y) <= cl.end
          PROVE  Spared(y, n, r)
      BY <3>2, <3>3, <3>6, <2>1, <2>4, <2>6
      DEF Spared, Disjoint, Unlisted, ChunkExtent, EndOf, Extent
    <3> QED
      BY <3>1, <3>2, <3>4, <3>5, <3>6, <2>1, <2>5 DEF Allocated
  <2>7. CASE ~(c > n)
    <3>1. c = n /\ r.ok /\ r.offset = o /\ r.list = rm
      BY <2>1, <2>2, <2>7
    <3>2. Unlisted(rm, x)
      BY <3>1, <2>1, <2>3, <2>4 DEF Unlisted, Disjoint, EndOf, ChunkExtent
    <3>3. ASSUME NEW b \in Nat, Free(cl, b) PROVE Free(rm, b) \/ Holds(x, b)
      BY <3>1, <3>3, <2>1, <2>3, <2>4 DEF Free, Holds, EndOf, ChunkExtent
    <3>4. ASSUME NEW y \in Extent, Unlisted(cl, y), EndOf(y) <= cl.end
          PROVE  Spared(y, n, r)
      BY <3>1, <3>4, <2>1, <2>3, <2>4
      DEF Spared, Disjoint, Unlisted, ChunkExtent, EndOf, Extent
    <3> QED
      BY <3>1, <3>2, <3>3, <3>4, <2>1, <2>3, <2>5 DEF Allocated
  <2> QED
    BY <2>6, <2>7
<1> QED
  BY <1>1, <1>2

-----------------------------------------------------------------------------
(* free_chunk once the left side is settled: x is not at the end, no chunk   *)
(* touches it from the left and none shares a byte with it.                  *)
LEMMA ReleaseMergedSafe ==
  ASSUME NEW cl, ListInv(cl), NEW x \in Extent,
         HeaderSize <= x.offset, EndOf(x) < cl.end, Unlisted(cl, x),
         \A p \in DOMAIN cl.chunks : p < x.offset => p + cl.chunks[p] < x.offset
  PROVE  /\ ListInv(ReleaseMerged(cl, x))
         /\ ReleaseMerged(cl, x).end = cl.end
         /\ \A b \in Nat : Free(cl, b) \/ Holds(x, b) => Free(ReleaseMerged(cl, x), b)
         /\ \A y \in Extent : Unlisted(cl, y) /\ Disjoint(x, y)
                             => Unlisted(ReleaseMerged(cl, x), y)
<1> DEFINE o == x.offset
           s == x.size
           r == ReleaseMerged(cl, x)
<1>1. /\ o \in Nat /\ s \in Nat /\ s > 0 /\ EndOf(x) = o + s
      /\ cl.end \in Nat /\ o + s < cl.end
  BY DEF Extent, EndOf, ListInv, ListType
<1>2. \A p \in DOMAIN cl.chunks :
        /\ p \in Nat /\ cl.chunks[p] \in Nat
        /\ p < o => p + cl.chunks[p] < o
        /\ p = o => cl.chunks[p] = 0
        /\ p > o => o + s <= p
  BY <1>1 DEF Unlisted, Disjoint, ChunkExtent, EndOf, ListInv, ListType
<1>3. CASE o + s \in DOMAIN cl.chunks
  <2> DEFINE c  == cl.chunks[o + s]
             rm == RemoveChunk(cl, o + s)
  <2>1. r = InsertChunk(rm, o, s + c)
    BY <1>1, <1>3 DEF ReleaseMerged
  <2>2. /\ ListInv(rm) /\ rm.end = cl.end
        /\ DOMAIN rm.chunks = DOMAIN cl.chunks \ {o + s}
        /\ \A p \in DOMAIN rm.chunks : rm.chunks[p] = cl.chunks[p]
    BY <1>3, RemoveChunkInv DEF RemoveChunk
  <2>3. /\ c \in Nat /\ o + s + c < cl.end
        /\ \A p \in DOMAIN cl.chunks : o + s < p => o + s + c < p
    BY <1>1, <1>2, <1>3 DEF ListInv, Inside, Merged
  <2>4. ListInv(r)
    <3>1. \A p \in DOMAIN rm.chunks : o < p => o + (s + c) < p
      BY <1>1, <1>2, <2>2, <2>3
    <3>2. o + (s + c) < rm.end /\ s + c \in Nat
      BY <1>1, <2>2, <2>3
    <3>3. /\ HeaderSize <= o /\ o \in Nat
          /\ o \in DOMAIN rm.chunks => rm.chunks[o] = 0
          /\ \A p \in DOMAIN rm.chunks : p < o => p + rm.chunks[p] < o
      BY <1>1, <1>2, <2>2
    <3>4. ListInv(rm)
      BY <2>2
    <3> HIDE DEF o, s, c, rm, r
    <3>5. ListInv(InsertChunk(rm, o, s + c))
      BY <3>1, <3>2, <3>3, <3>4, InsertChunkInv
    <3> QED
      BY <2>1, <3>5
  <2>5. /\ r.end = cl.end
        /\ DOMAIN r.chunks = (DOMAIN cl.chunks \ {o + s}) \cup {o}
        /\ r.chunks[o] = s + c
        /\ \A p \in DOMAIN cl.chunks \ {o, o + s} : r.chunks[p] = cl.chunks[p]
    BY <2>1, <2>2 DEF InsertChunk
  <2>6. ASSUME NEW b \in Nat, Free(cl, b) \/ Holds(x, b) PROVE Free(r, b)
    BY <2>5, <2>6, <2>3, <1>1, <1>2 DEF Free, Holds, EndOf, ChunkExtent
  <2>7. ASSUME NEW y \in Extent, Unlisted(cl, y), Disjoint(x, y) PROVE Unlisted(r, y)
    <3>1. Disjoint(ChunkExtent(cl, o + s), y)
      BY <1>3, <2>7 DEF Unlisted
    <3>2. Disjoint(ChunkExtent(r, o), y)
      BY <3>1, <2>5, <2>7, <2>3, <1>1 DEF Disjoint, ChunkExtent, EndOf, Extent
    <3> QED
      BY <3>2, <2>5, <2>7 DEF Unlisted, ChunkExtent
  <2> QED
    BY <2>4, <2>5, <2>6, <2>7
<1>4. CASE o + s \notin DOMAIN cl.chunks
  <2>1. r = InsertChunk(cl, o, s)
    BY <1>1, <1>4 DEF ReleaseMerged
  <2>2. ListInv(r)
    <3>1. /\ \A p \in DOMAIN cl.chunks : p < o => p + cl.chunks[p] < o
          /\ \A p \in DOMAIN cl.chunks : o < p => o + s < p
          /\ o \in DOMAIN cl.chunks => cl.chunks[o] = 0
          /\ HeaderSize <= o
      BY <1>1, <1>2, <1>4
    <3> HIDE DEF o, s
    <3> QED
      BY <1>1, <2>1, <3>1, InsertChunkInv
  <2>3. /\ r.end = cl.end
        /\ DOMAIN r.chunks = DOMAIN cl.chunks \cup {o}
        /\ r.chunks[o] = s
        /\ \A p \in DOMAIN cl.chunks \ {o} : r.chunks[p] = cl.chunks[p]
    BY <2>1 DEF InsertChunk
  <2>4. ASSUME NEW b \in Nat, Free(cl, b) \/ Holds(x, b) PROVE Free(r, b)
    BY <2>3, <2>4, <1>1, <1>2 DEF Free, Holds, EndOf, ChunkExtent
  <2>5. ASSUME NEW y \in Extent, Unlisted(cl, y), Disjoint(x, y) PROVE Unlisted(r, y)
    BY <2>3, <2>5, <1>1 DEF Disjoint, Unlisted, ChunkExtent, EndOf, Extent
  <2> QED
    BY <2>2, <2>3, <2>4, <2>5
<1> QED
  BY <1>3, <1>4

(* free_chunk of an extent that is in use and not at the end of the data.    *)
LEMMA FreeChunkSafe ==
  ASSUME NEW cl, ListInv(cl), NEW x \in Extent,
         HeaderSize <= x.offset, EndOf(x) < cl.end, Unlisted(cl, x)
  PROVE  LET r == FreeChunk(cl, x.offset, x.size)
         IN  /\ ListInv(r)
             /\ r.end = cl.end
             /\ \A b \in Nat : Free(cl, b) \/ Holds(x, b) => Free(r, b)
             /\ \A y \in Extent : Unlisted(cl, y) /\ Disjoint(x, y) => Unlisted(r, y)
<1> DEFINE o == x.offset
           s == x.size
           r == FreeChunk(cl, o, s)
<1>1. /\ o \in Nat /\ s \in Nat /\ s > 0 /\ EndOf(x) = o + s
      /\ x = [offset |-> o, size |-> s]
      /\ cl.end \in Nat /\ o + s < cl.end
      /\ \A p \in DOMAIN cl.chunks : p \in Nat /\ cl.chunks[p] \in Nat
  BY DEF Extent, EndOf, ListInv, ListType
<1>2. CASE LeftNeighbours(cl, o) = {}
  <2>1. r = ReleaseMerged(cl, x)
    BY <1>1, <1>2 DEF FreeChunk
  <2>2. ASSUME NEW p \in DOMAIN cl.chunks, p < o PROVE p + cl.chunks[p] < o
    <3>1. p + cl.chunks[p] <= o
      BY <1>1, <2>2 DEF Unlisted, Disjoint, ChunkExtent, EndOf
    <3>2. CASE p + cl.chunks[p] = o
      <4>1. \A q \in DOMAIN cl.chunks : q < o => q <= p
        BY <1>1, <3>2 DEF ListInv, Merged
      <4>2. p \in LeftNeighbours(cl, o)
        BY <4>1, <3>2, <2>2 DEF LeftNeighbours
      <4> QED
        BY <4>2, <1>2
    <3> QED
      BY <3>1, <3>2, <1>1
  <2> QED
    BY <2>1, <2>2, <1>1, ReleaseMergedSafe
<1>3. CASE LeftNeighbours(cl, o) # {}
  <2> DEFINE l  == CHOOSE l \in LeftNeighbours(cl, o) : TRUE
             rm == RemoveChunk(cl, l)
             c  == cl.chunks[l]
             z  == [offset |-> l, size |-> s + c]
  <2>1. /\ l \in DOMAIN cl.chunks /\ l < o /\ l + c = o
        /\ l \in Nat /\ c \in Nat
    BY <1>1, <1>3 DEF LeftNeighbours
  <2>2. r = ReleaseMerged(rm, z)
    BY <1>3 DEF FreeChunk
  <2>3. /\ ListInv(rm) /\ rm.end = cl.end
        /\ DOMAIN rm.chunks = DOMAIN cl.chunks \ {l}
        /\ \A p \in DOMAIN rm.chunks : rm.chunks[p] = cl.chunks[p]
    BY <2>1, RemoveChunkInv DEF RemoveChunk
  <2>4. z \in Extent /\ EndOf(z) = o + s /\ HeaderSize <= l
    BY <1>1, <2>1 DEF Extent, EndOf, ListInv, Inside
  <2>5. Unlisted(rm, z)
    <3>1. ASSUME NEW p \in DOMAIN rm.chunks PROVE Disjoint(ChunkExtent(rm, p), z)
      <4>1. Disjoint(ChunkExtent(cl, p), x) /\ p # l /\ rm.chunks[p] = cl.chunks[p]
        BY <2>3 DEF Unlisted
      <4>2. /\ p < l => p + cl.chunks[p] < l
            /\ p > l => p > o
        BY <2>1, <2>3, <1>1 DEF ListInv, Merged
      <4> QED
        BY <4>1, <4>2, <2>1, <2>3, <1>1 DEF Disjoint, ChunkExtent, EndOf
    <3> QED
      BY <3>1 DEF Unlisted
  <2>6. \A p \in DOMAIN rm.chunks : p < l => p + rm.chunks[p] < l
    BY <2>1, <2>3 DEF ListInv, Merged
  <2>7. /\ ListInv(r)
        /\ r.end = rm.end
        /\ \A b \in Nat : Free(rm, b) \/ Holds(z, b) => Free(r, b)
        /\ \A y \in Extent : Unlisted(rm, y) /\ Disjoint(z, y) => Unlisted(r, y)
    <3>1. /\ HeaderSize <= z.offset /\ EndOf(z) < rm.end
          /\ \A p \in DOMAIN rm.chunks : p < z.offset => p + rm.chunks[p] < z.offset
      BY <1>1, <2>3, <2>4, <2>6
    <3> HIDE DEF rm, z
    <3> QED
      BY <2>2, <2>3, <2>4, <2>5, <3>1, ReleaseMergedSafe
  <2>8. ASSUME NEW b \in Nat, Free(cl, b) \/ Holds(x, b) PROVE Free(rm, b) \/ Holds(z, b)
    <3>1. CASE Holds(ChunkExtent(cl, l), b) \/ Holds(x, b)
      BY <1>1, <2>1, <3>1 DEF Holds, EndOf, ChunkExtent
    <3>2. ASSUME NEW p \in DOMAIN cl.chunks, Holds(ChunkExtent(cl, p), b), p # l
          PROVE  Free(rm, b)
      BY <2>3, <3>2 DEF Free, ChunkExtent
    <3> QED
      BY <2>3, <2>8, <3>1, <3>2 DEF Free
  <2>9. ASSUME NEW y \in Extent, Unlisted(cl, y), Disjoint(x, y)
        PROVE  Unlisted(rm, y) /\ Disjoint(z, y)
    <3>1. Disjoint(ChunkExtent(cl, l), y)
      BY <2>1, <2>9 DEF Unlisted
    <3>2. Disjoint(z, y)
      BY <3>1, <2>1, <2>9, <1>1 DEF Disjoint, ChunkExtent, EndOf, Extent
    <3> QED
      BY <3>2, <2>3, <2>9 DEF Unlisted, ChunkExtent
  <2> QED
    BY <2>3, <2>7, <2>8, <2>9
<1> QED
  BY <1>2, <1>3

(* realloc_chunk of the extent x: succeeds, and takes only bytes that x held *)
(* or nobody uses; the bytes x gives up are free.                            *)
LEMMA ReallocChunkSafe ==
  ASSUME NEW cl, ListInv(cl), NEW n \in Nat \ {0}, NEW x \in Extent,
         HeaderSize <= x.offset, EndOf(x) <= cl.end, Unlisted(cl, x)
  PROVE  LET r == ReallocChunk(cl, x.offset, x.size, n)
         IN  /\ Allocated(cl, n, r)
             /\ \A b \in Nat : Holds(x, b) =>
                  Free(r.list, b) \/ Holds([offset |-> r.offset, size |-> n], b)
             /\ \A y \in Extent :
                  Unlisted(cl, y) /\ EndOf(y) <= cl.end /\ Disjoint(x, y) => Spared(y, n, r)
<1> DEFINE o == x.offset
           s == x.size
           r == ReallocChunk(cl, o, s, n)
           new == [offset |-> r.offset, size |-> n]
<1>1. /\ o \in Nat /\ s \in Nat /\ s > 0 /\ EndOf(x) = o + s
      /\ cl.end \in Nat /\ o + s <= cl.end /\ HeaderSize <= o
      /\ \A p \in DOMAIN cl.chunks : p \in Nat /\ cl.chunks[p] \in Nat
  BY DEF Extent, EndOf, ListInv, ListType
<1>2. CASE o + s = cl.end
  <2>1. r = [ok |-> TRUE, offset |-> o, list |-> [cl EXCEPT !.end = o + n]]
    BY <1>2 DEF ReallocChunk, Success
  <2>2. /\ r.ok /\ r.offset = o /\ r.list.end = o + n
        /\ r.list.sizes = cl.sizes /\ r.list.chunks = cl.chunks
        /\ r.list = [end |-> r.list.end, sizes |-> r.list.sizes, chunks |-> r.list.chunks]
    BY <2>1 DEF ListInv, ListType
  <2>3. \A p \in DOMAIN cl.chunks : p + cl.chunks[p] <= o /\ p + cl.chunks[p] < o + n
    BY <1>1, <1>2 DEF Unlisted, Disjoint, ChunkExtent, EndOf, ListInv, Inside
  <2>4. ListInv(r.list)
    <3>1. Inside(r.list)
      BY <1>1, <2>2, <2>3, HeaderSizeAssumption DEF ListInv, Inside
    <3> QED
      BY <2>2, <3>1, <1>1 DEF ListInv, ListType, SizesCover, PairsBacked, Merged
  <2>5. Unlisted(r.list, new)
    BY <1>1, <2>2, <2>3 DEF Unlisted, Disjoint, EndOf, ChunkExtent
  <2>6. \A b \in Nat : Free(cl, b) \/ Holds(x, b) => Free(r.list, b) \/ Holds(new, b)
    BY <1>1, <1>2, <2>2 DEF Free, Holds, EndOf, ChunkExtent
  <2>7. ASSUME NEW y \in Extent, Unlisted(cl, y), EndOf(y) <= cl.end, Disjoint(x, y)
        PROVE  Spared(y, n, r)
    BY <1>1, <1>2, <2>2, <2>7
    DEF Spared, Disjoint, Unlisted, ChunkExtent, EndOf, Extent
  <2> QED
    BY <1>1, <2>2, <2>4, <2>5, <2>6, <2>7 DEF Allocated
<1>3. CASE o + s # cl.end /\ o + s \in DOMAIN cl.chunks /\ s + cl.chunks[o + s] >= n
  <2> DEFINE c  == cl.chunks[o + s]
             rm == RemoveChunk(cl, o + s)
             l  == InsertChunk(rm, o + n, s + c - n)
  <2>1. r = [ok |-> TRUE, offset |-> o, list |-> l]
    BY <1>3 DEF ReallocChunk, Success
  <2>2. /\ ListInv(rm) /\ rm.end = cl.end
        /\ DOMAIN rm.chunks = DOMAIN cl.chunks \ {o + s}
        /\ \A p \in DOMAIN rm.chunks : rm.chunks[p] = cl.chunks[p]
    BY <1>3, RemoveChunkInv DEF RemoveChunk
  <2>3. /\ c \in Nat /\ o + s + c < cl.end /\ s + c >= n
        /\ \A p \in DOMAIN cl.chunks : o + s < p => o + s + c < p
    BY <1>1, <1>3 DEF ListInv, Inside, Merged
  <2>4. \A p \in DOMAIN cl.chunks :
          /\ p <= o => p + cl.chunks[p] <= o
          /\ p > o => o + s <= p
    BY <1>1 DEF Unlisted, Disjoint, ChunkExtent, EndOf
  <2>5. \A p \in DOMAIN cl.chunks \ {o + s} : p <= o \/ o + s + c < p
    BY <1>1, <2>3, <2>4
  <2>6. ListInv(l)
    <3>1. \A p \in DOMAIN rm.chunks :
            /\ p # o + n
            /\ p < o + n => p + rm.chunks[p] < o + n
            /\ o + n < p => (o + n) + (s + c - n) < p
      BY <1>1, <2>2, <2>3, <2>4, <2>5
    <3>2. (o + n) + (s + c - n) < rm.end /\ HeaderSize <= o + n
          /\ o + n \in Nat /\ s + c - n \in Nat
      BY <1>1, <2>2, <2>3, HeaderSizeAssumption
    <3> QED
      BY <2>2, <3>1, <3>2, InsertChunkInv
  <2>7. /\ r.ok /\ r.offset = o /\ r.list = l
        /\ l.end = cl.end
        /\ DOMAIN l.chunks = (DOMAIN cl.chunks \ {o + s}) \cup {o + n}
        /\ l.chunks[o + n] = s + c - n
        /\ \A p \in DOMAIN cl.chunks \ {o + s} : p # o + n => l.chunks[p] = cl.chunks[p]
    BY <2>1, <2>2 DEF InsertChunk
  <2>8. \A p \in DOMAIN cl.chunks \ {o + s} : p # o + n /\ l.chunks[p] = cl.chunks[p]
    BY <1>1, <2>3, <2>5, <2>7
  <2>9. Unlisted(l, new)
    BY <1>1, <2>3, <2>4, <2>5, <2>7, <2>8 DEF Unlisted, Disjoint, EndOf, ChunkExtent
  <2>10. ASSUME NEW b \in Nat, Free(cl, b) \/ Holds(x, b) PROVE Free(l, b) \/ Holds(new, b)
    <3>1. CASE Holds(ChunkExtent(cl, o + s), b) \/ Holds(x, b)
      <4>1. o <= b /\ b < o + s + c
        BY <1>1, <2>3, <3>1 DEF Holds, EndOf, ChunkExtent
      <4>2. Holds(new, b) \/ Holds(ChunkExtent(l, o + n), b)
        BY <1>1, <2>3, <2>7, <4>1 DEF Holds, EndOf, ChunkExtent
      <4> QED
        BY <2>7, <4>2 DEF Free
    <3>2. ASSUME NEW p \in DOMAIN cl.chunks, Holds(ChunkExtent(cl, p), b), p # o + s
          PROVE  Free(l, b)
      BY <2>7, <2>8, <3>2 DEF Free, ChunkExtent
    <3> QED
      BY <2>7, <2>10, <3>1, <3>2 DEF Free
  <2>11. ASSUME NEW y \in Extent, Unlisted(cl, y), EndOf(y) <= cl.end, Disjoint(x, y)
         PROVE  Spared(y, n, r)
    <3>1. Disjoint(ChunkExtent(cl, o + s), y)
      BY <1>3, <2>11 DEF Unlisted
    <3>2. Disjoint(new, y) /\ Disjoint(ChunkExtent(l, o + n), y)
      BY <3>1, <1>1, <2>3, <2>7, <2>11 DEF Disjoint, ChunkExtent, EndOf, Extent
    <3>3. Unlisted(l, y)
      BY <3>2, <2>7, <2>8, <2>11 DEF Unlisted, ChunkExtent
    <3> QED
      BY <3>2, <3>3, <2>7, <2>11 DEF Spared
  <2>12. o + n <= l.end
    BY <1>1, <2>3, <2>7
  <2> QED
    BY <1>1, <2>6, <2>7, <2>9, <2>10, <2>11, <2>12 DEF Allocated
<1>4. CASE o + s # cl.end /\ ~(o + s \in DOMAIN cl.chunks /\ s + cl.chunks[o + s] >= n)
  <2> DEFINE f == FreeChunk(cl, o, s)
  <2>1. r = AllocChunk(f, n)
    BY <1>4 DEF ReallocChunk
  <2>2. /\ ListInv(f) /\ f.end = cl.end
        /\ \A b \in Nat : Free(cl, b) \/ Holds(x, b) => Free(f, b)
        /\ \A y \in Extent : Unlisted(cl, y) /\ Disjoint(x, y) => Unlisted(f, y)
    BY <1>1, <1>4, FreeChunkSafe
  <2>3. /\ Allocated(f, n, r)
        /\ \A y \in Extent : Unlisted(f, y) /\ EndOf(y) <= f.end => Spared(y, n, r)
    BY <2>1, <2>2, AllocChunkSafe
  <2> QED
    BY <2>2, <2>3 DEF Allocated
<1> QED
  BY <1>2, <1>3, <1>4

-----------------------------------------------------------------------------
(* list_available_chunks of a table whose entries share no byte. *)
LEMMA ListAvailableChunksSafe ==
  ASSUME NEW es, es \in [DOMAIN es -> Extent], ~Malformed(es), NEW L \in Nat,
         \A p \in DOMAIN es : HeaderSize <= es[p].offset /\ EndOf(es[p]) <= L
  PROVE  /\ ListInv(ListAvailableChunks(es))
         /\ \A p \in DOMAIN es : /\ Unlisted(ListAvailableChunks(es), es[p])
                                 /\ EndOf(es[p]) <= ListAvailableChunks(es).end
<1> DEFINE r == ListAvailableChunks(es)
<1> USE HeaderSizeAssumption
<1>1. CASE DOMAIN es = {}
  BY <1>1 DEF ListAvailableChunks, EmptyList, ListInv, ListType, SizesCover,
              PairsBacked, Merged, Inside
<1>2. CASE DOMAIN es # {}
  <2> DEFINE M == LastEnd(es)
             inner == Ends(es) \ {M}
  <2>1. /\ \A p \in DOMAIN es :
             /\ es[p].offset \in Nat /\ es[p].size \in Nat /\ es[p].size > 0
             /\ EndOf(es[p]) \in Nat /\ es[p].offset < EndOf(es[p])
        /\ \A p, q \in DOMAIN es : p # q =>
             EndOf(es[p]) <= es[q].offset \/ EndOf(es[q]) <= es[p].offset
    BY DEF Extent, EndOf, Malformed, Disjoint
  <2>2. /\ M \in Ends(es) /\ M \in Nat
        /\ \A y \in Ends(es) : y \in Nat /\ y <= M
    <3>1. /\ Ends(es) \subseteq Nat /\ Ends(es) # {}
          /\ \A y \in Ends(es) : y <= L
      BY <1>2, <2>1 DEF Ends
    <3>2. \E x \in Ends(es) : \A y \in Ends(es) : y <= x
      BY <3>1, NatMax
    <3> QED
      BY <3>1, <3>2 DEF LastEnd
  <2>3. ASSUME NEW x \in inner
        PROVE  /\ Gap(es, x) \in Nat
               /\ x + Gap(es, x) \in Starts(es)
               /\ \A s \in Starts(es) : x <= s => x + Gap(es, x) <= s
    <3> DEFINE S == {s \in Starts(es) : x <= s}
    <3>1. S \subseteq Nat /\ x \in Nat
      BY <2>1, <2>2 DEF Starts
    <3>2. S # {}
      <4>1. PICK p \in DOMAIN es : EndOf(es[p]) = x
        BY DEF Ends
      <4>2. PICK q \in DOMAIN es : EndOf(es[q]) = M
        BY <2>2 DEF Ends
      <4>3. x < M /\ p # q
        BY <2>2, <4>1, <4>2
      <4>4. x <= es[q].offset
        BY <2>1, <4>1, <4>2, <4>3
      <4> QED
        BY <4>4 DEF Starts
    <3>3. PICK e \in S : \A s \in S : e <= s
      BY <3>1, <3>2, NatMin
    <3>4. NextStart(es, x) \in S /\ \A s \in S : NextStart(es, x) <= s
      BY <3>3 DEF NextStart
    <3> HIDE DEF S
    <3>5. Gap(es, x) \in Nat /\ x + Gap(es, x) = NextStart(es, x)
      <4>1. NextStart(es, x) \in Nat /\ x <= NextStart(es, x)
        BY <3>1, <3>4 DEF S
      <4> QED
        BY <3>1, <4>1 DEF Gap
    <3> QED
      BY <3>4, <3>5 DEF S
  <2>4. /\ r = [end |-> M, sizes |-> {<<Gap(es, x), x>> : x \in inner},
                chunks |-> [x \in inner |-> Gap(es, x)]]
    BY <1>2 DEF ListAvailableChunks
  <2> HIDE DEF M, inner
  <2>5. /\ r.end = M /\ DOMAIN r.chunks = inner
        /\ \A x \in inner : r.chunks[x] = Gap(es, x)
        /\ r.sizes = {<<Gap(es, x), x>> : x \in inner}
    BY <2>4
  <2>6. inner \subseteq Nat /\ \A x \in inner : \E p \in DOMAIN es : EndOf(es[p]) = x
    BY <2>2 DEF inner, Ends
  <2>7. ListType(r)
    BY <2>2, <2>3, <2>4, <2>5, <2>6 DEF ListType
  <2>8. SizesCover(r) /\ PairsBacked(r)
    BY <2>5 DEF SizesCover, PairsBacked
  <2>9. Merged(r)
    <3>1. ASSUME NEW x1 \in inner, NEW x2 \in inner, x1 < x2
          PROVE  x1 + Gap(es, x1) < x2
      <4>1. PICK p1 \in DOMAIN es : EndOf(es[p1]) = x1
        BY <2>6
      <4>2. PICK p2 \in DOMAIN es : EndOf(es[p2]) = x2
        BY <2>6
      <4>3. x1 <= es[p2].offset
        BY <2>1, <3>1, <4>1, <4>2
      <4>4. x1 + Gap(es, x1) <= es[p2].offset
        BY <2>3, <4>3 DEF Starts
      <4> QED
        BY <2>1, <2>3, <2>6, <4>2, <4>4
    <3> QED
      BY <2>5, <3>1 DEF Merged
  <2>10. Inside(r)
    <3>1. ASSUME NEW x \in inner PROVE HeaderSize <= x /\ x + Gap(es, x) < M
      <4>1. PICK p \in DOMAIN es : EndOf(es[p]) = x
        BY <2>6
      <4>2. PICK q \in DOMAIN es : es[q].offset = x + Gap(es, x)
        BY <2>3 DEF Starts
      <4>3. EndOf(es[q]) <= M
        BY <2>2 DEF Ends
      <4> QED
        BY <2>1, <2>2, <2>6, <4>1, <4>2, <4>3
    <3>2. HeaderSize <= M
      <4>1. PICK q \in DOMAIN es : EndOf(es[q]) = M
        BY <2>2 DEF Ends
      <4> QED
        BY <2>1, <2>2, <4>1
    <3> QED
      BY <2>5, <3>1, <3>2 DEF Inside
  <2>11. ASSUME NEW p \in DOMAIN es PROVE Unlisted(r, es[p]) /\ EndOf(es[p]) <= r.end
    <3>1. EndOf(es[p]) <= r.end
      BY <2>2, <2>5 DEF Ends
    <3>2. ASSUME NEW x \in inner
          PROVE  x + Gap(es, x) <= es[p].offset \/ EndOf(es[p]) <= x
      <4>1. PICK q \in DOMAIN es : EndOf(es[q]) = x
        BY <2>6
      <4>2. CASE x <= es[p].offset
        BY <2>3, <4>2 DEF Starts
      <4>3. CASE ~(x <= es[p].offset)
        BY <2>1, <2>6, <4>1, <4>3
      <4> QED
        BY <4>2, <4>3
    <3>3. ASSUME NEW x \in inner PROVE Disjoint(ChunkExtent(r, x), es[p])
      BY <2>5, <3>2 DEF Disjoint, ChunkExtent, EndOf
    <3> QED
      BY <2>5, <3>1, <3>3 DEF Unlisted
  <2> QED
    BY <2>7, <2>8, <2>9, <2>10, <2>11 DEF ListInv
<1> QED
  BY <1>1, <1>2

-----------------------------------------------------------------------------
(* Whatever is removed, tail entries included: insertions keep the pairs.    *)
LEMMA InsertChunkCover ==
  ASSUME NEW cl, SizesCover(cl), NEW o, NEW n
  PROVE  SizesCover(InsertChunk(cl, o, n))
BY DEF SizesCover, InsertChunk

LEMMA RemoveChunkCover ==
  ASSUME NEW cl, SizesCover(cl), NEW o
  PROVE  SizesCover(RemoveChunk(cl, o))
BY DEF SizesCover, RemoveChunk

LEMMA AllocChunkCover ==
  ASSUME NEW cl, SizesCover(cl), NEW n
  PROVE  SizesCover(AllocChunk(cl, n).list)
<1> DEFINE o == FindSuitableChunk(cl, n)
<1>1. CASE o = cl.end
  <2>1. AllocChunk(cl, n).list = [cl EXCEPT !.end = o + n]
    BY <1>1 DEF AllocChunk, AllocAt, Success
  <2> QED
    BY <2>1 DEF SizesCover
<1>2. CASE o # cl.end /\ o \notin DOMAIN cl.chunks
  BY <1>2 DEF AllocChunk, AllocAt, Failure
<1>3. CASE o # cl.end /\ o \in DOMAIN cl.chunks
  <2>1. SizesCover(RemoveChunk(cl, o))
    BY RemoveChunkCover
  <2>2. SizesCover(InsertChunk(RemoveChunk(cl, o), o + n, cl.chunks[o] - n))
    BY <2>1, InsertChunkCover
  <2> QED
    BY <1>3, <2>1, <2>2 DEF AllocChunk, AllocAt, Success
<1> QED
  BY <1>1, <1>2, <1>3

LEMMA ReleaseMergedCover ==
  ASSUME NEW cl, SizesCover(cl), NEW x
  PROVE  SizesCover(ReleaseMerged(cl, x))
<1>1. SizesCover([cl EXCEPT !.end = x.offset])
  BY DEF SizesCover
<1>2. SizesCover(RemoveChunk(cl, EndOf(x)))
  BY RemoveChunkCover
<1> QED
  BY <1>1, <1>2, InsertChunkCover DEF ReleaseMerged

LEMMA FreeChunkCover ==
  ASSUME NEW cl, SizesCover(cl), NEW o, NEW s
  PROVE  SizesCover(FreeChunk(cl, o, s))
<1> DEFINE l == CHOOSE l \in LeftNeighbours(cl, o) : TRUE
<1>1. SizesCover(RemoveChunk(cl, l))
  BY RemoveChunkCover
<1> QED
  BY <1>1, ReleaseMergedCover DEF FreeChunk

LEMMA ReallocChunkCover ==
  ASSUME NEW cl, SizesCover(cl), NEW o, NEW s, NEW n
  PROVE  SizesCover(ReallocChunk(cl, o, s, n).list)
<1>1. SizesCover([cl EXCEPT !.end = o + n])
  BY DEF SizesCover
<1>2. SizesCover(InsertChunk(RemoveChunk(cl, o + s), o + n, s + cl.chunks[o + s] - n))
  BY RemoveChunkCover, InsertChunkCover
<1>3. SizesCover(AllocChunk(FreeChunk(cl, o, s), n).list)
  BY FreeChunkCover, AllocChunkCover
<1> QED
  BY <1>1, <1>2, <1>3 DEF ReallocChunk, Success

-----------------------------------------------------------------------------
(* Whatever is removed, tail entries included: what never shares a byte with *)
(* the list is never given out (Roomy, Clear).                               *)

(* An exact list is clear of what it does not list. *)
LEMMA ExactIsClear ==
  ASSUME NEW cl, ListInv(cl)
  PROVE  /\ Roomy(cl)
         /\ \A y : Unlisted(cl, y) /\ EndOf(y) <= cl.end => Clear(cl, y)
<1>1. \A t \in cl.sizes : t[1] > 0 =>
        /\ t[2] \in DOMAIN cl.chunks
        /\ ChunkExtent(cl, t[2]) = [offset |-> t[2], size |-> t[1]]
  BY DEF ListInv, PairsBacked, ChunkExtent
<1> QED
  BY <1>1 DEF ListInv, Inside, Roomy, Clear, Unlisted

(* The list stays clear of y through insertions beside y, removals, and moves *)
(* of the end that stay behind y.                                            *)
LEMMA InsertChunkClear ==
  ASSUME NEW cl, Roomy(cl), NEW o \in Nat, NEW n \in Nat, HeaderSize <= o
  PROVE  /\ Roomy(InsertChunk(cl, o, n))
         /\ \A y \in Extent : Clear(cl, y) /\ Disjoint([offset |-> o, size |-> n], y)
                                => Clear(InsertChunk(cl, o, n), y)
<1> DEFINE r == InsertChunk(cl, o, n)
<1>1. /\ r.end = cl.end
      /\ r.sizes = cl.sizes \cup {<<n, o>>}
      /\ DOMAIN r.chunks = DOMAIN cl.chunks \cup {o}
      /\ r.chunks[o] = n
      /\ \A p \in DOMAIN cl.chunks : p # o => r.chunks[p] = cl.chunks[p]
      /\ r = [end |-> r.end, sizes |-> r.sizes, chunks |-> r.chunks]
      /\ r.chunks = [p \in DOMAIN r.chunks |-> r.chunks[p]]
  BY DEF InsertChunk
<1> HIDE DEF r
<1>2. ListType(r)
  BY <1>1 DEF Roomy, ListType
<1>3. Roomy(r)
  BY <1>1, <1>2 DEF Roomy
<1>4. ASSUME NEW y \in Extent, Clear(cl, y), Disjoint([offset |-> o, size |-> n], y)
      PROVE  Clear(r, y)
  <2>1. Unlisted(r, y)
    BY <1>1, <1>4 DEF Clear, Unlisted, ChunkExtent
  <2>2. \A t \in r.sizes : t[1] > 0 => Disjoint([offset |-> t[2], size |-> t[1]], y)
    BY <1>1, <1>4 DEF Clear
  <2> QED
    BY <1>1, <1>4, <2>1, <2>2 DEF Clear
<1> QED
  BY <1>3, <1>4 DEF r

LEMMA RemoveChunkClear ==
  ASSUME NEW cl, Roomy(cl), NEW o
  PROVE  /\ Roomy(RemoveChunk(cl, o))
         /\ \A y : Clear(cl, y) => Clear(RemoveChunk(cl, o), y)
<1> DEFINE r == RemoveChunk(cl, o)
<1>1. /\ r.end = cl.end
      /\ r.sizes \subseteq cl.sizes
      /\ DOMAIN r.chunks \subseteq DOMAIN cl.chunks
      /\ \A p \in DOMAIN r.chunks : r.chunks[p] = cl.chunks[p]
      /\ r = [end |-> r.end, sizes |-> r.sizes, chunks |-> r.chunks]
      /\ r.chunks = [p \in DOMAIN r.chunks |-> r.chunks[p]]
  BY DEF RemoveChunk
<1> HIDE DEF r
<1>2. ListType(r)
  BY <1>1 DEF Roomy, ListType
<1>3. Roomy(r)
  BY <1>1, <1>2 DEF Roomy
<1>4. ASSUME NEW y, Clear(cl, y) PROVE Clear(r, y)
  BY <1>1, <1>4 DEF Clear, Unlisted, ChunkExtent
<1> QED
  BY <1>3, <1>4 DEF r

LEMMA MoveEndClear ==
  ASSUME NEW cl, Roomy(cl), NEW e \in Nat, HeaderSize <= e
  PROVE  LET r == [cl EXCEPT !.end = e]
         IN  /\ Roomy(r)
             /\ \A y : Clear(cl, y) /\ EndOf(y) <= e => Clear(r, y)
<1> DEFINE r == [cl EXCEPT !.end = e]
<1>1. /\ r.end = e /\ r.sizes = cl.sizes /\ r.chunks = cl.chunks
      /\ r = [end |-> r.end, sizes |-> r.sizes, chunks |-> r.chunks]
  BY DEF Roomy, ListType
<1> HIDE DEF r
<1>2. Roomy(r)
  BY <1>1 DEF Roomy, ListType
<1>3. \A y : Clear(cl, y) /\ EndOf(y) <= e => Clear(r, y)
  BY <1>1 DEF Clear, Unlisted, ChunkExtent
<1> QED
  BY <1>2, <1>3 DEF r

(* What an allocation of n bytes returns in r, for a list whose chunks and   *)
(* pairs were clear of y: the room and the new list are too.                 *)
ClearOf(y, n, r) ==
  /\ r.ok => Disjoint([offset |-> r.offset, size |-> n], y)
  /\ Clear(r.list, y)
LooseRoom(r) ==
  /\ r.offset \in Nat /\ HeaderSize <= r.offset
  /\ Roomy(r.list)

(* alloc_chunk never gives out a byte of y.                                  *)
LEMMA AllocChunkClear ==
  ASSUME NEW cl, Roomy(cl), NEW n \in Nat \ {0}
  PROVE  /\ LooseRoom(AllocChunk(cl, n))
         /\ \A y \in Extent : Clear(cl, y) => ClearOf(y, n, AllocChunk(cl, n))
<1> DEFINE o == FindSuitableChunk(cl, n)
           r == AllocChunk(cl, n)
<1>1. /\ cl.end \in Nat /\ HeaderSize <= cl.end /\ cl.sizes \subseteq Nat \X Nat
      /\ \A p \in DOMAIN cl.chunks : p \in Nat /\ cl.chunks[p] \in Nat
  BY DEF Roomy, ListType
<1>2. /\ o \in Nat /\ HeaderSize <= o
      /\ \A y \in Extent : Clear(cl, y) => Disjoint([offset |-> o, size |-> n], y)
  <2>1. CASE o = cl.end
    BY <1>1, <2>1 DEF Clear, Disjoint, EndOf, Extent
  <2>2. CASE o # cl.end
    <3>1. PICK t \in cl.sizes : t[1] >= n /\ t[1] > 0 /\ t[2] = o
      BY <1>1, <2>2, FindSuitableChunkPair
    <3>2. t[1] \in Nat /\ t[2] \in Nat /\ HeaderSize <= t[2]
      BY <1>1, <3>1 DEF Roomy
    <3>3. \A y \in Extent : Clear(cl, y) => Disjoint([offset |-> t[2], size |-> t[1]], y)
      BY <3>1 DEF Clear
    <3> QED
      BY <3>1, <3>2, <3>3 DEF Disjoint, EndOf, Extent
  <2> QED
    BY <2>1, <2>2
<1> HIDE DEF o
<1>3. r = AllocAt(cl, o, n)
  BY DEF AllocChunk, o
<1>4. CASE o = cl.end
  <2> DEFINE l == [cl EXCEPT !.end = o + n]
  <2>1. r.offset = o /\ r.list = l
    BY <1>3, <1>4 DEF AllocAt, Success
  <2>2. o + n \in Nat /\ HeaderSize <= o + n
    BY <1>1, <1>2, HeaderSizeAssumption
  <2>3. /\ Roomy(l)
        /\ \A y : Clear(cl, y) /\ EndOf(y) <= o + n => Clear(l, y)
    BY <2>2, MoveEndClear
  <2>4. \A y \in Extent : Clear(cl, y) => EndOf(y) <= o + n
    BY <1>1, <1>4 DEF Clear, EndOf, Extent
  <2> HIDE DEF l
  <2> QED
    BY <1>2, <2>1, <2>3, <2>4 DEF LooseRoom, ClearOf
<1>5. CASE o # cl.end /\ o \notin DOMAIN cl.chunks
  <2>1. r.offset = o /\ r.list = cl
    BY <1>3, <1>5 DEF AllocAt, Failure
  <2> QED
    BY <1>2, <2>1 DEF LooseRoom, ClearOf
<1>6. CASE o # cl.end /\ o \in DOMAIN cl.chunks
  <2> DEFINE c  == cl.chunks[o]
             rm == RemoveChunk(cl, o)
             l  == InsertChunk(rm, o + n, c - n)
  <2>1. r.offset = o /\ r.list = IF c > n THEN l ELSE rm
    BY <1>3, <1>6 DEF AllocAt, Success
  <2>2. /\ Roomy(rm)
        /\ \A y : Clear(cl, y) => Clear(rm, y)
    BY RemoveChunkClear
  <2>3. CASE c > n
    <3>1. o + n \in Nat /\ c - n \in Nat /\ HeaderSize <= o + n
      BY <1>1, <1>2, <1>6, <2>3, HeaderSizeAssumption
    <3>2. \A y \in Extent : Clear(cl, y) => Disjoint([offset |-> o + n, size |-> c - n], y)
      <4>1. \A y \in Extent : Clear(cl, y) => Disjoint([offset |-> o, size |-> c], y)
        BY <1>6 DEF Clear, Unlisted, ChunkExtent
      <4> QED
        BY <4>1, <1>1, <1>2, <1>6, <2>3 DEF Disjoint, EndOf, Extent
    <3> HIDE DEF rm, c
    <3>3. /\ Roomy(l)
          /\ \A y \in Extent : Clear(rm, y) /\ Disjoint([offset |-> o + n, size |-> c - n], y)
                                 => Clear(l, y)
      BY <2>2, <3>1, InsertChunkClear
    <3> HIDE DEF l
    <3> QED
      BY <1>2, <2>1, <2>2, <2>3, <3>2, <3>3 DEF LooseRoom, ClearOf
  <2>4. CASE ~(c > n)
    BY <1>2, <2>1, <2>2, <2>4 DEF LooseRoom, ClearOf
  <2> QED
    BY <2>3, <2>4
<1> QED
  BY <1>4, <1>5, <1>6

(* free_chunk of an extent beside y, wherever it lies. *)
LEMMA ReleaseMergedClear ==
  ASSUME NEW cl, Roomy(cl), NEW x \in Extent, HeaderSize <= x.offset
  PROVE  /\ Roomy(ReleaseMerged(cl, x))
         /\ \A y \in Extent : Clear(cl, y) /\ Disjoint(x, y) => Clear(ReleaseMerged(cl, x), y)
<1> DEFINE o == x.offset
           s == x.size
           r == ReleaseMerged(cl, x)
<1>1. /\ o \in Nat /\ s \in Nat /\ s > 0 /\ EndOf(x) = o + s /\ cl.end \in Nat
      /\ x = [offset |-> o, size |-> s] /\ HeaderSize <= o
      /\ \A p \in DOMAIN cl.chunks : p \in Nat /\ cl.chunks[p] \in Nat
  BY DEF Extent, EndOf, Roomy, ListType
<1> HIDE DEF o, s
<1>2. CASE o + s = cl.end
  <2> DEFINE l == [cl EXCEPT !.end = o]
  <2>1. r = InsertChunk(l, o, s)
    BY <1>1, <1>2 DEF ReleaseMerged, o, s
  <2>2. /\ Roomy(l)
        /\ \A y : Clear(cl, y) /\ EndOf(y) <= o => Clear(l, y)
    BY <1>1, MoveEndClear
  <2>3. \A y \in Extent : Clear(cl, y) /\ Disjoint(x, y) => EndOf(y) <= o
    BY <1>1, <1>2 DEF Clear, Disjoint, EndOf, Extent
  <2> HIDE DEF l
  <2>4. /\ Roomy(InsertChunk(l, o, s))
        /\ \A y \in Extent : Clear(l, y) /\ Disjoint([offset |-> o, size |-> s], y)
                               => Clear(InsertChunk(l, o, s), y)
    BY <1>1, <2>2, InsertChunkClear
  <2> QED
    BY <1>1, <2>1, <2>2, <2>3, <2>4
<1>3. CASE o + s # cl.end /\ o + s \in DOMAIN cl.chunks
  <2> DEFINE c  == cl.chunks[o + s]
             rm == RemoveChunk(cl, o + s)
  <2>1. r = InsertChunk(rm, o, s + c)
    BY <1>1, <1>3 DEF ReleaseMerged, o, s
  <2>2. /\ Roomy(rm)
        /\ \A y : Clear(cl, y) => Clear(rm, y)
    BY RemoveChunkClear
  <2>3. s + c \in Nat
    BY <1>1, <1>3
  <2>4. \A y \in Extent : Clear(cl, y) /\ Disjoint(x, y) =>
                            Disjoint([offset |-> o, size |-> s + c], y)
    <3>1. \A y \in Extent : Clear(cl, y) => Disjoint([offset |-> o + s, size |-> c], y)
      BY <1>3 DEF Clear, Unlisted, ChunkExtent
    <3> QED
      BY <3>1, <1>1, <1>3 DEF Disjoint, EndOf, Extent
  <2> HIDE DEF rm, c
  <2>5. /\ Roomy(InsertChunk(rm, o, s + c))
        /\ \A y \in Extent : Clear(rm, y) /\ Disjoint([offset |-> o, size |-> s + c], y)
                               => Clear(InsertChunk(rm, o, s + c), y)
    BY <1>1, <2>2, <2>3, InsertChunkClear
  <2> QED
    BY <2>1, <2>2, <2>4, <2>5
<1>4. CASE o + s # cl.end /\ o + s \notin DOMAIN cl.chunks
  <2>1. r = InsertChunk(cl, o, s)
    BY <1>1, <1>4 DEF ReleaseMerged, o, s
  <2>2. /\ Roomy(InsertChunk(cl, o, s))
        /\ \A y \in Extent : Clear(cl, y) /\ Disjoint([offset |-> o, size |-> s], y)
                               => Clear(InsertChunk(cl, o, s), y)
    BY <1>1, InsertChunkClear
  <2> QED
    BY <1>1, <2>1, <2>2
<1> QED
  BY <1>2, <1>3, <1>4

LEMMA FreeChunkClear ==
  ASSUME NEW cl, Roomy(cl), NEW x \in Extent, HeaderSize <= x.offset
  PROVE  LET r == FreeChunk(cl, x.offset, x.size)
         IN  /\ Roomy(r)
             /\ \A y \in Extent : Clear(cl, y) /\ Disjoint(x, y) => Clear(r, y)
<1> DEFINE o == x.offset
           s == x.size
           r == FreeChunk(cl, o, s)
<1>1. /\ o \in Nat /\ s \in Nat /\ s > 0
      /\ x = [offset |-> o, size |-> s]
      /\ \A p \in DOMAIN cl.chunks : p \in Nat /\ cl.chunks[p] \in Nat /\ HeaderSize <= p
  BY DEF Extent, Roomy, ListType
<1>2. CASE LeftNeighbours(cl, o) = {}
  <2>1. r = ReleaseMerged(cl, x)
    BY <1>1, <1>2 DEF FreeChunk
  <2> QED
    BY <2>1, ReleaseMergedClear
<1>3. CASE LeftNeighbours(cl, o) # {}
  <2> DEFINE l  == CHOOSE l \in LeftNeighbours(cl, o) : TRUE
             rm == RemoveChunk(cl, l)
             z  == [offset |-> l, size |-> s + cl.chunks[l]]
  <2>1. l \in DOMAIN cl.chunks /\ l + cl.chunks[l] = o /\ l \in Nat /\ cl.chunks[l] \in Nat
    BY <1>1, <1>3 DEF LeftNeighbours
  <2>2. r = ReleaseMerged(rm, z)
    BY <1>3 DEF FreeChunk
  <2>3. /\ Roomy(rm)
        /\ \A y : Clear(cl, y) => Clear(rm, y)
    BY RemoveChunkClear
  <2>4. z \in Extent /\ HeaderSize <= z.offset
    BY <1>1, <2>1 DEF Extent
  <2>5. \A y \in Extent : Clear(cl, y) /\ Disjoint(x, y) => Disjoint(z, y)
    <3>1. \A y \in Extent : Clear(cl, y) => Disjoint([offset |-> l, size |-> cl.chunks[l]], y)
      BY <2>1 DEF Clear, Unlisted, ChunkExtent
    <3> QED
      BY <3>1, <1>1, <2>1 DEF Disjoint, EndOf, Extent
  <2> HIDE DEF rm, z
  <2>6. /\ Roomy(ReleaseMerged(rm, z))
        /\ \A y \in Extent : Clear(rm, y) /\ Disjoint(z, y) => Clear(ReleaseMerged(rm, z), y)
    BY <2>3, <2>4, ReleaseMergedClear
  <2> QED
    BY <2>2, <2>3, <2>5, <2>6
<1> QED
  BY <1>2, <1>3

(* realloc_chunk of an extent beside y. *)
LEMMA ReallocChunkClear ==
  ASSUME NEW cl, Roomy(cl), NEW n \in Nat \ {0}, NEW x \in Extent, HeaderSize <= x.offset
  PROVE  LET r == ReallocChunk(cl, x.offset, x.size, n)
         IN  /\ LooseRoom(r)
             /\ \A y \in Extent : Clear(cl, y) /\ Disjoint(x, y) => ClearOf(y, n, r)
<1> DEFINE o == x.offset
           s == x.size
           r == ReallocChunk(cl, o, s, n)
<1>1. /\ o \in Nat /\ s \in Nat /\ s > 0 /\ cl.end \in Nat
      /\ x = [offset |-> o, size |-> s] /\ HeaderSize <= o
      /\ \A p \in DOMAIN cl.chunks : p \in Nat /\ cl.chunks[p] \in Nat
  BY DEF Extent, Roomy, ListType
<1> HIDE DEF o, s
<1>2. CASE o + s = cl.end
  <2> DEFINE l == [cl EXCEPT !.end = o + n]
  <2>1. r.offset = o /\ r.list = l
    BY <1>2 DEF ReallocChunk, Success
  <2>2. /\ Roomy(l)
        /\ \A y : Clear(cl, y) /\ EndOf(y) <= o + n => Clear(l, y)
    <3>1. o + n \in Nat /\ HeaderSize <= o + n
      BY <1>1, HeaderSizeAssumption
    <3> QED
      BY <3>1, MoveEndClear
  <2>3. \A y \in Extent : Clear(cl, y) /\ Disjoint(x, y) =>
          EndOf(y) <= o + n /\ Disjoint([offset |-> o, size |-> n], y)
    BY <1>1, <1>2 DEF Clear, Disjoint, EndOf, Extent
  <2> HIDE DEF l
  <2> QED
    BY <1>1, <2>1, <2>2, <2>3 DEF LooseRoom, ClearOf, o, s
<1>3. CASE o + s # cl.end /\ o + s \in DOMAIN cl.chunks /\ s + cl.chunks[o + s] >= n
  <2> DEFINE c  == cl.chunks[o + s]
             rm == RemoveChunk(cl, o + s)
             l  == InsertChunk(rm, o + n, s + c - n)
  <2>1. r.offset = o /\ r.list = l
    BY <1>3 DEF ReallocChunk, Success
  <2>2. /\ Roomy(rm)
        /\ \A y : Clear(cl, y) => Clear(rm, y)
    BY RemoveChunkClear
  <2>3. o + n \in Nat /\ s + c - n \in Nat /\ HeaderSize <= o + n
    BY <1>1, <1>3, HeaderSizeAssumption
  <2>4. \A y \in Extent : Clear(cl, y) /\ Disjoint(x, y) =>
          /\ Disjoint([offset |-> o, size |-> n], y)
          /\ Disjoint([offset |-> o + n, size |-> s + c - n], y)
    <3>1. \A y \in Extent : Clear(cl, y) => Disjoint([offset |-> o + s, size |-> c], y)
      BY <1>3 DEF Clear, Unlisted, ChunkExtent
    <3> QED
      BY <3>1, <1>1, <1>3 DEF Disjoint, EndOf, Extent
  <2> HIDE DEF rm, c
  <2>5. /\ Roomy(l)
        /\ \A y \in Extent : Clear(rm, y) /\ Disjoint([offset |-> o + n, size |-> s + c - n], y)
                               => Clear(l, y)
    BY <2>2, <2>3, InsertChunkClear
  <2> HIDE DEF l
  <2> QED
    BY <1>1, <2>1, <2>2, <2>4, <2>5 DEF LooseRoom, ClearOf, o, s
<1>4. CASE o + s # cl.end /\ ~(o + s \in DOMAIN cl.chunks /\ s + cl.chunks[o + s] >= n)
  <2> DEFINE f == FreeChunk(cl, o, s)
  <2>1. r = AllocChunk(f, n)
    BY <1>4 DEF ReallocChunk
  <2>2. /\ Roomy(f)
        /\ \A y \in Extent : Clear(cl, y) /\ Disjoint(x, y) => Clear(f, y)
    BY FreeChunkClear DEF o, s
  <2> HIDE DEF f
  <2>3. /\ LooseRoom(AllocChunk(f, n))
        /\ \A y \in Extent : Clear(f, y) => ClearOf(y, n, AllocChunk(f, n))
    BY <2>2, AllocChunkClear
  <2> QED
    BY <2>1, <2>2, <2>3 DEF o, s
<1> QED
  BY <1>2, <1>3, <1>4 DEF o, s

(* Pairs of a positive size stay backed by chunks, tail entries included.    *)
LEMMA InsertChunkBacked ==
  ASSUME NEW cl, PairsBacked(cl), cl.sizes \subseteq Nat \X Nat, NEW o, NEW n,
         o \in DOMAIN cl.chunks => cl.chunks[o] = 0
  PROVE  PairsBacked(InsertChunk(cl, o, n))
<1> DEFINE r == InsertChunk(cl, o, n)
<1>1. /\ r.sizes = cl.sizes \cup {<<n, o>>}
      /\ DOMAIN r.chunks = DOMAIN cl.chunks \cup {o}
      /\ r.chunks[o] = n
      /\ \A p \in DOMAIN cl.chunks : p # o => r.chunks[p] = cl.chunks[p]
  BY DEF InsertChunk
<1>2. ASSUME NEW t \in cl.sizes, t[1] > 0
      PROVE  t[2] \in DOMAIN cl.chunks /\ cl.chunks[t[2]] = t[1] /\ t[2] # o
  <2>1. t[2] \in DOMAIN cl.chunks /\ cl.chunks[t[2]] = t[1] /\ t[1] \in Nat
    BY <1>2 DEF PairsBacked
  <2> QED
    BY <1>2, <2>1
<1> QED
  BY <1>1, <1>2 DEF PairsBacked

LEMMA RemoveChunkBacked ==
  ASSUME NEW cl, PairsBacked(cl), cl.sizes \subseteq Nat \X Nat, NEW o
  PROVE  PairsBacked(RemoveChunk(cl, o))
<1> DEFINE r == RemoveChunk(cl, o)
<1>1. /\ r.sizes = cl.sizes \ {<<cl.chunks[o], o>>}
      /\ DOMAIN r.chunks = DOMAIN cl.chunks \ {o}
      /\ \A p \in DOMAIN r.chunks : r.chunks[p] = cl.chunks[p]
  BY DEF RemoveChunk
<1>2. ASSUME NEW t \in r.sizes, t[1] > 0
      PROVE  t[2] \in DOMAIN r.chunks /\ r.chunks[t[2]] = t[1]
  <2>1. t \in cl.sizes /\ t[2] \in DOMAIN cl.chunks /\ cl.chunks[t[2]] = t[1] /\ t = <<t[1], t[2]>>
    BY <1>1, <1>2 DEF PairsBacked
  <2>2. t[2] # o
    BY <1>1, <1>2, <2>1
  <2> QED
    BY <1>1, <2>1, <2>2
<1> QED
  BY <1>2 DEF PairsBacked

LEMMA ReleaseMergedBacked ==
  ASSUME NEW cl, Roomy(cl), PairsBacked(cl), NEW x,
         x.offset \in DOMAIN cl.chunks => cl.chunks[x.offset] = 0
  PROVE  PairsBacked(ReleaseMerged(cl, x))
<1> DEFINE e  == [cl EXCEPT !.end = x.offset]
           rm == RemoveChunk(cl, EndOf(x))
<1>1. cl.sizes \subseteq Nat \X Nat
  BY DEF Roomy, ListType
<1>2. e.sizes = cl.sizes /\ e.chunks = cl.chunks
  BY DEF Roomy, ListType
<1>3. PairsBacked(e)
  BY <1>2 DEF PairsBacked
<1>4. PairsBacked(rm) /\ rm.sizes \subseteq Nat \X Nat
      /\ DOMAIN rm.chunks \subseteq DOMAIN cl.chunks
      /\ \A p \in DOMAIN rm.chunks : rm.chunks[p] = cl.chunks[p]
  BY <1>1, RemoveChunkBacked DEF RemoveChunk
<1> HIDE DEF e, rm
<1>5. /\ \A n : PairsBacked(InsertChunk(e, x.offset, n))
      /\ \A n : PairsBacked(InsertChunk(rm, x.offset, n))
      /\ \A n : PairsBacked(InsertChunk(cl, x.offset, n))
  BY <1>1, <1>2, <1>3, <1>4, InsertChunkBacked
<1> QED
  BY <1>5 DEF ReleaseMerged, e, rm

LEMMA FreeChunkBacked ==
  ASSUME NEW cl, Roomy(cl), PairsBacked(cl), NEW x \in Extent, Unlisted(cl, x)
  PROVE  PairsBacked(FreeChunk(cl, x.offset, x.size))
<1> DEFINE o == x.offset
           s == x.size
<1>1. /\ o \in Nat /\ s \in Nat /\ s > 0
      /\ \A p \in DOMAIN cl.chunks : p \in Nat /\ cl.chunks[p] \in Nat
      /\ cl.sizes \subseteq Nat \X Nat
  BY DEF Extent, Roomy, ListType
<1>2. CASE LeftNeighbours(cl, o) = {}
  <2> DEFINE z == [offset |-> o, size |-> s]
  <2>1. z.offset \in DOMAIN cl.chunks => cl.chunks[z.offset] = 0
    BY <1>1 DEF Unlisted, Disjoint, ChunkExtent, EndOf
  <2>2. FreeChunk(cl, o, s) = ReleaseMerged(cl, z)
    BY <1>2 DEF FreeChunk
  <2> HIDE DEF z
  <2> QED
    BY <2>1, <2>2, ReleaseMergedBacked
<1>3. CASE LeftNeighbours(cl, o) # {}
  <2> DEFINE l  == CHOOSE l \in LeftNeighbours(cl, o) : TRUE
             rm == RemoveChunk(cl, l)
             z  == [offset |-> l, size |-> s + cl.chunks[l]]
  <2>1. FreeChunk(cl, o, s) = ReleaseMerged(rm, z)
    BY <1>3 DEF FreeChunk
  <2>2. Roomy(rm) /\ PairsBacked(rm)
    BY <1>1, RemoveChunkClear, RemoveChunkBacked
  <2>3. z.offset \notin DOMAIN rm.chunks
    BY DEF RemoveChunk
  <2> HIDE DEF rm, z
  <2> QED
    BY <2>1, <2>2, <2>3, ReleaseMergedBacked
<1> QED
  BY <1>2, <1>3

(* While they are, alloc_chunk does not fail. *)
LEMMA AllocChunkServes ==
  ASSUME NEW cl, Roomy(cl), PairsBacked(cl), NEW n \in Nat \ {0}
  PROVE  AllocChunk(cl, n).ok
<1> DEFINE o == FindSuitableChunk(cl, n)
<1>1. o = cl.end \/ o \in DOMAIN cl.chunks
  <2> SUFFICES ASSUME o # cl.end PROVE o \in DOMAIN cl.chunks
    OBVIOUS
  <2>1. cl.sizes \subseteq Nat \X Nat
    BY DEF Roomy, ListType
  <2> QED
    BY <2>1, FindSuitableChunkPair DEF PairsBacked
<1> QED
  BY <1>1 DEF AllocChunk, AllocAt, Success
=============================================================================
