-------------------------- MODULE GrfInPlace_proofs --------------------------
(***************************************************************************)
(* Theorems about GrfInPlace, for any archives, patches, faults and number *)
(* of attempts.                                                            *)
(*                                                                         *)
(* First the files that the patch does not name: whatever is removed and   *)
(* whatever fails, no write touches them (InPlaceInv, with the lists that  *)
(* are only Clear of them), unless a torn header hid them from an attempt  *)
(* that opened the archive, which takes a second one.  Then what a patch   *)
(* that returns Ok has done (PlacedSoFar, with the exact lists of ListInv) *)
(* and that the next attempt can open it.  Last the refinements:           *)
(* of GrfStore, where the header that is written is the step, and of       *)
(* ChunkAlloc, where a place that is given out or back is the step.        *)
(***************************************************************************)
EXTENDS GrfInPlace, ChunkList_proofs, FiniteSetTheorems, SequenceTheorems

-----------------------------------------------------------------------------
(* Tables.                                                                   *)

(* What is below a bound is below a larger one. *)
LEMMA StaysBelow == \A x, y, z \in Nat : x <= y => x <= y + z
  OBVIOUS

(* The entries of a finite table end somewhere. *)
LEMMA TableBound ==
  ASSUME NEW es, IsFiniteSet(DOMAIN es), es \in [DOMAIN es -> Extent]
  PROVE  \E L \in Nat : \A p \in DOMAIN es : EndOf(es[p]) <= L
<1> DEFINE D == DOMAIN es
<1>1. \A p \in D : EndOf(es[p]) \in Nat
  BY DEF Extent, EndOf
<1>2. PICK s \in Seq(D) : \A p \in D : \E i \in 1 .. Len(s) : s[i] = p
  BY DEF IsFiniteSet
<1> HIDE DEF D
<1>3. Len(s) \in Nat /\ \A i \in 1 .. Len(s) : s[i] \in D
  BY <1>2, ElementOfSeq, LenProperties
<1> DEFINE Bounds(k, L) == \A i \in 1 .. k : EndOf(es[s[i]]) <= L
           Bad == {k \in 0 .. Len(s) : ~ \E L \in Nat : Bounds(k, L)}
<1>4. Bad = {}
  <2> SUFFICES ASSUME Bad # {} PROVE FALSE
    OBVIOUS
  <2>1. Bad \subseteq Nat
    BY <1>3
  <2>2. PICK k \in Bad : \A j \in Bad : k <= j
    BY <2>1, NatMin
  <2>3. k \in 0 .. Len(s) /\ ~ \E L \in Nat : Bounds(k, L)
    OBVIOUS
  <2>4. k # 0
    <3>1. Bounds(0, 0)
      OBVIOUS
    <3> QED
      BY <2>3, <3>1
  <2>5. k \in 1 .. Len(s) /\ k - 1 \in 0 .. Len(s)
    BY <1>3, <2>3, <2>4
  <2>6. PICK L \in Nat : Bounds(k - 1, L)
    <3>1. k - 1 \notin Bad
      <4>1. k \in Nat /\ k - 1 \in Nat /\ ~(k <= k - 1)
        BY <1>3, <2>5
      <4> HIDE DEF Bad
      <4> QED
        BY <2>2, <4>1
    <3> QED
      BY <2>5, <3>1
  <2>7. EndOf(es[s[k]]) \in Nat
    BY <1>1, <1>3, <2>5
  <2>8. Bounds(k, L + EndOf(es[s[k]]))
    <3>1. ASSUME NEW i \in 1 .. k PROVE EndOf(es[s[i]]) <= L + EndOf(es[s[k]])
      <4>1. i \in 1 .. Len(s) /\ EndOf(es[s[i]]) \in Nat
        <5>1. i \in 1 .. Len(s)
          BY <1>3, <2>5
        <5>2. s[i] \in D
          BY <1>3, <5>1
        <5> QED
          BY <1>1, <5>1, <5>2
      <4>2. CASE i = k
        BY <2>7, <4>2
      <4>3. CASE i # k
        <5>1. i \in 1 .. k - 1
          BY <2>5, <4>3
        <5>2. EndOf(es[s[i]]) <= L
          BY <5>1, <2>6
        <5> HIDE DEF Bounds, Bad
        <5> QED
          BY <2>7, <4>1, <5>2, StaysBelow
      <4> QED
        BY <4>2, <4>3
    <3> QED
      BY <3>1
  <2>9. L + EndOf(es[s[k]]) \in Nat
    BY <2>7
  <2> HIDE DEF Bounds
  <2> QED
    BY <2>3, <2>8, <2>9
<1>5. PICK L \in Nat : Bounds(Len(s), L)
  <2>1. Len(s) \notin Bad /\ Len(s) \in 0 .. Len(s)
    BY <1>3, <1>4
  <2> QED
    BY <2>1
<1> QED
  BY <1>2, <1>3, <1>5 DEF D

(* The list of a table that passed the check of open(). *)
LEMMA OpenedList ==
  ASSUME NEW es, IsFiniteSet(DOMAIN es), es \in [DOMAIN es -> Extent],
         \A p \in DOMAIN es : HeaderSize <= es[p].offset, ~Malformed(es)
  PROVE  /\ ListInv(ListAvailableChunks(es))
         /\ \A p \in DOMAIN es : /\ Unlisted(ListAvailableChunks(es), es[p])
                                 /\ EndOf(es[p]) <= ListAvailableChunks(es).end
<1>1. PICK L \in Nat : \A p \in DOMAIN es : EndOf(es[p]) <= L
  BY TableBound
<1> QED
  BY <1>1, ListAvailableChunksSafe

-----------------------------------------------------------------------------
(* Bytes.                                                                    *)

(* The cells that are left after k of an item. *)
LEMMA CellsAfterFacts ==
  ASSUME NEW item, item.size \in Nat, NEW k \in 0 .. item.size
  PROVE  /\ Len(CellsAfter(item, k)) = item.size - k
         /\ CellsAfter(item, k) = <<>> <=> k = item.size
         /\ k # item.size =>
              /\ Head(CellsAfter(item, k)) = <<item.kind, item.of, k + 1>>
              /\ Tail(CellsAfter(item, k)) = CellsAfter(item, k + 1)
<1> DEFINE n == item.size - k
           Cell == {<<item.kind, item.of, k + i>> : i \in 1 .. n}
           s == CellsAfter(item, k)
<1>1. n \in Nat
  OBVIOUS
<1>2. s = [i \in 1 .. n |-> <<item.kind, item.of, k + i>>]
  BY DEF CellsAfter
<1>3. s \in Seq(Cell)
  <2> DEFINE C == Cell
  <2>1. s \in [1 .. n -> C]
    BY <1>2
  <2> HIDE DEF C, s, n
  <2>2. s \in Seq(C)
    BY <1>1, <2>1
  <2> QED
    BY <2>2 DEF C
<1>4. Len(s) = n
  BY <1>1, <1>2, <1>3
<1>5. s = <<>> <=> k = item.size
  BY <1>3, <1>4, EmptySeq
<1>6. ASSUME k # item.size
      PROVE  Head(s) = <<item.kind, item.of, k + 1>> /\ Tail(s) = CellsAfter(item, k + 1)
  <2>1. n > 0 /\ Head(s) = s[1]
    BY <1>1, <1>6
  <2>2. Tail(s) = [i \in 1 .. n - 1 |-> s[i + 1]]
    <3> HIDE DEF Cell, n, s
    <3>1. s # <<>> /\ s \in Seq(Cell)
      BY <1>3, <1>5, <1>6
    <3>2. /\ Tail(s) \in Seq(Cell) /\ Len(Tail(s)) = n - 1
          /\ \A i \in 1 .. n - 1 : Tail(s)[i] = s[i + 1]
      BY <3>1, <1>4, HeadTailProperties
    <3> DEFINE t == Tail(s)
    <3>3. t = [i \in 1 .. Len(t) |-> t[i]]
      <4> HIDE DEF t
      <4>1. t \in Seq(Cell)
        BY <3>2 DEF t
      <4> QED
        BY <4>1
    <3> QED
      BY <3>2, <3>3
  <2>3. \A i \in 1 .. n - 1 : s[i + 1] = <<item.kind, item.of, (k + 1) + i>>
    BY <1>1, <1>2
  <2>4. n - 1 = item.size - (k + 1)
    BY <1>1
  <2>5. Head(s) = <<item.kind, item.of, k + 1>>
    BY <1>1, <1>2, <2>1
  <2>6. Tail(s) = [i \in 1 .. n - 1 |-> <<item.kind, item.of, (k + 1) + i>>]
    BY <2>2, <2>3
  <2> QED
    BY <2>4, <2>5, <2>6 DEF CellsAfter
<1> QED
  BY <1>4, <1>5, <1>6

-----------------------------------------------------------------------------
(* The patch and what is left of it.                                         *)
Types ==
  /\ patch \in Patches /\ before \in Archives
  /\ pc \in {"closed", "patching", "content", "dropping", "table"}

LEMMA PatchFacts ==
  ASSUME Types
  PROVE  /\ patch = [removed |-> patch.removed, imports |-> patch.imports]
         /\ patch.removed \subseteq Path
         /\ patch.imports \in Seq(Path \X (Nat \ {0}))
         /\ Len(patch.imports) \in Nat /\ DOMAIN patch.imports = 1 .. Len(patch.imports)
         /\ \A i \in DOMAIN patch.imports :
              /\ patch.imports[i][1] \in Path \ patch.removed
              /\ patch.imports[i][2] \in Nat \ {0}
         /\ \A i, j \in DOMAIN patch.imports :
              patch.imports[i][1] = patch.imports[j][1] => i = j
<1> DEFINE S == (Path \ patch.removed) \X (Nat \ {0})
           T == Path \X (Nat \ {0})
<1>1. /\ patch = [removed |-> patch.removed, imports |-> patch.imports]
      /\ patch.removed \subseteq Path
      /\ patch.imports \in Seq(S)
      /\ \A i, j \in DOMAIN patch.imports :
           patch.imports[i][1] = patch.imports[j][1] => i = j
  BY PatchesAssumption DEF Types
<1>2. S \subseteq T /\ \A x \in S : x[1] \in Path \ patch.removed /\ x[2] \in Nat \ {0}
  OBVIOUS
<1> HIDE DEF S, T
<1>3. patch.imports \in Seq(T)
  BY <1>1, <1>2
<1>4. /\ Len(patch.imports) \in Nat /\ DOMAIN patch.imports = 1 .. Len(patch.imports)
      /\ \A i \in DOMAIN patch.imports : patch.imports[i] \in S
  BY <1>1
<1> QED
  BY <1>1, <1>2, <1>3, <1>4 DEF T

(* The next import is a path of the patch that was not imported yet. *)
LEMMA NextImport ==
  ASSUME Types, RestOfPatch, todo.imports # <<>>
  PROVE  /\ Done + 1 \in DOMAIN patch.imports /\ Next1 = patch.imports[Done + 1]
         /\ Next1[1] \in Path \ patch.removed /\ Next1[2] \in Nat \ {0}
         /\ Next1[1] \in ImportedPaths /\ Next1[1] \in Touched /\ Next1[1] \notin Seen
<1> DEFINE s == todo.imports
           T == Path \X (Nat \ {0})
<1>1. s \in Seq(T) /\ s # <<>>
  BY DEF RestOfPatch
<1> HIDE DEF T
<1>2. Len(s) \in Nat \ {0} /\ DOMAIN s = 1 .. Len(s) /\ Head(s) = s[1]
  <2> HIDE DEF s
  <2> QED
    BY <1>1
<1>3. Len(patch.imports) \in Nat /\ DOMAIN patch.imports = 1 .. Len(patch.imports)
  BY PatchFacts
<1>4. 1 \in DOMAIN s
  BY <1>2
<1>5. Done \in Nat /\ Done = Len(patch.imports) - Len(s) /\ s[1] = patch.imports[Done + 1]
  BY <1>4 DEF RestOfPatch, Done
<1>6. Done + 1 \in DOMAIN patch.imports
  <2>1. Done + 1 \in 1 .. Len(patch.imports)
    <3> DEFINE m == Len(s)
               n == Len(patch.imports)
    <3>1. m \in Nat \ {0} /\ n \in Nat /\ Done \in Nat /\ Done = n - m
      BY <1>2, <1>3, <1>5
    <3> HIDE DEF m, n
    <3>2. Done + 1 \in 1 .. n
      BY <3>1
    <3> QED
      BY <3>2 DEF n
  <2> QED
    BY <1>3, <2>1
<1>7. Next1 = patch.imports[Done + 1]
  BY <1>2, <1>5 DEF Next1
<1> QED
  BY <1>6, <1>7, PatchFacts DEF ImportedPaths, Touched, Seen, Untouched

LEMMA UntouchedFacts ==
  ASSUME Types
  PROVE  \A p \in Seen : before[p] \in Extent /\ HeaderSize <= before[p].offset
BY ArchivesAssumption DEF Types, Seen, Untouched

(* The patch and the first table do not change; more files may be hidden. *)
LEMMA SeenShrinks ==
  ASSUME UNCHANGED <<patch, before>>, hidden \subseteq hidden'
  PROVE  Seen' \subseteq Seen /\ \A es : Kept(es) => Kept(es)'
<1>1. Touched' = Touched /\ Untouched' = Untouched
  BY DEF Touched, ImportedPaths, Untouched
<1>2. Seen' \subseteq Seen
  BY <1>1 DEF Seen
<1>3. \A es : Kept(es) => Kept(es)'
  BY <1>1, <1>2 DEF Kept
<1> QED
  BY <1>2, <1>3

LEMMA FrameKept ==
  ASSUME UNCHANGED <<patch, before, hidden>>
  PROVE  Seen' = Seen /\ \A es : Kept(es)' <=> Kept(es)
<1>1. Touched' = Touched /\ Seen' = Seen
  BY DEF Touched, ImportedPaths, Untouched, Seen
<1>2. \A es : Kept(es)' <=> Kept(es)
  BY <1>1 DEF Kept
<1> QED
  BY <1>1, <1>2

(* Nothing on disk changes. *)
LEMMA QuietDisk ==
  ASSUME InPlaceInv, UNCHANGED <<patch, before, disk>>, hidden \subseteq hidden'
  PROVE  TablesKept' /\ UntouchedOnDisk'
<1>1. TablesKept'
  BY SeenShrinks DEF InPlaceInv, TablesKept
<1>2. \A p \in Seen : Content(disk, before[p]) = Cells("old", p, before[p].size)
  BY DEF InPlaceInv, UntouchedOnDisk
<1>3. Seen' \subseteq Seen
  BY SeenShrinks
<1>4. \A p : Content(disk, before[p])' = Content(disk, before[p])
  BY DEF Content, Read, At
<1>5. UntouchedOnDisk'
  BY <1>2, <1>3, <1>4 DEF UntouchedOnDisk
<1> QED
  BY <1>1, <1>5

-----------------------------------------------------------------------------
(* Opening.                                                                  *)

(* An archive is opened with what the header shows of a table of its disk. *)
LEMMA OpenedTable ==
  ASSUME Types, InPlaceInv, Open
  PROVE  /\ Kept(entries)' /\ ~Malformed(entries')
         /\ list' = ListAvailableChunks(entries')
         /\ header.hides = {} => entries' = WholeTable(disk, header) /\ hidden' = hidden
<1> DEFINE T == WholeTable(disk, header)
           S == DOMAIN T \ header.hides
<1>1. /\ UNCHANGED <<patch, before>>
      /\ hidden' = hidden \cup header.hides /\ entries' = [p \in S |-> T[p]]
      /\ list' = ListAvailableChunks(entries')
      /\ ~Malformed(entries')
  BY DEF Open, Openable, TableAt
<1>2. At(disk, header.at)[1] = "table"
  BY DEF Open, Openable, Readable
<1>3. header.at \in DOMAIN disk /\ T = disk[header.at][2]
  BY <1>2 DEF At, Blank, WholeTable
<1>4. Kept(T)
  BY <1>2, <1>3 DEF InPlaceInv, TablesKept, At
<1>5. Kept(entries)'
  <2>1. /\ Seen' \subseteq Seen /\ Seen' \cap header.hides = {}
        /\ Touched' = Touched /\ before' = before
    BY <1>1, SeenShrinks DEF Seen, Touched, ImportedPaths
  <2>2. Seen' \subseteq S
    BY <1>4, <2>1 DEF Kept
  <2>3. IsFiniteSet(S)
    BY <1>4, FS_Subset DEF Kept
  <2>4. S \subseteq DOMAIN T
    OBVIOUS
  <2> HIDE DEF T, S
  <2>5. DOMAIN entries' = S /\ \A p \in S : entries'[p] = T[p]
    BY <1>1
  <2>6. entries' \in [S -> Extent] /\ \A p \in S : HeaderSize <= entries'[p].offset
    BY <1>1, <1>4, <2>4, <2>5 DEF Kept
  <2>7. \A p \in Seen' : /\ entries'[p] = before'[p]
                         /\ \A q \in S \ {p} : Disjoint(entries'[p], entries'[q])
    BY <1>4, <2>1, <2>2, <2>4, <2>5 DEF Kept
  <2>8. S \subseteq DOMAIN before' \cup Touched'
    BY <1>4, <2>1, <2>4 DEF Kept
  <2> QED
    BY <2>2, <2>3, <2>5, <2>6, <2>7, <2>8 DEF Kept
<1>6. ASSUME header.hides = {} PROVE entries' = T /\ hidden' = hidden
  <2>1. T = [p \in DOMAIN T |-> T[p]]
    BY <1>4 DEF Kept
  <2>2. S = DOMAIN T
    BY <1>6
  <2> HIDE DEF T, S
  <2> QED
    BY <1>1, <1>6, <2>1, <2>2
<1> QED
  BY <1>1, <1>5, <1>6

LEMMA OpenKeeps ==
  ASSUME Types, InPlaceInv, Open
  PROVE  TablesKept' /\ UntouchedOnDisk' /\ BuilderKeeps' /\ RestOfPatch'
<1> DEFINE es == entries'
           cl == list'
<1>1. Kept(entries)' /\ ~Malformed(es) /\ cl = ListAvailableChunks(es)
  BY OpenedTable
<1>2. UNCHANGED <<patch, before, disk>> /\ hidden \subseteq hidden' /\ todo' = patch /\ pc' = "patching"
  BY DEF Open
<1>3. /\ ListInv(cl)
      /\ \A p \in DOMAIN es : Unlisted(cl, es[p]) /\ EndOf(es[p]) <= cl.end
  BY <1>1, OpenedList DEF Kept
<1>4. Roomy(cl) /\ \A p \in DOMAIN es : Clear(cl, es[p])
  BY <1>3, ExactIsClear
<1>5. BuilderKeeps'
  <2>1. \A p \in Seen' : p \in DOMAIN es /\ es[p] = before'[p]
    BY <1>1 DEF Kept
  <2> QED
    BY <1>1, <1>4, <2>1 DEF BuilderKeeps
<1>6. RestOfPatch'
  <2>1. Done' = 0
    BY <1>2, PatchFacts DEF Done
  <2>2. /\ todo' = [removed |-> todo'.removed, imports |-> todo'.imports]
        /\ todo'.removed = patch'.removed
        /\ todo'.imports \in Seq(Path \X (Nat \ {0}))
    BY <1>2, PatchFacts
  <2>3. \A i \in DOMAIN todo'.imports : todo'.imports[i] = patch'.imports[0 + i]
    BY <1>2, PatchFacts
  <2> QED
    BY <1>2, <2>1, <2>2, <2>3 DEF RestOfPatch
<1> QED
  BY <1>1, <1>2, <1>5, <1>6, QuietDisk

-----------------------------------------------------------------------------
(* Removals and placements.                                                  *)
LEMMA RemoveKeeps ==
  ASSUME Types, InPlaceInv, NEW p \in Path, Remove(p)
  PROVE  TablesKept' /\ UntouchedOnDisk' /\ BuilderKeeps' /\ RestOfPatch'
<1>1. /\ UNCHANGED <<patch, before, hidden, disk>> /\ pc = "patching" /\ pc' = "patching"
      /\ todo' = [todo EXCEPT !.removed = @ \ {p}] /\ p \in todo.removed
  BY DEF Remove
<1>2. BuilderKeeps /\ RestOfPatch
  BY <1>1 DEF InPlaceInv
<1>3. /\ todo'.removed = todo.removed \ {p} /\ todo'.imports = todo.imports
      /\ todo' = [removed |-> todo'.removed, imports |-> todo'.imports]
  BY <1>1, <1>2 DEF RestOfPatch
<1>4. DOMAIN entries' \subseteq DOMAIN entries \ {p}
  BY DEF Remove
<1>5. RestOfPatch'
  <2>1. Done' = Done
    BY <1>1, <1>3 DEF Done
  <2> QED
    BY <1>1, <1>2, <1>3, <1>4, <2>1 DEF RestOfPatch
<1>6. Seen' = Seen /\ p \notin Seen
  BY <1>1, <1>2, FrameKept DEF RestOfPatch, Seen, Untouched, Touched
<1>7. BuilderKeeps'
  <2>1. CASE p \notin DOMAIN entries
    <3>1. UNCHANGED <<entries, list>>
      BY <2>1 DEF Remove
    <3> QED
      BY <1>1, <1>2, <1>6, <3>1, FrameKept DEF BuilderKeeps
  <2>2. CASE p \in DOMAIN entries
    <3> DEFINE x == entries[p]
    <3>1. /\ entries' = [q \in DOMAIN entries \ {p} |-> entries[q]]
          /\ list' = FreeChunk(list, x.offset, x.size)
      BY <2>2 DEF Remove
    <3>2. /\ x \in Extent /\ HeaderSize <= x.offset
          /\ \A q \in Seen : before[q] \in Extent /\ Disjoint(x, before[q])
                                  /\ Clear(list, before[q])
      BY <1>2, <1>6, <2>2, UntouchedFacts DEF BuilderKeeps, Kept, Disjoint
    <3>3. Roomy(list') /\ \A q \in Seen : Clear(list', before[q])
      BY <1>2, <3>1, <3>2, FreeChunkClear DEF BuilderKeeps
    <3>4. Kept(entries')
      <4>1. IsFiniteSet(DOMAIN entries \ {p})
        BY <1>2, FS_RemoveElement DEF BuilderKeeps, Kept
      <4> QED
        BY <1>2, <1>6, <3>1, <4>1 DEF BuilderKeeps, Kept
    <3>5. Kept(entries)'
      BY <1>1, <3>4, FrameKept
    <3> QED
      BY <1>1, <1>6, <3>3, <3>5 DEF BuilderKeeps
  <2> QED
    BY <2>1, <2>2
<1> QED
  BY <1>1, <1>5, <1>7, QuietDisk

(* The place of an import is clear of the files the patch does not name. *)
LEMMA PlacementClear ==
  ASSUME Types, BuilderKeeps, RestOfPatch, todo.imports # <<>>
  PROVE  /\ LooseRoom(Placement)
         /\ \A p \in Seen : ClearOf(before[p], Next1[2], Placement)
<1>1. /\ Next1[1] \notin Seen /\ Next1[2] \in Nat \ {0}
      /\ Roomy(list)
      /\ \A p \in Seen : before[p] \in Extent /\ Clear(list, before[p])
  BY NextImport, UntouchedFacts DEF BuilderKeeps
<1>2. CASE Next1[1] \in DOMAIN entries
  <2> DEFINE x == entries[Next1[1]]
  <2>1. Placement = ReallocChunk(list, x.offset, x.size, Next1[2])
    BY <1>2 DEF Placement, PlaceEntry
  <2>2. x \in Extent /\ HeaderSize <= x.offset /\ \A p \in Seen : Disjoint(x, before[p])
    BY <1>1, <1>2 DEF BuilderKeeps, Kept, Disjoint
  <2> HIDE DEF x
  <2> QED
    BY <1>1, <2>1, <2>2, ReallocChunkClear
<1>3. CASE Next1[1] \notin DOMAIN entries
  <2>1. Placement = AllocChunk(list, Next1[2])
    BY <1>3 DEF Placement, PlaceEntry
  <2> QED
    BY <1>1, <2>1, AllocChunkClear
<1> QED
  BY <1>2, <1>3

LEMMA WrittenFromStart ==
  ASSUME NEW item, item.size \in Nat
  PROVE  /\ CellsAfter(item, 0) = Cells(item.kind, item.of, item.size)
         /\ Len(CellsAfter(item, 0)) = item.size
<1>1. CellsAfter(item, 0) = Cells(item.kind, item.of, item.size)
  BY DEF CellsAfter, Cells
<1>2. Len(CellsAfter(item, 0)) = item.size - 0
  BY CellsAfterFacts
<1> QED
  BY <1>1, <1>2

LEMMA StartImportKeeps ==
  ASSUME Types, InPlaceInv, StartImport
  PROVE  TablesKept' /\ UntouchedOnDisk' /\ BuilderKeeps' /\ RestOfPatch' /\ Writing'
<1> DEFINE it == [kind |-> "new", of |-> Next1[1], size |-> Next1[2]]
           o  == Placement.offset
<1>1. /\ UNCHANGED <<patch, before, hidden, disk, entries, todo, result>>
      /\ pc = "patching" /\ pc' = "content" /\ todo.imports # <<>>
      /\ list' = Placement.list /\ Placement.ok
      /\ write' = [at |-> o, cells |-> Cells("new", Next1[1], Next1[2])]
  BY DEF StartImport, Importing
<1>2. BuilderKeeps /\ RestOfPatch
  BY <1>1 DEF InPlaceInv
<1>3. /\ LooseRoom(Placement)
      /\ \A p \in Seen : ClearOf(before[p], Next1[2], Placement)
      /\ Next1[2] \in Nat \ {0}
  BY <1>1, <1>2, PlacementClear, NextImport
<1>4. Seen' = Seen /\ Kept(entries)'
  BY <1>1, <1>2, FrameKept DEF BuilderKeeps
<1>5. BuilderKeeps'
  BY <1>1, <1>3, <1>4 DEF BuilderKeeps, LooseRoom, ClearOf
<1>6. RestOfPatch'
  <2>1. Done' = Done
    BY <1>1 DEF Done
  <2> QED
    BY <1>1, <1>2, <2>1 DEF RestOfPatch
<1>7. Writing'
  <2>1. it.size \in Nat /\ it.kind = "new" /\ it.of = Next1[1] /\ it.size = Next1[2]
    BY <1>3
  <2>2. Item' = it
    BY <1>1 DEF Item, Next1
  <2>3. write'.cells = CellsAfter(it, 0) /\ Len(write'.cells) = it.size
    BY <1>1, <2>1, WrittenFromStart
  <2>4. o \in Nat /\ HeaderSize <= o
    BY <1>3 DEF LooseRoom
  <2>5. Target' = [offset |-> o, size |-> it.size]
    <3>1. Target' = [offset |-> write'.at + Len(write'.cells) - it.size, size |-> it.size]
      BY <2>2 DEF Target
    <3> QED
      BY <1>1, <2>1, <2>3, <2>4, <3>1
  <2>6. \A p \in Seen : Disjoint([offset |-> o, size |-> it.size], before[p])
    BY <1>1, <1>3 DEF ClearOf
  <2>7. write' = [at |-> o + 0, cells |-> CellsAfter(it, 0)]
    BY <1>1, <2>3, <2>4
  <2> HIDE DEF it, o
  <2>8. 0 \in 0 .. it.size
    BY <2>1
  <2>9. \E k \in 0 .. it.size :
          /\ write' = [at |-> o + k, cells |-> CellsAfter(it, k)]
          /\ \A i \in 1 .. k : At(disk', o + i - 1) = <<it.kind, it.of, i>>
    BY <2>7, <2>8
  <2>10. [offset |-> o, size |-> it.size] \in Extent
    BY <1>3, <2>1, <2>4 DEF Extent
  <2> QED
    BY <1>1, <1>4, <2>2, <2>4, <2>5, <2>6, <2>9, <2>10 DEF Writing
<1> QED
  BY <1>1, <1>5, <1>6, <1>7, QuietDisk

LEMMA ImportFailsKeeps ==
  ASSUME Types, InPlaceInv, ImportFails
  PROVE  TablesKept' /\ UntouchedOnDisk' /\ BuilderKeeps' /\ RestOfPatch'
<1>1. /\ UNCHANGED <<patch, before, hidden, disk, entries, todo>>
      /\ pc = "patching" /\ pc' = "dropping" /\ result' = "error" /\ todo.imports # <<>>
      /\ list' \in {list, Placement.list}
  BY DEF ImportFails, Importing
<1>2. BuilderKeeps /\ RestOfPatch
  BY <1>1 DEF InPlaceInv
<1>3. Seen' = Seen /\ Kept(entries)'
  BY <1>1, <1>2, FrameKept DEF BuilderKeeps
<1>4. BuilderKeeps'
  <2>1. CASE list' = list
    BY <1>1, <1>2, <1>3, <2>1 DEF BuilderKeeps
  <2>2. CASE list' = Placement.list
    BY <1>1, <1>2, <1>3, <2>2, PlacementClear DEF BuilderKeeps, LooseRoom, ClearOf
  <2> QED
    BY <1>1, <2>1, <2>2
<1>5. RestOfPatch'
  <2>1. Done' = Done
    BY <1>1 DEF Done
  <2> QED
    BY <1>1, <1>2, <2>1 DEF RestOfPatch
<1> QED
  BY <1>1, <1>4, <1>5, QuietDisk

(* What is being written is of a positive size. *)
LEMMA ItemFacts ==
  ASSUME Types, InPlaceInv, pc \in {"content", "table"}
  PROVE  /\ Item.size \in Nat \ {0} /\ Item = [kind |-> Item.kind, of |-> Item.of, size |-> Item.size]
         /\ Target.offset \in Nat /\ Target.size = Item.size /\ Target \in Extent
         /\ Len(write.cells) \in Nat
<1>1. Item.size \in Nat \ {0} /\ Item = [kind |-> Item.kind, of |-> Item.of, size |-> Item.size]
  <2>1. CASE pc = "content"
    BY <2>1, NextImport DEF InPlaceInv, RestOfPatch, Item
  <2>2. CASE pc = "table"
    BY <2>2, InPlaceAssumption DEF Item
  <2> QED
    BY <2>1, <2>2
<1>2. PICK k \in 0 .. Item.size :
        write = [at |-> Target.offset + k, cells |-> CellsAfter(Item, k)]
  BY DEF InPlaceInv, Writing
<1>3. Target \in Extent
  BY DEF InPlaceInv, Writing
<1>4. Len(write.cells) = Item.size - k
  BY <1>1, <1>2, CellsAfterFacts
<1> QED
  BY <1>1, <1>2, <1>3, <1>4 DEF Target, Extent

-----------------------------------------------------------------------------
(* Writing.                                                                  *)

(* A step of writing: the next cell of the item goes to the next byte of its *)
(* place.                                                                    *)
LEMMA WriteByteFacts ==
  ASSUME Types, InPlaceInv, WriteByte
  PROVE  \E k \in 0 .. Item.size - 1 :
           /\ write.at = Target.offset + k
           /\ write' = [at |-> Target.offset + (k + 1), cells |-> CellsAfter(Item, k + 1)]
           /\ Item' = Item /\ Target' = Target
           /\ DOMAIN disk' = DOMAIN disk \cup {write.at}
           /\ disk'[write.at] = <<Item.kind, Item.of, k + 1>>
           /\ \A o : o # write.at => At(disk', o) = At(disk, o)
           /\ \A o \in DOMAIN disk : o # write.at => disk'[o] = disk[o]
           /\ \A i \in 1 .. k + 1 : At(disk', Target.offset + i - 1) = <<Item.kind, Item.of, i>>
<1>1. /\ UNCHANGED <<entries, todo, pc>> /\ pc \in {"content", "table"}
      /\ write.cells # <<>>
      /\ disk' = [o \in DOMAIN disk \cup {write.at} |->
                    IF o = write.at THEN Head(write.cells) ELSE disk[o]]
      /\ write' = [at |-> write.at + 1, cells |-> Tail(write.cells)]
  BY DEF WriteByte
<1>2. /\ Item.size \in Nat \ {0} /\ Target.offset \in Nat /\ Target.size = Item.size
      /\ Target = [offset |-> Target.offset, size |-> Item.size]
  BY <1>1, ItemFacts DEF Extent
<1>3. PICK k \in 0 .. Item.size :
        /\ write = [at |-> Target.offset + k, cells |-> CellsAfter(Item, k)]
        /\ \A i \in 1 .. k : At(disk, Target.offset + i - 1) = <<Item.kind, Item.of, i>>
  BY <1>1 DEF InPlaceInv, Writing
<1>4. /\ k # Item.size
      /\ Head(write.cells) = <<Item.kind, Item.of, k + 1>>
      /\ Tail(write.cells) = CellsAfter(Item, k + 1)
  BY <1>1, <1>2, <1>3, CellsAfterFacts
<1>5. k \in 0 .. Item.size - 1 /\ k + 1 \in 0 .. Item.size
  BY <1>2, <1>4
<1>6. Item' = Item
  BY <1>1 DEF Item, Next1
<1>7. /\ write' = [at |-> Target.offset + (k + 1), cells |-> CellsAfter(Item, k + 1)]
      /\ write.at = Target.offset + k
  <2>1. write.at = Target.offset + k
    BY <1>3
  <2>2. write.at + 1 = Target.offset + (k + 1)
    BY <1>2, <1>5, <2>1
  <2> QED
    BY <1>1, <1>4, <2>1, <2>2
<1>8. Target' = Target
  <2>1. Len(write'.cells) = Item.size - (k + 1)
    BY <1>2, <1>5, <1>7, CellsAfterFacts
  <2>2. Target' = [offset |-> write'.at + Len(write'.cells) - Item.size, size |-> Item.size]
    BY <1>6 DEF Target
  <2>3. write'.at + Len(write'.cells) - Item.size = Target.offset
    BY <1>2, <1>5, <1>7, <2>1
  <2> QED
    BY <1>2, <2>2, <2>3
<1>9. /\ DOMAIN disk' = DOMAIN disk \cup {write.at}
      /\ disk'[write.at] = <<Item.kind, Item.of, k + 1>>
      /\ \A o \in DOMAIN disk : o # write.at => disk'[o] = disk[o]
  BY <1>1, <1>4
<1>10. \A o : o # write.at => At(disk', o) = At(disk, o)
  BY <1>9 DEF At
<1>11. ASSUME NEW i \in 1 .. k + 1
       PROVE  At(disk', Target.offset + i - 1) = <<Item.kind, Item.of, i>>
  <2>1. CASE i = k + 1
    <3>1. Target.offset + i - 1 = write.at
      BY <1>2, <1>5, <1>7, <2>1
    <3> QED
      BY <1>9, <2>1, <3>1 DEF At
  <2>2. CASE i # k + 1
    <3>1. i \in 1 .. k /\ Target.offset + i - 1 # write.at
      BY <1>2, <1>5, <1>7, <2>2
    <3> QED
      BY <1>3, <1>10, <3>1
  <2> QED
    BY <2>1, <2>2
<1> QED
  BY <1>5, <1>6, <1>7, <1>8, <1>9, <1>10, <1>11

(* Bytes beside the one that is written. *)
LEMMA ContentStays ==
  ASSUME NEW x \in Extent, NEW y \in Extent, Disjoint(x, y), NEW k \in 0 .. x.size - 1,
         NEW d, NEW e, \A o : o # x.offset + k => At(e, o) = At(d, o)
  PROVE  Content(e, y) = Content(d, y)
<1>1. \A i \in 1 .. y.size : y.offset + i - 1 # x.offset + k
  BY DEF Extent, Disjoint, EndOf
<1> QED
  BY <1>1 DEF Content, Read

LEMMA WriteByteKeeps ==
  ASSUME Types, InPlaceInv, WriteByte
  PROVE  TablesKept' /\ UntouchedOnDisk' /\ BuilderKeeps' /\ RestOfPatch' /\ Writing'
<1>1. /\ UNCHANGED <<patch, before, hidden, entries, list, todo, pc, result>>
      /\ pc \in {"content", "table"}
  BY DEF WriteByte
<1>2. BuilderKeeps /\ RestOfPatch /\ TablesKept
  BY <1>1 DEF InPlaceInv
<1>3. /\ Seen' = Seen /\ (\A es : Kept(es)' <=> Kept(es))
      /\ Target \in Extent /\ Target.size = Item.size /\ Item.size \in Nat
  BY <1>1, FrameKept, ItemFacts
<1>4. BuilderKeeps'
  BY <1>1, <1>2, <1>3 DEF BuilderKeeps
<1>5. RestOfPatch'
  <2>1. Done' = Done
    BY <1>1 DEF Done
  <2> QED
    BY <1>1, <1>2, <2>1 DEF RestOfPatch
<1>6. PICK k \in 0 .. Item.size - 1 :
           /\ write.at = Target.offset + k
           /\ write' = [at |-> Target.offset + (k + 1), cells |-> CellsAfter(Item, k + 1)]
           /\ Item' = Item /\ Target' = Target
           /\ DOMAIN disk' = DOMAIN disk \cup {write.at}
           /\ disk'[write.at] = <<Item.kind, Item.of, k + 1>>
           /\ \A o : o # write.at => At(disk', o) = At(disk, o)
           /\ \A o \in DOMAIN disk : o # write.at => disk'[o] = disk[o]
           /\ \A i \in 1 .. k + 1 : At(disk', Target.offset + i - 1) = <<Item.kind, Item.of, i>>
  BY WriteByteFacts
<1>7. /\ HeaderSize <= Target.offset
      /\ \A p \in Seen : Disjoint(Target, before[p])
  BY <1>1 DEF InPlaceInv, Writing
<1>8. TablesKept'
  <2> SUFFICES ASSUME NEW o \in DOMAIN disk', disk'[o][1] = "table"
               PROVE  Kept(disk'[o][2])
    BY <1>3 DEF TablesKept
  <2>1. CASE o # write.at
    BY <1>2, <1>6, <2>1 DEF TablesKept
  <2>2. CASE o = write.at
    <3>1. Item.kind = "table" /\ disk'[o][2] = Item.of
      BY <1>6, <2>2
    <3>2. Item.of = entries
      BY <3>1 DEF Item
    <3> QED
      BY <1>2, <3>1, <3>2 DEF BuilderKeeps
  <2> QED
    BY <2>1, <2>2
<1>9. UntouchedOnDisk'
  <2>1. ASSUME NEW p \in Seen
        PROVE  Content(disk', before[p]) = Cells("old", p, before[p].size)
    <3>1. Content(disk, before[p]) = Cells("old", p, before[p].size)
      BY <1>1 DEF InPlaceInv, UntouchedOnDisk
    <3>2. before[p] \in Extent /\ Disjoint(Target, before[p])
      BY <1>7, UntouchedFacts
    <3>3. Content(disk', before[p]) = Content(disk, before[p])
      BY <1>3, <1>6, <3>2, ContentStays
    <3> QED
      BY <3>1, <3>3
  <2>2. \A p : Content(disk, before[p])' = Content(disk', before[p])
    BY <1>1 DEF Content, Read, At
  <2> QED
    BY <1>1, <1>3, <2>1, <2>2 DEF UntouchedOnDisk
<1>10. Writing'
  <2>1. k + 1 \in 0 .. Item.size
    BY <1>3, <1>6
  <2> QED
    BY <1>1, <1>3, <1>6, <1>7, <2>1 DEF Writing
<1> QED
  BY <1>4, <1>5, <1>8, <1>9, <1>10

(* When nothing is left to write, the whole item is at its place. *)
LEMMA Written ==
  ASSUME Types, InPlaceInv, pc \in {"content", "table"}, write.cells = <<>>
  PROVE  /\ write.at = Target.offset + Item.size
         /\ \A i \in 1 .. Item.size : At(disk, Target.offset + i - 1) = <<Item.kind, Item.of, i>>
<1>1. Item.size \in Nat \ {0}
  BY ItemFacts
<1>2. PICK k \in 0 .. Item.size :
        /\ write = [at |-> Target.offset + k, cells |-> CellsAfter(Item, k)]
        /\ \A i \in 1 .. k : At(disk, Target.offset + i - 1) = <<Item.kind, Item.of, i>>
  BY DEF InPlaceInv, Writing
<1>3. CellsAfter(Item, k) = <<>> /\ write.at = Target.offset + k
  BY <1>2
<1>4. k = Item.size
  BY <1>1, <1>3, CellsAfterFacts
<1> QED
  BY <1>2, <1>3, <1>4

LEMMA FinishImportFacts ==
  ASSUME Types, InPlaceInv, FinishImport
  PROVE  /\ Target = [offset |-> write.at - Next1[2], size |-> Next1[2]]
         /\ entries' = [q \in DOMAIN entries \cup {Next1[1]} |->
                          IF q = Next1[1] THEN Target ELSE entries[q]]
         /\ Done' = Done + 1 /\ Len(todo'.imports) = Len(todo.imports) - 1
         /\ todo' = [removed |-> todo.removed, imports |-> todo'.imports]
         /\ todo'.imports \in Seq(Path \X (Nat \ {0}))
         /\ DOMAIN todo'.imports = 1 .. Len(todo.imports) - 1
         /\ \A i \in DOMAIN todo'.imports : todo'.imports[i] = patch.imports[(Done + 1) + i]
         /\ Content(disk, Target) = Cells("new", Next1[1], Next1[2])
<1>1. /\ UNCHANGED patch /\ pc = "content" /\ write.cells = <<>>
      /\ entries' = [q \in DOMAIN entries \cup {Next1[1]} |->
                       IF q = Next1[1] THEN [offset |-> write.at - Next1[2], size |-> Next1[2]]
                       ELSE entries[q]]
      /\ todo' = [todo EXCEPT !.imports = Tail(@)]
  BY DEF FinishImport
<1>2. RestOfPatch /\ todo.imports # <<>>
  BY <1>1 DEF InPlaceInv, RestOfPatch
<1>3. /\ Item = [kind |-> "new", of |-> Next1[1], size |-> Next1[2]]
      /\ Item.size = Next1[2] /\ Item.kind = "new" /\ Item.of = Next1[1]
  BY <1>1 DEF Item
<1>4. /\ Target.offset \in Nat /\ Item.size \in Nat /\ Target \in Extent /\ Target.size = Item.size
  BY <1>1, ItemFacts
<1>5. /\ write.at = Target.offset + Item.size
      /\ \A i \in 1 .. Item.size : At(disk, Target.offset + i - 1) = <<Item.kind, Item.of, i>>
  BY <1>1, Written
<1>6. Target = [offset |-> write.at - Next1[2], size |-> Next1[2]]
  <2>1. write.at - Next1[2] = Target.offset
    BY <1>3, <1>4, <1>5
  <2> QED
    BY <1>3, <1>4, <2>1 DEF Extent
<1>7. Content(disk, Target) = Cells("new", Next1[1], Next1[2])
  BY <1>3, <1>4, <1>5 DEF Content, Read, Cells
<1> DEFINE s == todo.imports
           T == Path \X (Nat \ {0})
<1>8. /\ todo' = [removed |-> todo.removed, imports |-> todo'.imports]
      /\ todo'.imports = Tail(s)
  BY <1>1, <1>2 DEF RestOfPatch
<1>9. /\ s \in Seq(T) /\ s # <<>> /\ Done \in Nat /\ Done = Len(patch.imports) - Len(s)
      /\ Len(patch.imports) \in Nat
      /\ \A i \in DOMAIN s : s[i] = patch.imports[Done + i]
  BY <1>2, PatchFacts DEF RestOfPatch, Done
<1> HIDE DEF s, T
<1>10. /\ Tail(s) \in Seq(T) /\ Len(Tail(s)) = Len(s) - 1 /\ Len(s) \in Nat \ {0}
       /\ DOMAIN Tail(s) = 1 .. Len(s) - 1 /\ DOMAIN s = 1 .. Len(s)
       /\ \A i \in 1 .. Len(s) - 1 : Tail(s)[i] = s[i + 1]
  <2>1. /\ Tail(s) \in Seq(T) /\ Len(Tail(s)) = Len(s) - 1
        /\ \A i \in 1 .. Len(Tail(s)) : Tail(s)[i] = s[i + 1]
    BY <1>9, HeadTailProperties
  <2> DEFINE t == Tail(s)
  <2>2. DOMAIN t = 1 .. Len(t)
    <3> HIDE DEF t
    <3>1. t \in Seq(T)
      BY <2>1 DEF t
    <3> QED
      BY <3>1
  <2>3. Len(s) \in Nat \ {0} /\ DOMAIN s = 1 .. Len(s)
    BY <1>9, EmptySeq, LenProperties
  <2> QED
    BY <2>1, <2>2, <2>3
<1>11. ASSUME NEW i \in 1 .. Len(s) - 1 PROVE Tail(s)[i] = patch.imports[(Done + 1) + i]
  <2>1. i + 1 \in DOMAIN s /\ Done + (i + 1) = (Done + 1) + i
    <3>1. Len(s) \in Nat \ {0} /\ Done \in Nat /\ DOMAIN s = 1 .. Len(s)
      BY <1>9, <1>10
    <3> DEFINE m == Len(s)
    <3>2. m \in Nat \ {0} /\ i \in 1 .. m - 1
      BY <3>1
    <3> HIDE DEF m
    <3>3. i + 1 \in 1 .. m /\ Done + (i + 1) = (Done + 1) + i
      BY <3>1, <3>2
    <3> QED
      BY <3>1, <3>3 DEF m
  <2> QED
    BY <1>9, <1>10, <2>1
<1>12. Done' = Done + 1
  <2>1. Done' = Len(patch.imports) - Len(Tail(s))
    BY <1>1, <1>8 DEF Done
  <2> QED
    BY <1>9, <1>10, <2>1
<1> QED
  BY <1>1, <1>6, <1>7, <1>8, <1>10, <1>11, <1>12 DEF s, T

LEMMA FinishImportKeeps ==
  ASSUME Types, InPlaceInv, FinishImport
  PROVE  TablesKept' /\ UntouchedOnDisk' /\ BuilderKeeps' /\ RestOfPatch'
<1>1. /\ UNCHANGED <<patch, before, hidden, disk, list, result>> /\ pc = "content" /\ pc' = "patching"
  BY DEF FinishImport
<1>2. BuilderKeeps /\ RestOfPatch /\ todo.imports # <<>>
  BY <1>1 DEF InPlaceInv, RestOfPatch
<1>3. /\ Next1[1] \in Path \ patch.removed /\ Next1[1] \notin Seen /\ Next1[1] \in Touched
  BY <1>2, NextImport
<1>4. /\ Target \in Extent /\ HeaderSize <= Target.offset
      /\ \A p \in Seen : Disjoint(Target, before[p])
  BY <1>1 DEF InPlaceInv, Writing
<1>5. /\ DOMAIN entries' = DOMAIN entries \cup {Next1[1]}
      /\ entries'[Next1[1]] = Target
      /\ \A q \in DOMAIN entries \ {Next1[1]} : entries'[q] = entries[q]
      /\ entries' = [q \in DOMAIN entries' |-> entries'[q]]
  BY FinishImportFacts
<1>6. Kept(entries')
  <2>1. IsFiniteSet(DOMAIN entries')
    BY <1>2, <1>5, FS_AddElement DEF BuilderKeeps, Kept
  <2>2. /\ entries' \in [DOMAIN entries' -> Extent]
        /\ \A p \in DOMAIN entries' : HeaderSize <= entries'[p].offset
    BY <1>2, <1>4, <1>5 DEF BuilderKeeps, Kept
  <2>3. Seen \subseteq DOMAIN entries' /\ DOMAIN entries' \subseteq DOMAIN before \cup Touched
    BY <1>2, <1>3, <1>5 DEF BuilderKeeps, Kept
  <2>4. ASSUME NEW p \in Seen, NEW q \in DOMAIN entries', q # p
        PROVE  entries'[p] = before[p] /\ Disjoint(entries'[p], entries'[q])
    <3>1. entries'[p] = before[p] /\ entries[p] = before[p] /\ p \in DOMAIN entries
      BY <1>2, <1>3, <1>5 DEF BuilderKeeps, Kept
    <3>2. CASE q = Next1[1]
      BY <1>4, <1>5, <3>1, <3>2 DEF Disjoint
    <3>3. CASE q # Next1[1]
      BY <1>2, <1>5, <2>4, <3>1, <3>3 DEF BuilderKeeps, Kept
    <3> QED
      BY <3>1, <3>2, <3>3
  <2>5. \A p \in Seen : entries'[p] = before[p]
    BY <1>2, <1>3, <1>5 DEF BuilderKeeps, Kept
  <2> QED
    BY <2>1, <2>2, <2>3, <2>4, <2>5 DEF Kept
<1>7. Seen' = Seen /\ Kept(entries)'
  BY <1>1, <1>6, FrameKept
<1>8. BuilderKeeps'
  BY <1>1, <1>2, <1>7 DEF BuilderKeeps
<1>9. RestOfPatch'
  <2>1. todo'.removed = todo.removed /\ Done \in Nat
    BY <1>2, FinishImportFacts DEF RestOfPatch
  <2>2. DOMAIN entries' \cap patch.removed \subseteq todo.removed
    BY <1>2, <1>3, <1>5 DEF RestOfPatch
  <2>3. Done' = Done + 1
        /\ todo' = [removed |-> todo'.removed, imports |-> todo'.imports]
        /\ todo'.imports \in Seq(Path \X (Nat \ {0}))
        /\ \A i \in DOMAIN todo'.imports : todo'.imports[i] = patch.imports[(Done + 1) + i]
    BY <2>1, FinishImportFacts
  <2> QED
    BY <1>1, <1>2, <2>1, <2>2, <2>3 DEF RestOfPatch
<1> QED
  BY <1>1, <1>8, <1>9, QuietDisk

LEMMA StartTableKeeps ==
  ASSUME Types, InPlaceInv, StartTable
  PROVE  TablesKept' /\ UntouchedOnDisk' /\ BuilderKeeps' /\ RestOfPatch' /\ Writing'
<1> DEFINE r  == AllocChunk(list, TableSize)
           o  == r.offset
           it == [kind |-> "table", of |-> entries, size |-> TableSize]
<1>1. /\ UNCHANGED <<patch, before, hidden, disk, entries, todo, result>>
      /\ pc = "dropping" /\ pc' = "table"
      /\ list' = r.list /\ r.ok
      /\ write' = [at |-> o, cells |-> Cells("table", entries, TableSize)]
  BY DEF StartTable
<1>2. BuilderKeeps /\ RestOfPatch /\ TableSize \in Nat \ {0}
  BY <1>1, InPlaceAssumption DEF InPlaceInv
<1>3. /\ LooseRoom(r)
      /\ \A p \in Seen : ClearOf(before[p], TableSize, r)
  BY <1>2, AllocChunkClear, UntouchedFacts DEF BuilderKeeps
<1>4. Seen' = Seen /\ Kept(entries)'
  BY <1>1, <1>2, FrameKept DEF BuilderKeeps
<1> HIDE DEF r
<1>5. BuilderKeeps'
  BY <1>1, <1>3, <1>4 DEF BuilderKeeps, LooseRoom, ClearOf
<1>6. RestOfPatch'
  <2>1. Done' = Done
    BY <1>1 DEF Done
  <2> QED
    BY <1>1, <1>2, <2>1 DEF RestOfPatch
<1>7. Writing'
  <2>1. it.size \in Nat /\ it.kind = "table" /\ it.of = entries /\ it.size = TableSize
    BY <1>2
  <2>2. Item' = it
    BY <1>1 DEF Item
  <2>3. write'.cells = CellsAfter(it, 0) /\ Len(write'.cells) = it.size
    BY <1>1, <2>1, WrittenFromStart
  <2>4. o \in Nat /\ HeaderSize <= o
    BY <1>3 DEF LooseRoom
  <2>5. Target' = [offset |-> o, size |-> it.size]
    <3>1. Target' = [offset |-> write'.at + Len(write'.cells) - it.size, size |-> it.size]
      BY <2>2 DEF Target
    <3> QED
      BY <1>1, <2>1, <2>3, <2>4, <3>1
  <2>6. \A p \in Seen : Disjoint([offset |-> o, size |-> it.size], before[p])
    BY <1>1, <1>3 DEF ClearOf
  <2>7. write' = [at |-> o + 0, cells |-> CellsAfter(it, 0)]
    BY <1>1, <2>3, <2>4
  <2>8. [offset |-> o, size |-> it.size] \in Extent
    BY <1>2, <2>1, <2>4 DEF Extent
  <2> HIDE DEF it, o
  <2>9. 0 \in 0 .. it.size
    BY <2>1
  <2>10. \E k \in 0 .. it.size :
           /\ write' = [at |-> o + k, cells |-> CellsAfter(it, k)]
           /\ \A i \in 1 .. k : At(disk', o + i - 1) = <<it.kind, it.of, i>>
    BY <2>7, <2>9
  <2> QED
    BY <1>1, <1>4, <2>2, <2>4, <2>5, <2>6, <2>8, <2>10 DEF Writing
<1> QED
  BY <1>1, <1>5, <1>6, <1>7, QuietDisk

(* The write that fails and the end of the patch. *)
LEMMA DroppedKeeps ==
  ASSUME Types, InPlaceInv, WriteFails \/ AllApplied
  PROVE  TablesKept' /\ UntouchedOnDisk' /\ BuilderKeeps' /\ RestOfPatch'
<1>1. /\ UNCHANGED <<patch, before, hidden, disk, entries, list, todo>>
      /\ pc \in {"content", "patching"} /\ pc' = "dropping"
      /\ result' = "ok" => todo = NothingToDo
  BY DEF WriteFails, AllApplied, builderVars
<1>2. BuilderKeeps /\ RestOfPatch
  BY <1>1 DEF InPlaceInv
<1>3. Seen' = Seen /\ Kept(entries)'
  BY <1>1, <1>2, FrameKept DEF BuilderKeeps
<1>4. BuilderKeeps'
  BY <1>1, <1>2, <1>3 DEF BuilderKeeps
<1>5. RestOfPatch'
  <2>1. Done' = Done
    BY <1>1 DEF Done
  <2> QED
    BY <1>1, <1>2, <2>1 DEF RestOfPatch
<1> QED
  BY <1>1, <1>4, <1>5, QuietDisk

-----------------------------------------------------------------------------
(* The invariant of the files that the patch does not name.                  *)

(* The contents of the first archive. *)
LEMMA FirstContents ==
  ASSUME NEW es \in Archives, NEW h \in HeaderSize .. OffsetLimit,
         \A p \in DOMAIN es : Disjoint([offset |-> h, size |-> TableSize], es[p])
  PROVE  /\ \A o \in DOMAIN FirstDisk(es, h) :
              FirstDisk(es, h)[o][1] = "table" => FirstDisk(es, h)[o][2] = es
         /\ \A p \in DOMAIN es : Content(FirstDisk(es, h), es[p]) = Cells("old", p, es[p].size)
<1> DEFINE d == FirstDisk(es, h)
<1> USE HeaderSizeAssumption, InPlaceAssumption
<1>1. \A p \in DOMAIN es :
        /\ es[p].offset \in Nat /\ es[p].size \in Nat \ {0}
        /\ HeaderSize <= es[p].offset /\ es[p].offset + es[p].size <= OffsetLimit
        /\ h + TableSize <= es[p].offset \/ es[p].offset + es[p].size <= h
  BY ArchivesAssumption DEF Extent, EndOf, Disjoint
<1>2. \A p, q \in DOMAIN es : p # q =>
        es[p].offset + es[p].size <= es[q].offset \/ es[q].offset + es[q].size <= es[p].offset
  BY ArchivesAssumption DEF Malformed, Disjoint, EndOf
<1>3. DOMAIN d = HeaderSize .. OffsetLimit + TableSize
  BY DEF FirstDisk
<1>4. ASSUME NEW o \in DOMAIN d, d[o][1] = "table" PROVE d[o][2] = es
  <2>1. h <= o /\ o < h + TableSize
    <3> SUFFICES ASSUME ~(h <= o /\ o < h + TableSize) PROVE FALSE
      OBVIOUS
    <3>1. CASE \E p \in DOMAIN es : Holds(es[p], o)
      BY <1>3, <1>4, <3>1 DEF FirstDisk
    <3>2. CASE ~ \E p \in DOMAIN es : Holds(es[p], o)
      BY <1>3, <1>4, <3>2 DEF FirstDisk, Blank
    <3> QED
      BY <3>1, <3>2
  <2> QED
    BY <1>3, <2>1 DEF FirstDisk
<1>5. ASSUME NEW p \in DOMAIN es, NEW i \in 1 .. es[p].size
      PROVE  At(d, es[p].offset + i - 1) = <<"old", p, i>>
  <2> DEFINE o == es[p].offset + i - 1
  <2>1. /\ o \in HeaderSize .. OffsetLimit + TableSize
        /\ ~(h <= o /\ o < h + TableSize)
        /\ Holds(es[p], o)
        /\ o - es[p].offset + 1 = i
    BY <1>1 DEF Holds, EndOf
  <2>2. \A q \in DOMAIN es : Holds(es[q], o) => q = p
    BY <1>1, <1>2, <2>1 DEF Holds, EndOf
  <2> HIDE DEF o
  <2>3. (CHOOSE q \in DOMAIN es : Holds(es[q], o)) = p
    BY <2>1, <2>2
  <2>4. d[o] = <<"old", p, o - es[p].offset + 1>>
    BY <2>1, <2>3 DEF FirstDisk
  <2> QED
    BY <1>3, <2>1, <2>4 DEF At, o
<1>6. \A p \in DOMAIN es : Content(d, es[p]) = Cells("old", p, es[p].size)
  BY <1>5 DEF Content, Read, Cells
<1> QED
  BY <1>4, <1>6

(* Where the first table is. *)
LEMMA FirstHeader ==
  ASSUME Init
  PROVE  /\ header.at \in HeaderSize .. OffsetLimit /\ header = Header(header.at, entries)
         /\ \A p \in DOMAIN entries :
              Disjoint([offset |-> header.at, size |-> TableSize], entries[p])
<1>1. PICK h \in {h \in HeaderSize .. OffsetLimit :
                   \A p \in DOMAIN entries :
                     Disjoint([offset |-> h, size |-> TableSize], entries[p])} :
             header = Header(h, entries)
  BY DEF Init
<1>2. header.at = h
  BY <1>1 DEF Header
<1> QED
  BY <1>1, <1>2

LEMMA InitKeeps == Init => Types /\ InPlaceInv
<1> SUFFICES ASSUME Init PROVE Types /\ InPlaceInv
  OBVIOUS
<1>1. /\ entries \in Archives /\ before = entries /\ disk = FirstDisk(entries, header.at)
      /\ patch \in Patches /\ pc = "closed" /\ hidden = {}
  BY DEF Init
<1>2. /\ header.at \in HeaderSize .. OffsetLimit
      /\ \A p \in DOMAIN entries : Disjoint([offset |-> header.at, size |-> TableSize], entries[p])
  BY FirstHeader
<1>3. /\ \A o \in DOMAIN disk : disk[o][1] = "table" => disk[o][2] = entries
      /\ \A p \in DOMAIN entries : Content(disk, entries[p]) = Cells("old", p, entries[p].size)
  BY <1>1, <1>2, FirstContents
<1>4. Kept(entries)
  BY <1>1, ArchivesAssumption DEF Kept, Seen, Untouched, Malformed
<1>5. TablesKept /\ UntouchedOnDisk
  BY <1>1, <1>3, <1>4 DEF TablesKept, UntouchedOnDisk, Seen, Untouched
<1> QED
  BY <1>1, <1>5 DEF Types, InPlaceInv

LEMMA NextKeeps == Types /\ InPlaceInv /\ [Next]_vars => Types' /\ InPlaceInv'
<1> SUFFICES ASSUME Types, InPlaceInv, [Next]_vars PROVE Types' /\ InPlaceInv'
  OBVIOUS
<1> USE DEF builderVars
<1>1. CASE Open
  <2>1. Types' /\ pc' = "patching"
    BY <1>1 DEF Open, Types
  <2> QED
    BY <1>1, <2>1, OpenKeeps DEF InPlaceInv
<1>2. ASSUME NEW p \in Path, Remove(p) PROVE Types' /\ InPlaceInv'
  <2>1. Types' /\ pc' = "patching" /\ hidden' = hidden
    BY <1>2 DEF Remove, Types
  <2> QED
    BY <1>2, <2>1, RemoveKeeps DEF InPlaceInv
<1>3. CASE StartImport
  <2>1. Types' /\ pc' = "content" /\ hidden' = hidden
    BY <1>3 DEF StartImport, Types
  <2> QED
    BY <1>3, <2>1, StartImportKeeps DEF InPlaceInv
<1>4. CASE ImportFails
  <2>1. Types' /\ pc' = "dropping" /\ hidden' = hidden
    BY <1>4 DEF ImportFails, Types
  <2> QED
    BY <1>4, <2>1, ImportFailsKeeps DEF InPlaceInv
<1>5. CASE WriteByte
  <2>1. Types' /\ hidden' = hidden
    BY <1>5 DEF WriteByte, Types
  <2> QED
    BY <1>5, <2>1, WriteByteKeeps DEF InPlaceInv
<1>6. CASE FinishImport
  <2>1. Types' /\ pc' = "patching" /\ hidden' = hidden
    BY <1>6 DEF FinishImport, Types
  <2> QED
    BY <1>6, <2>1, FinishImportKeeps DEF InPlaceInv
<1>7. CASE WriteFails \/ AllApplied
  <2>1. Types' /\ pc' = "dropping" /\ hidden' = hidden
    BY <1>7 DEF WriteFails, AllApplied, Types
  <2> QED
    BY <1>7, <2>1, DroppedKeeps DEF InPlaceInv
<1>8. CASE StartTable
  <2>1. Types' /\ pc' = "table" /\ hidden' = hidden
    BY <1>8 DEF StartTable, Types
  <2> QED
    BY <1>8, <2>1, StartTableKeeps DEF InPlaceInv
<1>9. CASE OpenFails \/ WriteHeader \/ FinishFails \/ Crash
  <2>1. Types' /\ pc' = "closed" /\ UNCHANGED <<patch, before, hidden, disk>>
    BY <1>9 DEF OpenFails, Attempt, WriteHeader, FinishFails, Crash, Close, Types
  <2> QED
    BY <2>1, QuietDisk DEF InPlaceInv
<1>10. CASE UNCHANGED vars
  <2>1. UNCHANGED <<patch, before, hidden, disk, entries, list, todo, write, pc, result>>
    BY <1>10 DEF vars
  <2>2. Types'
    BY <2>1 DEF Types
  <2>3. Seen' = Seen /\ \A es : Kept(es)' <=> Kept(es)
    BY <2>1, FrameKept
  <2>4. Done' = Done /\ Item' = Item /\ Target' = Target
    BY <2>1 DEF Done, Item, Next1, Target
  <2>5. BuilderKeeps <=> BuilderKeeps'
    BY <2>1, <2>3 DEF BuilderKeeps
  <2>6. RestOfPatch <=> RestOfPatch'
    BY <2>1, <2>4 DEF RestOfPatch
  <2>7. Writing <=> Writing'
    BY <2>1, <2>3, <2>4 DEF Writing
  <2> QED
    BY <2>1, <2>2, <2>5, <2>6, <2>7, QuietDisk DEF InPlaceInv
<1> QED
  BY <1>1, <1>2, <1>3, <1>4, <1>5, <1>6, <1>7, <1>8, <1>9, <1>10 DEF Next

(* The inductive invariant, whatever is removed and whatever fails. *)
THEOREM InPlaceInvariant == Spec => [](Types /\ InPlaceInv)
BY InitKeeps, NextKeeps, PTL DEF Spec

(* No attempt, whatever fails and however often it is tried, writes over a   *)
(* file that the patch does not name, but for those that a torn header hid   *)
(* from an attempt that opened the archive.                                  *)
THEOREM UntouchedAlwaysOnDisk == Spec => []UntouchedOnDisk
<1>1. InPlaceInv => UntouchedOnDisk
  BY DEF InPlaceInv, UntouchedOnDisk
<1> QED
  BY <1>1, InPlaceInvariant, PTL

(* With nothing hidden, that is every file the patch does not name. *)
OldContentsOnDisk ==
  \A p \in Untouched : Content(disk, before[p]) = Cells("old", p, before[p].size)

LEMMA NothingHidden == hidden = {} /\ UntouchedOnDisk => OldContentsOnDisk
BY DEF OldContentsOnDisk, UntouchedOnDisk, Seen

(* The first attempt opens the archive with a whole header. *)
FirstAttempt ==
  /\ attempts \in Nat
  /\ attempts = 0 => pc = "closed" /\ header.hides = {}
  /\ attempts <= 1 => hidden = {}

LEMMA InitFirstAttempt == Init => FirstAttempt
<1> SUFFICES ASSUME Init PROVE FirstAttempt
  OBVIOUS
<1>1. header.hides = {}
  BY FirstHeader DEF Header
<1> QED
  BY <1>1 DEF Init, FirstAttempt

LEMMA NextFirstAttempt == FirstAttempt /\ [Next]_vars => FirstAttempt'
<1> SUFFICES ASSUME FirstAttempt, [Next]_vars PROVE FirstAttempt'
  OBVIOUS
<1> USE DEF FirstAttempt, builderVars
<1>1. CASE Open
  <2>1. attempts' = attempts + 1 /\ hidden' = hidden \cup header.hides
    BY <1>1 DEF Open, Attempt
  <2> QED
    BY <2>1
<1>2. CASE OpenFails
  BY <1>2 DEF OpenFails, Attempt
<1>3. CASE WriteHeader \/ FinishFails \/ Crash
  <2>1. pc # "closed" /\ UNCHANGED <<attempts, hidden>>
    BY <1>3 DEF WriteHeader, FinishFails, Crash
  <2> QED
    BY <2>1
<1>4. ASSUME NEW p \in Path, Remove(p) PROVE FirstAttempt'
  <2>1. pc # "closed" /\ UNCHANGED <<attempts, hidden>>
    BY <1>4 DEF Remove
  <2> QED
    BY <2>1
<1>5. CASE StartImport \/ ImportFails \/ WriteByte \/ FinishImport \/ WriteFails \/ AllApplied
           \/ StartTable
  <2>1. pc # "closed" /\ UNCHANGED <<attempts, hidden>>
    BY <1>5 DEF StartImport, Importing, ImportFails, WriteByte, FinishImport, WriteFails,
                AllApplied, StartTable
  <2> QED
    BY <2>1
<1>6. CASE UNCHANGED vars
  BY <1>6 DEF vars
<1> QED
  BY <1>1, <1>2, <1>3, <1>4, <1>5, <1>6 DEF Next

(* A first attempt writes over no file that the patch does not name, whatever *)
(* fails in it and wherever it is killed; only a second one can.              *)
THEOREM FirstAttemptSparesUntouched == Spec => [](attempts <= 1 => OldContentsOnDisk)
<1>1. FirstAttempt /\ UntouchedOnDisk => (attempts <= 1 => OldContentsOnDisk)
  BY NothingHidden DEF FirstAttempt
<1> QED
  BY <1>1, InitFirstAttempt, NextFirstAttempt, UntouchedAlwaysOnDisk, PTL DEF Spec

-----------------------------------------------------------------------------
(* What the patch has placed.                                                *)

(* The paths imported so far are settled entries. *)
LEMMA ImportedSettled ==
  ASSUME Types, RestOfPatch, NEW i \in 1 .. Done, patch.imports[i][1] \in DOMAIN entries
  PROVE  i \in DOMAIN patch.imports /\ patch.imports[i][1] \in Settled
<1>1. /\ Len(patch.imports) \in Nat /\ DOMAIN patch.imports = 1 .. Len(patch.imports)
      /\ \A j, k \in DOMAIN patch.imports :
           patch.imports[j][1] = patch.imports[k][1] => j = k
  BY PatchFacts
<1>2. Done \in Nat /\ Done = Len(patch.imports) - Len(todo.imports)
  BY DEF RestOfPatch, Done
<1>3. Len(todo.imports) \in Nat
  <2> DEFINE T == Path \X (Nat \ {0})
  <2>1. todo.imports \in Seq(T)
    BY DEF RestOfPatch
  <2> HIDE DEF T
  <2> QED
    BY <2>1, LenProperties
<1>4. i \in DOMAIN patch.imports
  <2> DEFINE m == Len(todo.imports)
             n == Len(patch.imports)
  <2>1. m \in Nat /\ n \in Nat /\ Done \in Nat /\ Done = n - m
    BY <1>1, <1>2, <1>3
  <2> HIDE DEF m, n
  <2>2. i \in 1 .. n
    BY <2>1
  <2> QED
    BY <1>1, <2>2 DEF n
<1>5. CASE pc = "content"
  <2>1. /\ Done + 1 \in DOMAIN patch.imports /\ Next1 = patch.imports[Done + 1]
    BY <1>5, NextImport DEF RestOfPatch
  <2>2. i # Done + 1
    BY <1>2
  <2>3. patch.imports[i][1] # Next1[1]
    BY <1>1, <1>4, <2>1, <2>2
  <2> QED
    BY <1>4, <1>5, <2>3 DEF Settled
<1>6. CASE pc # "content"
  BY <1>4, <1>6 DEF Settled
<1> QED
  BY <1>5, <1>6

LEMMA OpenPlaces ==
  ASSUME Types, InPlaceInv, Open
  PROVE  PlacedSoFar'
<1> DEFINE es == entries'
           cl == list'
<1>1. Kept(entries)' /\ ~Malformed(es) /\ cl = ListAvailableChunks(es)
  BY OpenedTable
<1>2. UNCHANGED patch /\ todo' = patch /\ pc' = "patching"
  BY DEF Open
<1>3. /\ ListInv(cl)
      /\ \A p \in DOMAIN es : Unlisted(cl, es[p]) /\ EndOf(es[p]) <= cl.end
  BY <1>1, OpenedList DEF Kept
<1>4. Done' = 0
  BY <1>2, PatchFacts DEF Done
<1> QED
  BY <1>1, <1>2, <1>3, <1>4 DEF PlacedSoFar, Settled

(* An inner entry is released exactly. *)
LEMMA RemovePlaces ==
  ASSUME Types, InPlaceInv, PlacedSoFar, NEW p \in Path, Remove(p)
  PROVE  PlacedSoFar'
<1> SUFFICES ASSUME ListExact', Sound' PROVE PlacedSoFar'
  BY DEF PlacedSoFar
<1>1. /\ UNCHANGED <<patch, before, hidden, disk, pc>> /\ pc = "patching"
      /\ todo' = [todo EXCEPT !.removed = @ \ {p}] /\ p \in todo.removed /\ Removable(p)
  BY DEF Remove
<1>2. ListExact /\ Sound /\ BuilderKeeps /\ RestOfPatch
  BY <1>1 DEF InPlaceInv, ListExact, Sound
<1>3. Done' = Done /\ Settled = DOMAIN entries /\ Settled' = DOMAIN entries'
  <2>1. todo'.imports = todo.imports
    BY <1>1, <1>2 DEF RestOfPatch
  <2> QED
    BY <1>1, <2>1 DEF Done, Settled
<1>4. /\ ListInv(list) /\ ~Malformed(entries)
      /\ \A q \in DOMAIN entries : Unlisted(list, entries[q]) /\ EndOf(entries[q]) <= list.end
      /\ \A i \in 1 .. Done :
           LET q == patch.imports[i][1]
           IN  /\ q \in DOMAIN entries /\ entries[q].size = patch.imports[i][2]
               /\ Content(disk, entries[q]) = Cells("new", q, entries[q].size)
  BY <1>2, <1>3 DEF PlacedSoFar
<1>5. CASE p \notin DOMAIN entries
  <2>1. UNCHANGED <<entries, list>>
    BY <1>5 DEF Remove
  <2> QED
    BY <1>1, <1>3, <1>4, <2>1 DEF PlacedSoFar, Content, Read, At
<1>6. CASE p \in DOMAIN entries
  <2> DEFINE x == entries[p]
  <2>1. /\ entries' = [q \in DOMAIN entries \ {p} |-> entries[q]]
        /\ list' = FreeChunk(list, x.offset, x.size)
    BY <1>6 DEF Remove
  <2>2. x \in Extent /\ HeaderSize <= x.offset /\ Unlisted(list, x)
    BY <1>2, <1>4, <1>6 DEF BuilderKeeps, Kept
  <2>3. EndOf(x) < list.end
    <3>1. EndOf(x) <= list.end /\ EndOf(x) # list.end
      BY <1>1, <1>2, <1>4, <1>6 DEF Removable, IsTail, ListExact
    <3>2. EndOf(x) \in Nat /\ list.end \in Nat
      BY <1>4, <2>2 DEF EndOf, Extent, ListInv, ListType
    <3> QED
      BY <3>1, <3>2
  <2> HIDE DEF x
  <2>4. /\ ListInv(list') /\ list'.end = list.end
        /\ \A y \in Extent : Unlisted(list, y) /\ Disjoint(x, y) => Unlisted(list', y)
    BY <1>4, <2>1, <2>2, <2>3, FreeChunkSafe
  <2>5. \A q \in DOMAIN entries' : q \in DOMAIN entries /\ q # p /\ entries'[q] = entries[q]
    BY <2>1
  <2>6. ~Malformed(entries')
    BY <1>4, <2>5 DEF Malformed
  <2>7. \A q \in DOMAIN entries' : Unlisted(list', entries'[q]) /\ EndOf(entries'[q]) <= list'.end
    <3>1. \A q \in DOMAIN entries' : Disjoint(x, entries[q]) /\ entries[q] \in Extent
      BY <1>2, <1>4, <1>6, <2>5 DEF Malformed, BuilderKeeps, Kept, x
    <3> QED
      BY <1>4, <2>4, <2>5, <3>1
  <2>8. ASSUME NEW i \in 1 .. Done
        PROVE  LET q == patch.imports[i][1]
               IN  /\ q \in DOMAIN entries' /\ entries'[q].size = patch.imports[i][2]
                   /\ Content(disk, entries'[q]) = Cells("new", q, entries'[q].size)
    <3>1. patch.imports[i][1] \in DOMAIN entries
      BY <1>4
    <3>2. i \in DOMAIN patch.imports
      BY <1>2, <3>1, ImportedSettled
    <3>3. patch.imports[i][1] # p
      BY <1>1, <1>2, <3>2, PatchFacts DEF RestOfPatch
    <3>4. patch.imports[i][1] \in DOMAIN entries'
          /\ entries'[patch.imports[i][1]] = entries[patch.imports[i][1]]
      BY <2>1, <3>1, <3>3
    <3> QED
      BY <1>4, <3>4
  <2> QED
    BY <1>1, <1>3, <2>4, <2>6, <2>7, <2>8 DEF PlacedSoFar, Content, Read, At
<1> QED
  BY <1>5, <1>6

(* An import gets room of its own, beside every other entry. *)
LEMMA PlacementExact ==
  ASSUME Types, InPlaceInv, PlacedSoFar, ListExact, pc = "patching",
         todo.imports # <<>>
  PROVE  /\ Allocated(list, Next1[2], Placement)
         /\ \A q \in DOMAIN entries \ {Next1[1]} : Spared(entries[q], Next1[2], Placement)
<1>1. BuilderKeeps /\ RestOfPatch
  BY DEF InPlaceInv
<1>2. /\ Next1[2] \in Nat \ {0} /\ ListInv(list)
      /\ \A q \in DOMAIN entries :
           /\ entries[q] \in Extent /\ HeaderSize <= entries[q].offset
           /\ Unlisted(list, entries[q]) /\ EndOf(entries[q]) <= list.end
      /\ \A q1, q2 \in DOMAIN entries : q1 # q2 => Disjoint(entries[q1], entries[q2])
  BY <1>1, NextImport DEF PlacedSoFar, Sound, Settled, BuilderKeeps, Kept, Malformed
<1>3. CASE Next1[1] \in DOMAIN entries
  <2> DEFINE x == entries[Next1[1]]
  <2>1. Placement = ReallocChunk(list, x.offset, x.size, Next1[2])
    BY <1>3 DEF Placement, PlaceEntry
  <2>2. /\ x \in Extent /\ HeaderSize <= x.offset /\ EndOf(x) <= list.end /\ Unlisted(list, x)
        /\ \A q \in DOMAIN entries \ {Next1[1]} : Disjoint(x, entries[q])
    BY <1>2, <1>3
  <2> HIDE DEF x
  <2> QED
    BY <1>2, <2>1, <2>2, ReallocChunkSafe
<1>4. CASE Next1[1] \notin DOMAIN entries
  <2>1. Placement = AllocChunk(list, Next1[2])
    BY <1>4 DEF Placement, PlaceEntry
  <2> QED
    BY <1>2, <2>1, AllocChunkSafe
<1> QED
  BY <1>3, <1>4

(* What has been imported stays where it is while nothing is written. *)
LEMMA ImportedStay ==
  ASSUME PlacedSoFar, ListExact, Sound, UNCHANGED <<patch, disk, entries>>, Done' = Done
  PROVE  \A i \in 1 .. Done' :
           LET p == patch'.imports[i][1]
           IN  /\ p \in DOMAIN entries' /\ entries'[p].size = patch'.imports[i][2]
               /\ Content(disk', entries'[p]) = Cells("new", p, entries'[p].size)
BY DEF PlacedSoFar

(* The content goes where it was placed. *)
LEMMA ImportTarget ==
  ASSUME Types, InPlaceInv, StartImport, Placement.offset \in Nat
  PROVE  Target' = [offset |-> Placement.offset, size |-> Next1[2]]
<1> DEFINE n == Next1[2]
           o == Placement.offset
           it == [kind |-> "new", of |-> Next1[1], size |-> n]
<1>1. /\ UNCHANGED todo /\ pc = "patching" /\ pc' = "content" /\ todo.imports # <<>>
      /\ write' = [at |-> o, cells |-> Cells("new", Next1[1], n)]
  BY DEF StartImport, Importing
<1>2. RestOfPatch
  BY <1>1 DEF InPlaceInv
<1>3. n \in Nat \ {0}
  BY <1>1, <1>2, NextImport
<1>4. Item'.size = n
  BY <1>1 DEF Item, Next1
<1>5. Len(write'.cells) = n
  <2>1. it.size \in Nat /\ it.kind = "new" /\ it.of = Next1[1] /\ it.size = n
    BY <1>3
  <2> HIDE DEF it
  <2> QED
    BY <1>1, <2>1, WrittenFromStart
<1>6. o + n - n = o
  BY <1>3
<1> QED
  BY <1>1, <1>4, <1>5, <1>6 DEF Target

LEMMA StartImportPlaces ==
  ASSUME Types, InPlaceInv, PlacedSoFar, StartImport
  PROVE  PlacedSoFar'
<1> SUFFICES ASSUME ListExact', Sound' PROVE PlacedSoFar'
  BY DEF PlacedSoFar
<1> DEFINE n == Next1[2]
           o == Placement.offset
<1>1. /\ UNCHANGED <<patch, disk, entries, todo, hidden>>
      /\ pc = "patching" /\ pc' = "content" /\ todo.imports # <<>>
      /\ list' = Placement.list
      /\ write' = [at |-> o, cells |-> Cells("new", Next1[1], n)]
  BY DEF StartImport, Importing
<1>2. ListExact /\ Sound /\ RestOfPatch
  BY <1>1 DEF InPlaceInv, ListExact, Sound
<1>3. n \in Nat \ {0}
  BY <1>1, <1>2, NextImport
<1>4. /\ Allocated(list, n, Placement)
      /\ \A q \in DOMAIN entries \ {Next1[1]} : Spared(entries[q], n, Placement)
  BY <1>1, <1>2, PlacementExact
<1>5. Done' = Done /\ Next1' = Next1
  BY <1>1 DEF Done, Next1
<1>6. Settled' = DOMAIN entries \ {Next1[1]}
  BY <1>1, <1>5 DEF Settled
<1>7. Target' = [offset |-> o, size |-> n]
  <2>1. o \in Nat
    BY <1>4 DEF Allocated
  <2> QED
    BY <1>2, <2>1, ImportTarget
<1>8. /\ ListInv(list')
      /\ Unlisted(list', Target') /\ EndOf(Target') <= list'.end
  BY <1>1, <1>4, <1>7 DEF Allocated, EndOf
<1>9. \A p \in DOMAIN entries \ {Next1[1]} :
        /\ Unlisted(list', entries[p]) /\ EndOf(entries[p]) <= list'.end
        /\ Disjoint(Target', entries[p])
  BY <1>1, <1>4, <1>7 DEF Spared
<1>10. ~Malformed(entries)
  BY <1>2 DEF PlacedSoFar
<1> QED
  BY <1>1, <1>2, <1>5, <1>6, <1>8, <1>9, <1>10, ImportedStay DEF PlacedSoFar

LEMMA WriteBytePlaces ==
  ASSUME Types, InPlaceInv, PlacedSoFar, WriteByte
  PROVE  PlacedSoFar'
<1> SUFFICES ASSUME ListExact', Sound' PROVE PlacedSoFar'
  BY DEF PlacedSoFar
<1>1. /\ UNCHANGED <<patch, before, hidden, entries, list, todo, pc, result>>
      /\ pc \in {"content", "table"}
  BY DEF WriteByte
<1>2. ListExact /\ Sound /\ RestOfPatch /\ BuilderKeeps
  BY <1>1 DEF InPlaceInv, ListExact, Sound
<1>3. /\ Done' = Done /\ Settled' = Settled
  BY <1>1 DEF Done, Settled, Next1
<1>4. PICK k \in 0 .. Item.size - 1 :
           /\ write.at = Target.offset + k
           /\ Target' = Target
           /\ \A o : o # write.at => At(disk', o) = At(disk, o)
  BY <1>2, WriteByteFacts
<1>5. Target \in Extent /\ Target.size = Item.size
  BY <1>1, <1>2, ItemFacts
<1>6. ASSUME NEW i \in 1 .. Done
      PROVE  LET p == patch.imports[i][1]
             IN  /\ p \in DOMAIN entries /\ entries[p].size = patch.imports[i][2]
                 /\ Content(disk', entries[p]) = Cells("new", p, entries[p].size)
  <2> DEFINE p == patch.imports[i][1]
  <2>1. /\ p \in DOMAIN entries /\ entries[p].size = patch.imports[i][2]
        /\ Content(disk, entries[p]) = Cells("new", p, entries[p].size)
    BY <1>2 DEF PlacedSoFar
  <2>2. p \in Settled
    BY <1>2, <2>1, ImportedSettled
  <2>3. Disjoint(Target, entries[p]) /\ entries[p] \in Extent
    BY <1>1, <1>2, <2>1, <2>2 DEF PlacedSoFar, BuilderKeeps, Kept
  <2> HIDE DEF p
  <2>4. Content(disk', entries[p]) = Content(disk, entries[p])
    BY <1>4, <1>5, <2>3, ContentStays
  <2> QED
    BY <2>1, <2>4 DEF p
<1> QED
  BY <1>1, <1>2, <1>3, <1>4, <1>6 DEF PlacedSoFar

LEMMA FinishImportPlaces ==
  ASSUME Types, InPlaceInv, PlacedSoFar, FinishImport
  PROVE  PlacedSoFar'
<1> SUFFICES ASSUME ListExact', Sound' PROVE PlacedSoFar'
  BY DEF PlacedSoFar
<1> DEFINE new == Next1[1]
<1>1. /\ UNCHANGED <<patch, before, hidden, disk, list>> /\ pc = "content" /\ pc' = "patching"
  BY DEF FinishImport
<1>2. ListExact /\ Sound /\ RestOfPatch /\ BuilderKeeps /\ todo.imports # <<>>
  BY <1>1 DEF InPlaceInv, ListExact, Sound, RestOfPatch
<1>3. /\ Target.size = Next1[2] /\ Done' = Done + 1 /\ Done \in Nat
      /\ DOMAIN entries' = DOMAIN entries \cup {new} /\ entries'[new] = Target
      /\ \A q \in DOMAIN entries \ {new} : entries'[q] = entries[q]
      /\ Content(disk, Target) = Cells("new", new, Next1[2])
  BY <1>2, FinishImportFacts DEF RestOfPatch
<1>4. Settled = DOMAIN entries \ {new} /\ Settled' = DOMAIN entries'
  BY <1>1 DEF Settled
<1>5. /\ ListInv(list) /\ ~Malformed(entries)
      /\ Unlisted(list, Target) /\ EndOf(Target) <= list.end
      /\ \A p \in Settled : /\ Unlisted(list, entries[p]) /\ EndOf(entries[p]) <= list.end
                            /\ Disjoint(Target, entries[p])
      /\ \A i \in 1 .. Done :
           LET p == patch.imports[i][1]
           IN  /\ p \in DOMAIN entries /\ entries[p].size = patch.imports[i][2]
               /\ Content(disk, entries[p]) = Cells("new", p, entries[p].size)
  BY <1>1, <1>2 DEF PlacedSoFar
<1>6. ~Malformed(entries')
  <2> SUFFICES ASSUME NEW p \in DOMAIN entries', NEW q \in DOMAIN entries', p # q
               PROVE  Disjoint(entries'[p], entries'[q])
    BY DEF Malformed
  <2>1. CASE p = new
    BY <1>3, <1>4, <1>5, <2>1
  <2>2. CASE q = new
    <3>1. Disjoint(Target, entries[p]) /\ entries'[p] = entries[p]
      BY <1>3, <1>4, <1>5, <2>2
    <3> QED
      BY <1>3, <2>2, <3>1 DEF Disjoint
  <2>3. CASE p # new /\ q # new
    BY <1>3, <1>5, <2>3 DEF Malformed
  <2> QED
    BY <2>1, <2>2, <2>3
<1>7. \A p \in DOMAIN entries' : Unlisted(list, entries'[p]) /\ EndOf(entries'[p]) <= list.end
  BY <1>3, <1>4, <1>5
<1>8. Next1 = patch.imports[Done + 1]
  BY <1>2, NextImport
<1>9. ASSUME NEW i \in 1 .. Done + 1
      PROVE  LET p == patch.imports[i][1]
             IN  /\ p \in DOMAIN entries' /\ entries'[p].size = patch.imports[i][2]
                 /\ Content(disk, entries'[p]) = Cells("new", p, entries'[p].size)
  <2>1. CASE i = Done + 1
    BY <1>3, <1>8, <2>1
  <2>2. CASE i # Done + 1
    <3>1. i \in 1 .. Done
      BY <1>3, <2>2
    <3>2. patch.imports[i][1] \in Settled
      BY <1>2, <1>5, <3>1, ImportedSettled
    <3> QED
      BY <1>3, <1>4, <1>5, <3>1, <3>2
  <2> QED
    BY <2>1, <2>2
<1>10. /\ ListInv(list')
       /\ \A p \in Settled' : Unlisted(list', entries'[p]) /\ EndOf(entries'[p]) <= list'.end
  BY <1>1, <1>4, <1>5, <1>7
<1>11. pc' \notin {"content", "table"}
  BY <1>1
<1>12. \A i \in 1 .. Done' :
         LET p == patch'.imports[i][1]
         IN  /\ p \in DOMAIN entries' /\ entries'[p].size = patch'.imports[i][2]
             /\ Content(disk', entries'[p]) = Cells("new", p, entries'[p].size)
  <2>1. Done' = Done + 1 /\ disk' = disk /\ patch' = patch
    BY <1>1, <1>3
  <2> QED
    BY <1>9, <2>1
<1> QED
  BY <1>6, <1>10, <1>11, <1>12 DEF PlacedSoFar, Content, Read, At

LEMMA AllAppliedPlaces ==
  ASSUME PlacedSoFar, AllApplied
  PROVE  PlacedSoFar'
<1> SUFFICES ASSUME ListExact', Sound' PROVE PlacedSoFar'
  BY DEF PlacedSoFar
<1>1. /\ UNCHANGED <<patch, disk, entries, list, todo>>
      /\ pc = "patching" /\ pc' = "dropping"
  BY DEF AllApplied, builderVars
<1>2. ListExact /\ Sound /\ Done' = Done
      /\ Settled = DOMAIN entries /\ Settled' = DOMAIN entries
  BY <1>1 DEF ListExact, Sound, Done, Settled
<1> QED
  BY <1>1, <1>2, ImportedStay DEF PlacedSoFar

(* The table goes where it was placed. *)
LEMMA TableTarget ==
  ASSUME StartTable, AllocChunk(list, TableSize).offset \in Nat
  PROVE  Target' = [offset |-> AllocChunk(list, TableSize).offset, size |-> TableSize]
<1> DEFINE o == AllocChunk(list, TableSize).offset
           it == [kind |-> "table", of |-> entries, size |-> TableSize]
<1>1. pc' = "table" /\ write' = [at |-> o, cells |-> Cells("table", entries, TableSize)]
  BY DEF StartTable
<1>2. Item'.size = TableSize
  BY <1>1 DEF Item
<1>3. Len(write'.cells) = TableSize
  <2>1. it.size \in Nat /\ it.kind = "table" /\ it.of = entries /\ it.size = TableSize
    BY InPlaceAssumption
  <2> HIDE DEF it
  <2> QED
    BY <1>1, <2>1, WrittenFromStart
<1>4. o + TableSize - TableSize = o
  BY InPlaceAssumption
<1> QED
  BY <1>1, <1>2, <1>3, <1>4 DEF Target

LEMMA StartTablePlaces ==
  ASSUME Types, InPlaceInv, PlacedSoFar, StartTable
  PROVE  PlacedSoFar'
<1> SUFFICES ASSUME ListExact', Sound' PROVE PlacedSoFar'
  BY DEF PlacedSoFar
<1> DEFINE r == AllocChunk(list, TableSize)
           o == r.offset
<1>1. /\ UNCHANGED <<patch, disk, entries, todo, result>>
      /\ pc = "dropping" /\ pc' = "table"
      /\ list' = r.list
      /\ write' = [at |-> o, cells |-> Cells("table", entries, TableSize)]
  BY DEF StartTable
<1>2. ListExact /\ Sound /\ BuilderKeeps
  BY <1>1 DEF InPlaceInv, ListExact, Sound
<1>3. Done' = Done /\ Settled = DOMAIN entries /\ Settled' = DOMAIN entries
  BY <1>1 DEF Done, Settled
<1>4. /\ ListInv(list) /\ ~Malformed(entries) /\ TableSize \in Nat \ {0}
      /\ \A p \in DOMAIN entries : /\ Unlisted(list, entries[p]) /\ EndOf(entries[p]) <= list.end
                                   /\ entries[p] \in Extent
  BY <1>2, <1>3, InPlaceAssumption DEF PlacedSoFar, BuilderKeeps, Kept
<1>5. /\ Allocated(list, TableSize, r)
      /\ \A p \in DOMAIN entries : Spared(entries[p], TableSize, r)
  BY <1>4, AllocChunkSafe
<1> HIDE DEF r
<1>6. Target' = [offset |-> o, size |-> TableSize]
  <2>1. o \in Nat
    BY <1>5 DEF Allocated
  <2> QED
    BY <2>1, TableTarget DEF r
<1>7. /\ ListInv(list')
      /\ Unlisted(list', Target') /\ EndOf(Target') <= list'.end
  BY <1>1, <1>5, <1>6 DEF Allocated, EndOf
<1>8. \A p \in DOMAIN entries :
        /\ Unlisted(list', entries[p]) /\ EndOf(entries[p]) <= list'.end
        /\ Disjoint(Target', entries[p])
  BY <1>1, <1>5, <1>6 DEF Spared
<1> QED
  BY <1>1, <1>2, <1>3, <1>4, <1>7, <1>8, ImportedStay DEF PlacedSoFar

-----------------------------------------------------------------------------
(* What is on disk when table and header have been written.                  *)

(* A reader gets the table whose bytes the header points to. *)
LEMMA WrittenTable ==
  ASSUME NEW d, NEW o \in Nat, NEW es, IsFiniteSet(DOMAIN es), es = [p \in DOMAIN es |-> es[p]],
         \A i \in 1 .. TableSize : At(d, o + i - 1) = <<"table", es, i>>
  PROVE  /\ View(d, Header(o, es)) = [p \in DOMAIN es |-> Content(d, es[p])]
         /\ Readable(d, Header(o, es))
         /\ WholeTable(d, Header(o, es)) = es /\ TableAt(d, Header(o, es)) = es
<1> DEFINE h == Header(o, es)
<1>1. h.at = o /\ h.hides = {}
  BY DEF Header
<1>2. At(d, o) = <<"table", es, 1>>
  <2>1. 1 \in 1 .. TableSize /\ o + 1 - 1 = o
    BY InPlaceAssumption
  <2> QED
    BY <2>1
<1>3. WholeTable(d, h) = es
  BY <1>1, <1>2 DEF WholeTable
<1>4. Read(d, o, TableSize) = Cells("table", es, TableSize)
  BY DEF Read, Cells
<1> HIDE DEF h
<1>6. Readable(d, h)
  BY <1>1, <1>2, <1>3, <1>4 DEF Readable
<1>7. TableAt(d, h) = es
  BY <1>1, <1>3 DEF TableAt
<1> QED
  BY <1>3, <1>6, <1>7 DEF View, h

(* What a reader of the first archive gets, and of one that finish() wrote. *)
LEMMA FirstTable ==
  ASSUME Init
  PROVE  /\ View(disk, header) = [p \in DOMAIN entries |-> Content(disk, entries[p])]
         /\ WholeTable(disk, header) = entries /\ header.hides = {}
         /\ Readable(disk, header) /\ TableAt(disk, header) = entries
         /\ header.count = Cardinality(DOMAIN entries)
<1>1. entries \in Archives /\ disk = FirstDisk(entries, header.at)
  BY DEF Init
<1>2. header.at \in HeaderSize .. OffsetLimit /\ header = Header(header.at, entries)
  BY FirstHeader
<1> DEFINE h == header.at
<1>3. ASSUME NEW i \in 1 .. TableSize
      PROVE  At(disk, h + i - 1) = <<"table", entries, i>>
  <2> DEFINE o == h + i - 1
  <2>1. /\ o \in HeaderSize .. OffsetLimit + TableSize
        /\ h <= o /\ o < h + TableSize /\ o - h + 1 = i
    BY <1>2, HeaderSizeAssumption, InPlaceAssumption
  <2> HIDE DEF o
  <2>2. o \in DOMAIN disk /\ disk[o] = <<"table", entries, o - h + 1>>
    BY <1>1, <2>1 DEF FirstDisk
  <2>3. At(disk, o) = <<"table", entries, i>>
    BY <2>1, <2>2 DEF At
  <2> QED
    BY <2>3 DEF o
<1>4. h \in Nat /\ IsFiniteSet(DOMAIN entries) /\ entries = [p \in DOMAIN entries |-> entries[p]]
  BY <1>1, <1>2, ArchivesAssumption, HeaderSizeAssumption
<1> HIDE DEF h
<1>5. /\ View(disk, Header(h, entries)) = [p \in DOMAIN entries |-> Content(disk, entries[p])]
      /\ Readable(disk, Header(h, entries))
      /\ WholeTable(disk, Header(h, entries)) = entries
      /\ TableAt(disk, Header(h, entries)) = entries
  <2> DEFINE d == disk
             es == entries
  <2>1. /\ h \in Nat /\ IsFiniteSet(DOMAIN es) /\ es = [p \in DOMAIN es |-> es[p]]
        /\ \A i \in 1 .. TableSize : At(d, h + i - 1) = <<"table", es, i>>
    BY <1>3, <1>4
  <2> HIDE DEF d, es
  <2>2. Readable(d, Header(h, es))
    BY <2>1, WrittenTable
  <2>3. WholeTable(d, Header(h, es)) = es
    BY <2>1, WrittenTable
  <2>4. TableAt(d, Header(h, es)) = es
    BY <2>1, WrittenTable
  <2>5. View(d, Header(h, es)) = [p \in DOMAIN es |-> Content(d, es[p])]
    BY <2>2, <2>4 DEF View
  <2> QED
    BY <2>2, <2>3, <2>4, <2>5 DEF d, es
<1>6. /\ header = Header(h, entries)
      /\ Header(h, entries).hides = {}
      /\ Header(h, entries).count = Cardinality(DOMAIN entries)
  BY <1>2 DEF h, Header
<1> QED
  BY <1>5, <1>6

(* The entries are those of the patch and those it does not name. *)
LEMMA AllPlaced ==
  ASSUME Types, InPlaceInv, PlacedSoFar, TailRemoval # "always",
         pc = "table", result = "ok"
  PROVE  /\ Seen \cup ImportedPaths \subseteq DOMAIN entries
         /\ DOMAIN entries \subseteq (DOMAIN before \ patch.removed) \cup ImportedPaths
         /\ \A i \in DOMAIN patch.imports :
              Content(disk, entries[patch.imports[i][1]]) =
                Cells("new", patch.imports[i][1], patch.imports[i][2])
<1>1. BuilderKeeps /\ RestOfPatch /\ Sound
  BY DEF InPlaceInv, Sound
<1>2. todo = NothingToDo
  BY <1>1 DEF RestOfPatch
<1>3. /\ Len(patch.imports) \in Nat /\ DOMAIN patch.imports = 1 .. Len(patch.imports)
      /\ \A i \in DOMAIN patch.imports : patch.imports[i][1] \notin patch.removed
  BY PatchFacts
<1>4. Done = Len(patch.imports) /\ DOMAIN entries \cap patch.removed = {}
  <2>1. todo.imports = <<>> /\ todo.removed = {}
    BY <1>2 DEF NothingToDo
  <2>2. Len(patch.imports) - Len(todo.imports) = Len(patch.imports)
    BY <1>3, <2>1
  <2> QED
    BY <1>1, <2>1, <2>2 DEF Done, RestOfPatch
<1>5. \A i \in DOMAIN patch.imports :
        /\ patch.imports[i][1] \in DOMAIN entries
        /\ Content(disk, entries[patch.imports[i][1]]) =
             Cells("new", patch.imports[i][1], patch.imports[i][2])
  <2>1. CASE patch.imports = <<>>
    BY <2>1
  <2>2. CASE patch.imports # <<>>
    <3>1. ListExact
      BY <2>2, InPlaceAssumption DEF ListExact
    <3> QED
      BY <1>1, <1>3, <1>4, <3>1 DEF PlacedSoFar
  <2> QED
    BY <2>1, <2>2
<1>6. ImportedPaths \subseteq DOMAIN entries /\ ImportedPaths \cap patch.removed = {}
  BY <1>3, <1>5 DEF ImportedPaths
<1>7. Seen \subseteq DOMAIN entries /\ DOMAIN entries \subseteq DOMAIN before \cup Touched
  BY <1>1 DEF BuilderKeeps, Kept
<1>8. DOMAIN entries \subseteq (DOMAIN before \ patch.removed) \cup ImportedPaths
  BY <1>4, <1>7 DEF Touched
<1> QED
  BY <1>5, <1>6, <1>7, <1>8

(* The header that ends finish() shows the entries, with what is on disk.    *)
LEMMA TableShown ==
  ASSUME Types, InPlaceInv, WriteHeader
  PROVE  /\ View(disk', header') = [p \in DOMAIN entries |-> Content(disk, entries[p])]
         /\ WholeTable(disk', header') = entries /\ header'.hides = {}
         /\ Readable(disk', header') /\ TableAt(disk', header') = entries
         /\ header'.count = Cardinality(DOMAIN entries)
<1>1. /\ pc = "table" /\ write.cells = <<>> /\ disk' = disk
      /\ header' = Header(write.at - TableSize, entries)
  BY DEF WriteHeader, Close
<1>2. /\ BuilderKeeps
      /\ Item.size = TableSize /\ Item.kind = "table" /\ Item.of = entries
  BY <1>1 DEF InPlaceInv, Item
<1>3. Target.offset \in Nat /\ TableSize \in Nat
  BY <1>1, ItemFacts, InPlaceAssumption
<1>4. /\ write.at = Target.offset + TableSize
      /\ \A i \in 1 .. TableSize : At(disk, Target.offset + i - 1) = <<"table", entries, i>>
  BY <1>1, <1>2, Written
<1>5. write.at - TableSize = Target.offset
  BY <1>3, <1>4
<1>6. IsFiniteSet(DOMAIN entries) /\ entries = [p \in DOMAIN entries |-> entries[p]]
  BY <1>2 DEF BuilderKeeps, Kept
<1> DEFINE o == Target.offset
<1>7. o \in Nat /\ \A i \in 1 .. TableSize : At(disk, o + i - 1) = <<"table", entries, i>>
  BY <1>3, <1>4
<1>8. header' = Header(o, entries)
  BY <1>1, <1>5
<1> HIDE DEF o
<1>9. /\ View(disk, Header(o, entries)) = [p \in DOMAIN entries |-> Content(disk, entries[p])]
      /\ WholeTable(disk, Header(o, entries)) = entries
      /\ Readable(disk, Header(o, entries)) /\ TableAt(disk, Header(o, entries)) = entries
  BY <1>6, <1>7, WrittenTable
<1>10. /\ Header(o, entries).hides = {}
       /\ Header(o, entries).count = Cardinality(DOMAIN entries)
  BY DEF Header
<1> QED
  BY <1>1, <1>8, <1>9, <1>10

LEMMA WriteHeaderPatched ==
  ASSUME Types, InPlaceInv, PlacedSoFar, TailRemoval # "always",
         WriteHeader, result = "ok"
  PROVE  AsPatched(View(disk', header'))
<1>1. pc = "table"
  BY DEF WriteHeader
<1>2. BuilderKeeps
  BY <1>1 DEF InPlaceInv
<1> DEFINE files == View(disk', header')
<1>3. files = [p \in DOMAIN entries |-> Content(disk, entries[p])]
  BY TableShown
<1>4. /\ Seen \cup ImportedPaths \subseteq DOMAIN entries
      /\ DOMAIN entries \subseteq (DOMAIN before \ patch.removed) \cup ImportedPaths
  BY <1>1, AllPlaced
<1>5. ASSUME NEW p \in ImportedPaths PROVE Content(disk, entries[p]) = NewContent(p)
  <2>1. PICK i \in DOMAIN patch.imports : patch.imports[i][1] = p
    BY DEF ImportedPaths
  <2>2. (CHOOSE j \in DOMAIN patch.imports : patch.imports[j][1] = p) = i
    BY <2>1, PatchFacts
  <2>3. NewContent(p) = Cells("new", p, patch.imports[i][2])
    BY <2>2 DEF NewContent
  <2> QED
    BY <1>1, <2>1, <2>3, AllPlaced
<1>6. ASSUME NEW p \in Seen
      PROVE  Content(disk, entries[p]) = Cells("old", p, before[p].size)
  <2>1. entries[p] = before[p]
    BY <1>2 DEF BuilderKeeps, Kept
  <2>2. Content(disk, before[p]) = Cells("old", p, before[p].size)
    BY DEF InPlaceInv, UntouchedOnDisk
  <2> QED
    BY <2>1, <2>2
<1> HIDE DEF files
<1>7. AsPatched(files)
  BY <1>3, <1>4, <1>5, <1>6 DEF AsPatched
<1> QED
  BY <1>7 DEF files

LEMMA SamePatched ==
  ASSUME UNCHANGED <<patch, before, hidden>>, AsPatched(View(disk', header'))
  PROVE  AsPatched(View(disk, header))'
<1>1. Seen' = Seen /\ ImportedPaths' = ImportedPaths /\ \A p : NewContent(p)' = NewContent(p)
  BY DEF Seen, Untouched, Touched, ImportedPaths, NewContent
<1>2. View(disk, header)' = View(disk', header')
  OBVIOUS
<1> QED
  BY <1>1, <1>2 DEF AsPatched

(* The inductive invariant of what Ok means. *)
IInv == Types /\ InPlaceInv /\ PlacedSoFar /\ SuccessMeansPatched

LEMMA InitInv == Init => IInv
<1> SUFFICES ASSUME Init PROVE IInv
  OBVIOUS
<1>1. pc = "closed" /\ result = "none"
  BY DEF Init
<1>2. PlacedSoFar /\ SuccessMeansPatched
  BY <1>1 DEF PlacedSoFar, Sound, SuccessMeansPatched
<1> QED
  BY <1>2, InitKeeps DEF IInv

LEMMA NextInv ==
  ASSUME TailRemoval # "always", IInv, [Next]_vars
  PROVE  IInv'
<1> USE DEF builderVars
<1>1. Types /\ InPlaceInv /\ PlacedSoFar /\ Types' /\ InPlaceInv'
  BY NextKeeps DEF IInv
<1>2. PlacedSoFar'
  <2>1. CASE Open
    BY <1>1, <2>1, OpenPlaces
  <2>2. ASSUME NEW p \in Path, Remove(p) PROVE PlacedSoFar'
    BY <1>1, <2>2, RemovePlaces
  <2>3. CASE StartImport
    BY <1>1, <2>3, StartImportPlaces
  <2>4. CASE WriteByte
    BY <1>1, <2>4, WriteBytePlaces
  <2>5. CASE FinishImport
    BY <1>1, <2>5, FinishImportPlaces
  <2>6. CASE AllApplied
    BY <1>1, <2>6, AllAppliedPlaces
  <2>7. CASE StartTable
    BY <1>1, <2>7, StartTablePlaces
  <2>8. CASE ImportFails \/ WriteFails \/ OpenFails \/ WriteHeader \/ FinishFails \/ Crash
    <3>1. ~Sound'
      BY <2>8 DEF ImportFails, WriteFails, OpenFails, Attempt, WriteHeader, FinishFails, Crash,
                  Close, Sound
    <3> QED
      BY <3>1 DEF PlacedSoFar
  <2>9. CASE UNCHANGED vars
    BY <1>1, <2>9
    DEF vars, PlacedSoFar, ListExact, Sound, Settled, Target, Item, Next1, Done, Content, Read, At
  <2> QED
    BY <2>1, <2>2, <2>3, <2>4, <2>5, <2>6, <2>7, <2>8, <2>9 DEF Next
<1>3. SuccessMeansPatched'
  <2> SUFFICES ASSUME pc' = "closed", result' = "ok", shown'.finished
               PROVE  AsPatched(View(disk, header))'
    BY DEF SuccessMeansPatched
  <2>1. CASE WriteHeader
    <3>1. UNCHANGED <<patch, before, hidden>> /\ result = "ok"
      BY <2>1 DEF WriteHeader, Close
    <3>2. AsPatched(View(disk', header'))
      BY <1>1, <2>1, <3>1, WriteHeaderPatched
    <3> QED
      BY <3>1, <3>2, SamePatched
  <2>2. CASE UNCHANGED vars
    <3>1. UNCHANGED <<patch, before, hidden, disk, header, pc, result, shown>>
      BY <2>2 DEF vars
    <3>2. AsPatched(View(disk, header)) /\ View(disk', header') = View(disk, header)
      BY <3>1 DEF IInv, SuccessMeansPatched
    <3> QED
      BY <3>1, <3>2, SamePatched
  <2>3. ASSUME NEW p \in Path, Remove(p) PROVE FALSE
    BY <2>3 DEF Remove
  <2>4. CASE FinishFails \/ Crash
    BY <2>4 DEF FinishFails, Crash, Close
  <2>5. CASE Open \/ StartImport \/ ImportFails \/ FinishImport \/ WriteFails \/ AllApplied
              \/ StartTable \/ WriteByte \/ OpenFails
    BY <2>5 DEF Open, StartImport, ImportFails, FinishImport, WriteFails, AllApplied,
                StartTable, WriteByte, OpenFails
  <2> QED
    BY <2>1, <2>2, <2>3, <2>4, <2>5 DEF Next
<1> QED
  BY <1>1, <1>2, <1>3 DEF IInv

(* A patch that returns Ok is on disk, with all files that were not hidden   *)
(* from an attempt, unless it may remove the entry at the end of the data    *)
(* area and import contents as well.                                         *)
THEOREM SuccessAlwaysMeansPatched ==
  ASSUME TailRemoval # "always"
  PROVE  Spec => []SuccessMeansPatched
<1>1. IInv /\ [Next]_vars => IInv'
  BY NextInv
<1>2. IInv => SuccessMeansPatched
  BY DEF IInv
<1> QED
  BY <1>1, <1>2, InitInv, PTL DEF Spec

-----------------------------------------------------------------------------
(* The next attempt can open what finish() has written.                      *)

(* A table that is not malformed, shown by a header that counts its entries. *)
LEMMA WholeOpens ==
  ASSUME NEW es, IsFiniteSet(DOMAIN es), ~Malformed(es),
         Readable(disk, header), TableAt(disk, header) = es, WholeTable(disk, header) = es,
         header.count = Cardinality(DOMAIN es)
  PROVE  Openable /\ ~OddCount
<1>1. Cardinality(DOMAIN es) \in Nat /\ (Cardinality(DOMAIN es) = 0 <=> DOMAIN es = {})
  BY FS_CardinalityType, FS_EmptySet
<1>2. Openable
  BY <1>1 DEF Openable
<1>3. ~OddCount
  BY <1>1 DEF OddCount
<1> QED
  BY <1>2, <1>3

LEMMA NextWellFormed ==
  ASSUME TailRemoval # "always", IInv, WellFormed, [Next]_vars
  PROVE  WellFormed'
<1> USE DEF builderVars
<1>1. Types /\ InPlaceInv /\ PlacedSoFar /\ PlacedSoFar'
  BY NextInv DEF IInv
<1>2. CASE Open
  BY <1>1, <1>2, OpenedTable DEF WellFormed
<1>3. ASSUME NEW p \in Path, Remove(p) PROVE WellFormed'
  <2>1. /\ pc = "patching"
        /\ entries' \in {entries, [q \in DOMAIN entries \ {p} |-> entries[q]]}
    BY <1>3 DEF Remove
  <2>2. \A q \in DOMAIN entries' : q \in DOMAIN entries /\ entries'[q] = entries[q]
    BY <2>1
  <2> QED
    BY <2>1, <2>2 DEF WellFormed, Malformed
<1>4. CASE FinishImport
  <2>1. pc = "content" /\ pc' = "patching" /\ patch' = patch
    BY <1>4 DEF FinishImport
  <2>2. RestOfPatch /\ todo.imports # <<>>
    BY <1>1, <2>1 DEF InPlaceInv, RestOfPatch
  <2>3. patch.imports # <<>>
    <3>1. Done + 1 \in DOMAIN patch.imports
      BY <1>1, <2>2, NextImport
    <3> QED
      BY <3>1
  <2>4. ListExact' /\ Sound'
    BY <2>1, <2>3, InPlaceAssumption DEF ListExact, Sound
  <2> QED
    BY <1>1, <2>4 DEF PlacedSoFar, WellFormed
<1>5. CASE StartImport \/ ImportFails \/ WriteByte \/ WriteFails \/ AllApplied \/ StartTable
  <2>1. pc # "closed" /\ UNCHANGED entries
    BY <1>5 DEF StartImport, Importing, ImportFails, WriteByte, WriteFails, AllApplied, StartTable
  <2> QED
    BY <2>1 DEF WellFormed
<1>6. CASE OpenFails \/ WriteHeader \/ FinishFails \/ Crash
  <2>1. pc' = "closed"
    BY <1>6 DEF OpenFails, Attempt, WriteHeader, FinishFails, Crash, Close
  <2> QED
    BY <2>1 DEF WellFormed
<1>7. CASE UNCHANGED vars
  BY <1>7 DEF vars, WellFormed
<1> QED
  BY <1>2, <1>3, <1>4, <1>5, <1>6, <1>7 DEF Next

ShownTyped ==
  shown = [files |-> shown.files, outcome |-> shown.outcome, finished |-> shown.finished]
OpensInv == WellFormed /\ ShownTyped /\ FinishedOpens

LEMMA InitOpens == Init => OpensInv
<1> SUFFICES ASSUME Init PROVE OpensInv
  OBVIOUS
<1>1. entries \in Archives /\ pc = "closed"
  BY DEF Init
<1>2. IsFiniteSet(DOMAIN entries) /\ ~Malformed(entries)
  BY <1>1, ArchivesAssumption
<1>3. Openable /\ ~OddCount
  BY <1>2, FirstTable, WholeOpens
<1>4. ShownTyped
  BY DEF Init, ShownTyped
<1> QED
  BY <1>1, <1>3, <1>4 DEF OpensInv, WellFormed, FinishedOpens

LEMMA WriteHeaderOpens ==
  ASSUME IInv, WellFormed, WriteHeader
  PROVE  (Openable /\ ~OddCount)'
<1>1. Types /\ InPlaceInv /\ pc = "table" /\ entries' = entries
  BY DEF IInv, WriteHeader
<1>2. IsFiniteSet(DOMAIN entries) /\ ~Malformed(entries)
  BY <1>1 DEF InPlaceInv, BuilderKeeps, Kept, WellFormed
<1> DEFINE es == entries
<1>3. /\ Readable(disk', header')
      /\ WholeTable(disk', header') = es /\ TableAt(disk', header') = es
      /\ header'.count = Cardinality(DOMAIN es)
  BY <1>1, TableShown
<1>4. IsFiniteSet(DOMAIN es) /\ ~Malformed(es)
  BY <1>2
<1> HIDE DEF es
<1>5. Cardinality(DOMAIN es) \in Nat /\ (Cardinality(DOMAIN es) = 0 <=> DOMAIN es = {})
  BY <1>4, FS_CardinalityType, FS_EmptySet
<1>6. (Openable)'
  BY <1>3, <1>4, <1>5 DEF Openable
<1>7. (~OddCount)'
  BY <1>3, <1>5 DEF OddCount
<1> QED
  BY <1>6, <1>7

LEMMA NextOpens ==
  ASSUME TailRemoval # "always", IInv, OpensInv, [Next]_vars
  PROVE  OpensInv'
<1> USE DEF builderVars
<1>1. WellFormed'
  BY NextWellFormed DEF OpensInv
<1>2. CASE WriteHeader
  <2>1. (Openable /\ ~OddCount)'
    BY <1>2, WriteHeaderOpens DEF OpensInv
  <2>2. ShownTyped'
    BY <1>2 DEF WriteHeader, Close, ShownTyped
  <2> QED
    BY <1>1, <2>1, <2>2 DEF OpensInv, FinishedOpens
<1>3. CASE FinishFails \/ Crash
  BY <1>1, <1>3 DEF FinishFails, Crash, Close, OpensInv, ShownTyped, FinishedOpens
<1>4. CASE OpenFails
  <2>1. UNCHANGED <<disk, header, pc>> /\ shown' = [shown EXCEPT !.outcome = "error"]
    BY <1>4 DEF OpenFails
  <2>2. shown' = [files |-> shown.files, outcome |-> "error", finished |-> shown.finished]
    <3> DEFINE f == shown.files
               w == shown.outcome
               g == shown.finished
    <3>1. shown = [files |-> f, outcome |-> w, finished |-> g]
      BY DEF OpensInv, ShownTyped
    <3> HIDE DEF f, w, g
    <3>2. shown' = [files |-> f, outcome |-> "error", finished |-> g]
      BY <2>1, <3>1
    <3> QED
      BY <3>2 DEF f, g
  <2>3. Openable' = Openable /\ OddCount' = OddCount
    BY <2>1 DEF Openable, OddCount, Readable, TableAt, WholeTable, Read, At
  <2> QED
    BY <1>1, <2>1, <2>2, <2>3 DEF OpensInv, ShownTyped, FinishedOpens
<1>5. ASSUME pc' # "closed", UNCHANGED shown PROVE OpensInv'
  BY <1>1, <1>5 DEF OpensInv, ShownTyped, FinishedOpens
<1>6. ASSUME NEW p \in Path, Remove(p) PROVE pc' # "closed" /\ UNCHANGED shown
  BY <1>6 DEF Remove
<1>7. CASE Open \/ StartImport \/ ImportFails \/ WriteByte \/ FinishImport \/ WriteFails
           \/ AllApplied \/ StartTable
  <2>1. pc' # "closed" /\ UNCHANGED shown
    BY <1>7 DEF Open, StartImport, Importing, ImportFails, WriteByte, FinishImport, WriteFails,
                AllApplied, StartTable
  <2> QED
    BY <1>5, <2>1
<1>8. CASE UNCHANGED vars
  <2>1. UNCHANGED <<disk, header, pc, shown>>
    BY <1>8 DEF vars
  <2>2. Openable' = Openable /\ OddCount' = OddCount
    BY <2>1 DEF Openable, OddCount, Readable, TableAt, WholeTable, Read, At
  <2> QED
    BY <1>1, <2>1, <2>2 DEF OpensInv, ShownTyped, FinishedOpens
<1> QED
  BY <1>2, <1>3, <1>4, <1>5, <1>6, <1>7, <1>8 DEF Next

(* What finish() has written can be opened again, after an error too and     *)
(* whatever failed or was killed before; with the same exception.            *)
THEOREM FinishedAlwaysOpens ==
  ASSUME TailRemoval # "always"
  PROVE  Spec => []FinishedOpens
<1>1. IInv /\ [Next]_vars => IInv'
  BY NextInv
<1>2. IInv /\ OpensInv /\ [Next]_vars => OpensInv'
  BY NextOpens
<1>3. OpensInv => FinishedOpens
  BY DEF OpensInv
<1> QED
  BY <1>1, <1>2, <1>3, InitInv, InitOpens, PTL DEF Spec

-----------------------------------------------------------------------------
(* In-place patching implements GrfStore, when finish() does not fail and    *)
(* nobody kills the patcher.                                                 *)
NoTearing == TailRemoval # "always" /\ Faults \subseteq {"read", "write"}

LEMMA OpenServes ==
  ASSUME IInv, StoreInv, Open
  PROVE  StoreInv'
<1>1. Types /\ InPlaceInv
  BY DEF IInv
<1>2. /\ UNCHANGED <<patch, before, result, shown>> /\ pc = "closed" /\ pc' = "patching"
      /\ result # "ok" /\ header' = header
  BY DEF Open, Attempt, Openable
<1>3. hidden = {} /\ header.hides = {}
  BY DEF StoreInv, HeaderWhole
<1> DEFINE es == entries'
           cl == list'
<1>4. Kept(entries)' /\ ~Malformed(es) /\ hidden' = hidden /\ cl = ListAvailableChunks(es)
  BY <1>1, <1>3, OpenedTable
<1>5. /\ ListInv(cl)
      /\ \A p \in DOMAIN es : Unlisted(cl, es[p]) /\ EndOf(es[p]) <= cl.end
  BY <1>4, OpenedList DEF Kept
<1>6. PairsBacked(cl) /\ \A p \in DOMAIN es : Clear(cl, es[p])
  BY <1>5, ExactIsClear DEF ListInv
<1>7. ListServes'
  BY <1>4, <1>6 DEF ListServes
<1>8. ShownKept' /\ OutcomeFollows' /\ HeaderWhole'
  BY <1>2 DEF StoreInv, ShownKept, OutcomeFollows, HeaderWhole, Touched, Untouched, ImportedPaths
<1> QED
  BY <1>3, <1>4, <1>7, <1>8 DEF StoreInv

(* Steps between two closings that leave what a reader got alone. *)
LEMMA QuietServes ==
  ASSUME IInv, StoreInv, ListServes', UNCHANGED <<patch, before, hidden, header, shown>>,
         pc # "closed", pc' # "closed",
         pc' \in {"dropping", "table"} => result' \in {"ok", "error"}
  PROVE  StoreInv'
BY DEF StoreInv, ShownKept, OutcomeFollows, HeaderWhole, Touched, Untouched, ImportedPaths

LEMMA RemoveServes ==
  ASSUME TailRemoval # "always", IInv, IInv', StoreInv, NEW p \in Path, Remove(p)
  PROVE  StoreInv'
<1>1. /\ UNCHANGED <<patch, before, hidden, header, shown>> /\ pc = "patching" /\ pc' = "patching"
  BY DEF Remove
<1>2. Types /\ InPlaceInv /\ BuilderKeeps /\ RestOfPatch /\ hidden = {} /\ ListServes
  BY <1>1 DEF IInv, InPlaceInv, StoreInv
<1>3. ListServes'
  <2>1. CASE patch.imports # <<>>
    <3>1. ListExact'
      BY <1>1, <2>1, InPlaceAssumption DEF ListExact
    <3>2. ListInv(list')
      BY <1>1, <1>2, <3>1 DEF IInv, PlacedSoFar, Sound
    <3> QED
      BY <1>1, <2>1, <3>2 DEF ListServes, ListInv
  <2>2. CASE patch.imports = <<>>
    <3>1. /\ PairsBacked(list) /\ ~Malformed(entries) /\ Roomy(list)
          /\ \A q \in DOMAIN entries : Clear(list, entries[q]) /\ entries[q] \in Extent
                                       /\ HeaderSize <= entries[q].offset
      BY <1>1, <1>2, <2>2 DEF ListServes, BuilderKeeps, Kept
    <3>2. CASE p \notin DOMAIN entries
      <4>1. UNCHANGED <<entries, list>>
        BY <3>2 DEF Remove
      <4> QED
        BY <3>1, <4>1 DEF ListServes
    <3>3. CASE p \in DOMAIN entries
      <4> DEFINE x == entries[p]
      <4>1. /\ entries' = [q \in DOMAIN entries \ {p} |-> entries[q]]
            /\ list' = FreeChunk(list, x.offset, x.size)
        BY <3>3 DEF Remove
      <4>2. /\ x \in Extent /\ HeaderSize <= x.offset /\ Unlisted(list, x)
            /\ \A q \in DOMAIN entries \ {p} : Disjoint(x, entries[q])
        BY <3>1, <3>3 DEF Clear, Malformed
      <4> HIDE DEF x
      <4>3. /\ PairsBacked(list')
            /\ \A y \in Extent : Clear(list, y) /\ Disjoint(x, y) => Clear(list', y)
        BY <3>1, <4>1, <4>2, FreeChunkBacked, FreeChunkClear
      <4>4. \A q \in DOMAIN entries' : q \in DOMAIN entries \ {p} /\ entries'[q] = entries[q]
        BY <4>1
      <4>5. ~Malformed(entries')
        BY <3>1, <4>4 DEF Malformed
      <4>6. \A q \in DOMAIN entries' : Clear(list', entries'[q])
        BY <3>1, <4>2, <4>3, <4>4
      <4> QED
        BY <4>3, <4>5, <4>6 DEF ListServes
    <3> QED
      BY <3>2, <3>3
  <2> QED
    BY <2>1, <2>2
<1> QED
  BY <1>1, <1>3, QuietServes

(* A patch with contents to import has an exact list. *)
LEMMA ImportServes ==
  ASSUME TailRemoval # "always", IInv, StoreInv, pc \in {"patching", "content"},
         todo.imports # <<>>
  PROVE  /\ hidden = {} /\ ListExact /\ patch.imports # <<>>
         /\ pc = "patching" => Placement.ok /\ PairsBacked(Placement.list)
<1>1. Types /\ InPlaceInv /\ PlacedSoFar /\ RestOfPatch /\ hidden = {}
  BY DEF IInv, InPlaceInv, StoreInv
<1>2. patch.imports # <<>>
  <2>1. Done + 1 \in DOMAIN patch.imports
    BY <1>1, NextImport
  <2> QED
    BY <2>1
<1>3. ListExact
  BY <1>2, InPlaceAssumption DEF ListExact
<1>4. ASSUME pc = "patching" PROVE Placement.ok /\ PairsBacked(Placement.list)
  BY <1>1, <1>3, <1>4, PlacementExact DEF Allocated, ListInv
<1> QED
  BY <1>1, <1>2, <1>3, <1>4

LEMMA BetweenServes ==
  ASSUME NoTearing, IInv, StoreInv,
         \/ StartImport \/ ImportFails \/ WriteByte \/ FinishImport \/ WriteFails
         \/ AllApplied \/ StartTable
  PROVE  StoreInv'
<1> USE DEF builderVars
<1>1. /\ UNCHANGED <<patch, before, hidden, header, shown>> /\ pc # "closed" /\ pc' # "closed"
      /\ ListServes /\ OutcomeFollows /\ InPlaceInv /\ hidden = {}
  BY DEF StartImport, Importing, ImportFails, WriteByte, FinishImport, WriteFails, AllApplied,
         StartTable, StoreInv, IInv
<1>2. pc = "content" => RestOfPatch /\ todo.imports # <<>>
  BY <1>1 DEF InPlaceInv, RestOfPatch
<1>3. pc' \in {"dropping", "table"} => result' \in {"ok", "error"}
  BY <1>1 DEF StartImport, ImportFails, WriteByte, FinishImport, WriteFails, AllApplied,
              StartTable, OutcomeFollows
<1>4. ASSUME StartImport PROVE ListServes'
  BY <1>4, ImportServes DEF StartImport, Importing, ListServes, NoTearing
<1>5. ASSUME ImportFails PROVE ListServes'
  <2>1. patch.imports # <<>> /\ Placement.ok
    BY <1>5, ImportServes DEF ImportFails, Importing, NoTearing
  <2>2. UNCHANGED list /\ patch' = patch /\ pc = "patching"
    BY <1>5, <2>1 DEF ImportFails, Importing
  <2> QED
    BY <1>1, <2>1, <2>2 DEF ListServes
<1>6. ASSUME WriteByte PROVE ListServes'
  BY <1>1, <1>6 DEF WriteByte, ListServes
<1>7. ASSUME FinishImport \/ WriteFails PROVE ListServes'
  <2>1. pc = "content" /\ UNCHANGED <<list, patch>>
    BY <1>7 DEF FinishImport, WriteFails
  <2>2. patch.imports # <<>>
    BY <1>2, <2>1, ImportServes DEF NoTearing
  <2> QED
    BY <1>1, <2>1, <2>2 DEF ListServes
<1>8. ASSUME AllApplied PROVE ListServes'
  BY <1>1, <1>8 DEF AllApplied, ListServes
<1>9. ASSUME StartTable PROVE ListServes'
  BY <1>9 DEF StartTable, ListServes
<1>10. ListServes'
  BY <1>4, <1>5, <1>6, <1>7, <1>8, <1>9
<1> QED
  BY <1>1, <1>3, <1>10, QuietServes

(* ... and what it shows of the files that the patch does not name. *)
LEMMA FirstShown ==
  ASSUME Init
  PROVE  StoreInv /\ TableIsLast
<1>1. /\ entries \in Archives /\ before = entries /\ disk = FirstDisk(entries, header.at)
      /\ pc = "closed" /\ result = "none" /\ hidden = {}
      /\ shown = [files |-> View(disk, header), outcome |-> "none", finished |-> TRUE]
  BY DEF Init
<1>2. /\ header.at \in HeaderSize .. OffsetLimit
      /\ \A p \in DOMAIN entries : Disjoint([offset |-> header.at, size |-> TableSize], entries[p])
  BY FirstHeader
<1>3. \A p \in DOMAIN entries : Content(disk, entries[p]) = Cells("old", p, entries[p].size)
  BY <1>1, <1>2, FirstContents
<1>4. /\ View(disk, header) = [p \in DOMAIN entries |-> Content(disk, entries[p])]
      /\ WholeTable(disk, header) = entries /\ header.hides = {}
  BY FirstTable
<1>5. ShownKept
  BY <1>1, <1>3, <1>4 DEF ShownKept, Untouched
<1>6. HeaderWhole /\ OutcomeFollows /\ ListServes
  BY <1>1, <1>4 DEF HeaderWhole, OutcomeFollows, ListServes
<1>7. TableIsLast
  BY <1>4 DEF TableIsLast
<1> QED
  BY <1>1, <1>5, <1>6, <1>7 DEF StoreInv

(* finish() shows the reader the files that the patch does not name. *)
LEMMA WriteHeaderServes ==
  ASSUME IInv, StoreInv, WriteHeader
  PROVE  StoreInv'
<1>1. /\ UNCHANGED <<patch, before, hidden, disk>> /\ pc = "table" /\ pc' = "closed"
      /\ result' = result
      /\ shown' = [files |-> View(disk', header'), outcome |-> result, finished |-> TRUE]
  BY DEF WriteHeader, Close
<1>2. Types /\ InPlaceInv /\ hidden = {} /\ BuilderKeeps
  BY <1>1 DEF IInv, InPlaceInv, StoreInv
<1>3. /\ View(disk', header') = [p \in DOMAIN entries |-> Content(disk, entries[p])]
      /\ WholeTable(disk', header') = entries /\ header'.hides = {}
  BY <1>2, TableShown
<1>4. /\ Untouched' = Untouched /\ Touched' = Touched
  BY <1>1 DEF Untouched, Touched, ImportedPaths
<1>5. \A p \in Untouched : /\ p \in DOMAIN entries /\ entries[p] = before[p]
                           /\ Content(disk, before[p]) = Cells("old", p, before[p].size)
  BY <1>2 DEF BuilderKeeps, Kept, InPlaceInv, UntouchedOnDisk, Seen
<1>6. DOMAIN entries \ Touched = Untouched
  BY <1>2, <1>5 DEF BuilderKeeps, Kept, Untouched
<1>7. ShownKept'
  BY <1>1, <1>3, <1>4, <1>5, <1>6 DEF ShownKept
<1>8. HeaderWhole' /\ OutcomeFollows' /\ ListServes'
  BY <1>1, <1>3 DEF HeaderWhole, OutcomeFollows, ListServes
<1> QED
  BY <1>1, <1>2, <1>7, <1>8 DEF StoreInv

LEMMA OpenFailsServes ==
  ASSUME StoreInv, OpenFails
  PROVE  StoreInv'
<1>1. /\ UNCHANGED <<patch, before, hidden, disk, header, pc>> /\ pc = "closed"
      /\ shown' = [shown EXCEPT !.outcome = "error"]
  BY DEF OpenFails, Attempt
<1>2. ShownKept /\ HeaderWhole /\ hidden = {}
  BY DEF StoreInv
<1>3. shown' = [files |-> shown.files, outcome |-> "error", finished |-> shown.finished]
  <2> DEFINE f == shown.files
             w == shown.outcome
             g == shown.finished
  <2>1. shown = [files |-> f, outcome |-> w, finished |-> g]
    BY <1>2 DEF ShownKept
  <2> HIDE DEF f, w, g
  <2>2. shown' = [files |-> f, outcome |-> "error", finished |-> g]
    BY <1>1, <2>1
  <2> QED
    BY <2>2 DEF f, g
<1>4. ShownKept'
  BY <1>1, <1>2, <1>3 DEF ShownKept, Untouched, Touched, ImportedPaths
<1>5. HeaderWhole' /\ OutcomeFollows' /\ ListServes'
  BY <1>1, <1>2, <1>3 DEF HeaderWhole, Readable, WholeTable, Read, At, OutcomeFollows, ListServes
<1> QED
  BY <1>1, <1>2, <1>4, <1>5 DEF StoreInv

(* finish() has room for the table. *)
LEMMA NothingTears ==
  ASSUME NoTearing, IInv, StoreInv
  PROVE  ~FinishFails /\ ~Crash
<1>1. "finish" \notin Faults /\ "crash" \notin Faults
  BY DEF NoTearing
<1>2. ASSUME pc = "dropping" PROVE AllocChunk(list, TableSize).ok
  <2>1. PairsBacked(list) /\ Roomy(list)
    BY <1>2 DEF IInv, InPlaceInv, StoreInv, ListServes, BuilderKeeps
  <2> QED
    BY <2>1, AllocChunkServes, InPlaceAssumption
<1> QED
  BY <1>1, <1>2 DEF FinishFails, Crash

LEMMA NextServes ==
  ASSUME NoTearing, IInv, IInv', StoreInv, [Next]_vars
  PROVE  StoreInv'
<1>1. TailRemoval # "always"
  BY DEF NoTearing
<1>2. ASSUME NEW p \in Path, Remove(p) PROVE StoreInv'
  BY <1>1, <1>2, RemoveServes
<1>3. CASE UNCHANGED vars
  <2>1. hidden = {} /\ ListServes /\ HeaderWhole /\ ShownKept /\ OutcomeFollows
    BY DEF StoreInv
  <2>2. ListServes' /\ OutcomeFollows'
    BY <1>3, <2>1 DEF vars, builderVars, ListServes, OutcomeFollows
  <2>3. HeaderWhole'
    BY <1>3, <2>1 DEF vars, HeaderWhole, Readable, WholeTable, Read, At
  <2>4. ShownKept'
    BY <1>3, <2>1 DEF vars, ShownKept, Untouched, Touched, ImportedPaths
  <2> QED
    BY <1>3, <2>1, <2>2, <2>3, <2>4 DEF StoreInv, vars
<1> QED
  BY <1>2, <1>3, OpenServes, OpenFailsServes, BetweenServes, WriteHeaderServes, NothingTears DEF Next

Imported == [p \in ImportedPaths |-> NewContent(p)]

LEMMA StoreInit ==
  ASSUME Types, Init
  PROVE  Store!Init
<1>1. patch.removed \cap ImportedPaths = {}
  BY PatchFacts DEF ImportedPaths
<1>2. DOMAIN Imported = ImportedPaths
  BY DEF Imported
<1>3. shown.outcome = "none"
  BY DEF Init
<1> QED
  BY <1>1, <1>2, <1>3 DEF Store!Init, Imported

(* A reader finds a patch that returned Ok applied as a whole. *)
LEMMA ClosedWell ==
  ASSUME NoTearing, IInv, StoreInv, WriteHeader, result = "ok"
  PROVE  Store!Succeed
<1>1. Types /\ InPlaceInv /\ PlacedSoFar /\ hidden = {} /\ ShownKept /\ OutcomeFollows
  BY DEF IInv, StoreInv
<1>2. /\ patch' = patch /\ pc = "table"
      /\ shown'.files = View(disk', header') /\ shown'.outcome = "ok"
  BY DEF WriteHeader, Close
<1>3. shown.outcome # "ok"
  BY <1>1, <1>2 DEF OutcomeFollows
<1> DEFINE D == (DOMAIN before \ patch.removed) \cup ImportedPaths
<1>4. shown'.files = [p \in D |-> IF p \in ImportedPaths THEN NewContent(p)
                                  ELSE Cells("old", p, before[p].size)]
  <2> DEFINE f == View(disk', header')
  <2>1. AsPatched(f)
    BY <1>1, WriteHeaderPatched DEF NoTearing
  <2>2. f = [p \in DOMAIN f |-> f[p]]
    BY <1>1, TableShown
  <2>3. Seen = Untouched
    BY <1>1 DEF Seen
  <2> HIDE DEF f
  <2>4. /\ DOMAIN f = D /\ \A p \in ImportedPaths : f[p] = NewContent(p)
        /\ \A p \in D \ ImportedPaths : f[p] = Cells("old", p, before[p].size)
    BY <2>1, <2>3 DEF AsPatched, Untouched, Touched
  <2>5. f = [p \in D |-> IF p \in ImportedPaths THEN NewContent(p)
                         ELSE Cells("old", p, before[p].size)]
    BY <2>2, <2>4
  <2> QED
    BY <1>2, <2>5 DEF f
<1>5. /\ DOMAIN shown.files \ Touched = Untouched
      /\ \A p \in Untouched : shown.files[p] = Cells("old", p, before[p].size)
  BY <1>1 DEF ShownKept
<1>6. D = (DOMAIN shown.files \ patch.removed) \cup ImportedPaths
  BY <1>5 DEF Untouched, Touched
<1>7. ASSUME NEW p \in D \ ImportedPaths
      PROVE  shown.files[p] = Cells("old", p, before[p].size)
  BY <1>5, <1>7 DEF Untouched, Touched
<1>8. DOMAIN Imported = ImportedPaths /\ \A p \in ImportedPaths : Imported[p] = NewContent(p)
  BY DEF Imported
<1>9. /\ (Imported)' = Imported
  BY <1>2 DEF Imported, ImportedPaths, NewContent
<1> HIDE DEF Imported
<1>10. shown'.files = [p \in D |-> IF p \in DOMAIN Imported THEN Imported[p] ELSE shown.files[p]]
  BY <1>4, <1>7, <1>8
<1>11. shown'.files = [p \in (DOMAIN shown.files \ patch.removed) \cup DOMAIN Imported |->
                         IF p \in DOMAIN Imported THEN Imported[p] ELSE shown.files[p]]
  BY <1>6, <1>8, <1>10
<1> QED
  BY <1>2, <1>3, <1>9, <1>11 DEF Store!Succeed, Store!Patched, Imported

(* Otherwise the reader finds the other files as they were. *)
LEMMA ClosedBadly ==
  ASSUME StoreInv, StoreInv', UNCHANGED <<patch, before>>,
         shown.outcome # "ok", shown'.outcome = "error"
  PROVE  Store!Fail
<1>1. /\ Untouched' = Untouched /\ Touched' = Touched /\ (Imported)' = Imported
  BY DEF Untouched, Touched, Imported, ImportedPaths, NewContent
<1>2. /\ DOMAIN shown.files \ Touched = DOMAIN shown'.files \ Touched
      /\ \A p \in DOMAIN shown.files \ Touched : shown.files[p] = shown'.files[p]
  BY <1>1 DEF StoreInv, ShownKept
<1>3. Touched = patch.removed \cup DOMAIN Imported
  BY DEF Touched, Imported
<1> QED
  BY <1>1, <1>2, <1>3 DEF Store!Fail, Store!SameUntouched, Store!Touched, Imported

LEMMA StoreNext ==
  ASSUME NoTearing, IInv, StoreInv, StoreInv', [Next]_vars
  PROVE  [Store!Succeed \/ Store!Fail]_<<patch.removed, Imported, shown.files, shown.outcome>>
<1>1. CASE WriteHeader
  <2>1. UNCHANGED <<patch, before>> /\ pc = "table" /\ shown'.outcome = result
    BY <1>1 DEF WriteHeader, Close
  <2>2. result \in {"ok", "error"} /\ shown.outcome # "ok"
    BY <2>1 DEF StoreInv, OutcomeFollows
  <2> QED
    BY <1>1, <2>1, <2>2, ClosedWell, ClosedBadly
<1>2. CASE OpenFails
  <2>1. /\ UNCHANGED <<patch, before>> /\ result # "ok"
        /\ shown' = [shown EXCEPT !.outcome = "error"]
    BY <1>2 DEF OpenFails, Attempt
  <2>2. shown.outcome # "ok" /\ ShownKept
    BY <2>1 DEF StoreInv, OutcomeFollows
  <2>3. shown'.outcome = "error"
    BY <2>1, <2>2 DEF ShownKept
  <2> QED
    BY <2>1, <2>2, <2>3, ClosedBadly
<1>3. CASE UNCHANGED <<patch, shown>>
  BY <1>3 DEF Imported, ImportedPaths, NewContent
<1>4. ASSUME NEW p \in Path, Remove(p) PROVE UNCHANGED <<patch, shown>>
  BY <1>4 DEF Remove
<1>5. CASE Open \/ StartImport \/ ImportFails \/ WriteByte \/ FinishImport \/ WriteFails
           \/ AllApplied \/ StartTable \/ UNCHANGED vars
  BY <1>3, <1>5 DEF Open, StartImport, ImportFails, WriteByte, FinishImport, WriteFails,
                    AllApplied, StartTable, vars
<1> QED
  BY <1>1, <1>2, <1>3, <1>4, <1>5, NothingTears DEF Next

(* To the patcher, patching in place is one step that applies the whole      *)
(* patch, or one that leaves the files it does not name as they were, as     *)
(* long as finish() does not fail and nobody kills the process.              *)
THEOREM InPlaceImplementsStore ==
  ASSUME NoTearing
  PROVE  Spec => StoreSpec
<1>1. Init => IInv /\ StoreInv /\ Store!Init
  BY InitInv, FirstShown, StoreInit DEF IInv
<1>2. IInv /\ [Next]_vars => IInv'
  BY NextInv DEF NoTearing
<1>3. IInv /\ IInv' /\ StoreInv /\ [Next]_vars => StoreInv'
  BY NextServes
<1>4. IInv /\ StoreInv /\ StoreInv' /\ [Next]_vars =>
        [Store!Succeed \/ Store!Fail]_<<patch.removed, Imported, shown.files, shown.outcome>>
  BY StoreNext
<1> QED
  BY <1>1, <1>2, <1>3, <1>4, PTL DEF Spec, StoreSpec, Store!Spec, Imported

(* Then nothing is ever hidden, and every file that the patch does not name  *)
(* stays on disk through all attempts.                                       *)
THEOREM OldContentsStay ==
  ASSUME NoTearing
  PROVE  Spec => []OldContentsOnDisk
<1>1. Init => IInv /\ StoreInv
  BY InitInv, FirstShown
<1>2. IInv /\ [Next]_vars => IInv'
  BY NextInv DEF NoTearing
<1>3. IInv /\ IInv' /\ StoreInv /\ [Next]_vars => StoreInv'
  BY NextServes
<1>4. IInv /\ StoreInv => OldContentsOnDisk
  BY NothingHidden DEF IInv, InPlaceInv, StoreInv
<1> QED
  BY <1>1, <1>2, <1>3, <1>4, PTL DEF Spec

-----------------------------------------------------------------------------
(* The instance of ChunkAlloc has the operators of ChunkList. *)
LEMMA SameLists ==
  /\ \A cl, es, p, n : Space!PlaceEntry(cl, es, p, n) = PlaceEntry(cl, es, p, n)
  /\ \A cl, n : Space!AllocChunk(cl, n) = AllocChunk(cl, n)
  /\ \A cl, o, n : Space!FreeChunk(cl, o, n) = FreeChunk(cl, o, n)
<1>1. \A x : Space!EndOf(x) = EndOf(x)
  BY DEF EndOf, Space!EndOf
<1>2. /\ \A cl, o, n : Space!InsertChunk(cl, o, n) = InsertChunk(cl, o, n)
      /\ \A cl, o : Space!RemoveChunk(cl, o) = RemoveChunk(cl, o)
  BY DEF InsertChunk, RemoveChunk, Space!InsertChunk, Space!RemoveChunk
<1>3. /\ \A o, cl : Space!Success(o, cl) = Success(o, cl)
      /\ \A o, cl : Space!Failure(o, cl) = Failure(o, cl)
  BY DEF Success, Failure, Space!Success, Space!Failure
<1>4. \A cl, n : Space!FindSuitableChunk(cl, n) = FindSuitableChunk(cl, n)
  <2> SUFFICES ASSUME NEW cl, NEW n
               PROVE  Space!FindSuitableChunk(cl, n) = FindSuitableChunk(cl, n)
    OBVIOUS
  <2> DEFINE First(F) ==
               CHOOSE t \in F : \A u \in F : t[1] < u[1] \/ (t[1] = u[1] /\ t[2] <= u[2])
  <2>1. Space!Fits(cl, n) = Fits(cl, n)
    BY DEF Fits, Space!Fits
  <2>2. FindSuitableChunk(cl, n) =
          IF Fits(cl, n) = {} THEN cl.end ELSE First(Fits(cl, n))[2]
    BY DEF FindSuitableChunk
  <2>3. Space!FindSuitableChunk(cl, n) =
          IF Space!Fits(cl, n) = {} THEN cl.end ELSE First(Space!Fits(cl, n))[2]
    BY DEF Space!FindSuitableChunk
  <2> HIDE DEF First
  <2> QED
    BY <2>1, <2>2, <2>3
<1>5. \A cl, n : Space!AllocChunk(cl, n) = AllocChunk(cl, n)
  <2>1. \A cl, o, n : Space!AllocAt(cl, o, n) = AllocAt(cl, o, n)
    BY <1>2, <1>3 DEF AllocAt, Space!AllocAt
  <2> QED
    BY <1>4, <2>1 DEF AllocChunk, Space!AllocChunk
<1>6. \A cl, o, n : Space!FreeChunk(cl, o, n) = FreeChunk(cl, o, n)
  <2>1. \A cl, x : Space!ReleaseMerged(cl, x) = ReleaseMerged(cl, x)
    BY <1>1, <1>2 DEF ReleaseMerged, Space!ReleaseMerged
  <2> SUFFICES ASSUME NEW cl, NEW o, NEW n
               PROVE  Space!FreeChunk(cl, o, n) = FreeChunk(cl, o, n)
    OBVIOUS
  <2> DEFINE Some(F) == CHOOSE l \in F : TRUE
  <2>2. Space!LeftNeighbours(cl, o) = LeftNeighbours(cl, o)
    BY DEF LeftNeighbours, Space!LeftNeighbours
  <2>3. FreeChunk(cl, o, n) =
          LET l == Some(LeftNeighbours(cl, o))
          IN  IF LeftNeighbours(cl, o) = {}
              THEN ReleaseMerged(cl, [offset |-> o, size |-> n])
              ELSE ReleaseMerged(RemoveChunk(cl, l), [offset |-> l, size |-> n + cl.chunks[l]])
    BY DEF FreeChunk
  <2>4. Space!FreeChunk(cl, o, n) =
          LET l == Some(Space!LeftNeighbours(cl, o))
          IN  IF Space!LeftNeighbours(cl, o) = {}
              THEN Space!ReleaseMerged(cl, [offset |-> o, size |-> n])
              ELSE Space!ReleaseMerged(Space!RemoveChunk(cl, l),
                                       [offset |-> l, size |-> n + cl.chunks[l]])
    BY DEF Space!FreeChunk
  <2> HIDE DEF Some
  <2> QED
    BY <1>2, <2>1, <2>2, <2>3, <2>4
<1>7. \A cl, o, s, n : Space!ReallocChunk(cl, o, s, n) = ReallocChunk(cl, o, s, n)
  BY <1>2, <1>3, <1>5, <1>6 DEF ReallocChunk, Space!ReallocChunk
<1>8. \A cl, es, p, n : Space!PlaceEntry(cl, es, p, n) = PlaceEntry(cl, es, p, n)
  BY <1>5, <1>7 DEF PlaceEntry, Space!PlaceEntry
<1> QED
  BY <1>5, <1>6, <1>8

LEMMA SameTables ==
  /\ \A x, y : Space!Disjoint(x, y) <=> Disjoint(x, y)
  /\ \A es : Space!Malformed(es) <=> Malformed(es)
  /\ \A es : Space!ListAvailableChunks(es) = ListAvailableChunks(es)
  /\ Space!EmptyList = EmptyList
<1>1. \A x : Space!EndOf(x) = EndOf(x)
  BY DEF EndOf, Space!EndOf
<1>2. \A x, y : Space!Disjoint(x, y) <=> Disjoint(x, y)
  BY <1>1 DEF Disjoint, Space!Disjoint
<1>3. \A es : Space!Malformed(es) <=> Malformed(es)
  BY <1>2 DEF Malformed, Space!Malformed
<1>4. Space!EmptyList = EmptyList
  BY DEF EmptyList, Space!EmptyList
<1>5. /\ \A es : Space!Ends(es) = Ends(es)
      /\ \A es : Space!Starts(es) = Starts(es)
  BY <1>1 DEF Ends, Starts, Space!Ends, Space!Starts
<1>6. \A es : Space!LastEnd(es) = LastEnd(es)
  BY <1>5 DEF LastEnd, Space!LastEnd
<1>7. \A es, x : Space!Gap(es, x) = Gap(es, x)
  <2>1. \A es, x : Space!NextStart(es, x) = NextStart(es, x)
    BY <1>5 DEF NextStart, Space!NextStart
  <2> QED
    BY <2>1 DEF Gap, Space!Gap
<1>8. \A es : Space!ListAvailableChunks(es) = ListAvailableChunks(es)
  BY <1>4, <1>5, <1>6, <1>7 DEF ListAvailableChunks, Space!ListAvailableChunks
<1> QED
  BY <1>2, <1>3, <1>4, <1>8

-----------------------------------------------------------------------------
(* The attempts drive the space of the archive as ChunkAlloc has it, when no *)
(* patch removes the last entry, only reads fail and the bound is kept.      *)
OnlyReadsFail ==
  TailRemoval = "never" /\ Faults \subseteq {"read"} /\ OffsetLimit <= SpaceLimit
Bounded == list.end <= SpaceLimit

LEMMA ReadsTearNothing == OnlyReadsFail => NoTearing
BY DEF OnlyReadsFail, NoTearing

LEMMA NextTable ==
  ASSUME NoTearing, IInv, StoreInv, TableIsLast, [Next]_vars
  PROVE  TableIsLast'
<1> SUFFICES ASSUME pc' = "closed", Readable(disk, header)'
             PROVE  WholeTable(disk', header') = entries'
  BY DEF TableIsLast
<1>1. Types /\ InPlaceInv /\ hidden = {}
  BY DEF IInv, StoreInv
<1>2. CASE WriteHeader
  <2>1. entries' = entries
    BY <1>2 DEF WriteHeader
  <2> QED
    BY <1>1, <1>2, <2>1, TableShown
<1>3. CASE OpenFails \/ UNCHANGED vars
  <2>1. UNCHANGED <<disk, header, entries, pc>>
    BY <1>3 DEF OpenFails, vars, builderVars
  <2> QED
    BY <2>1 DEF TableIsLast, Readable, WholeTable, Read, At
<1>4. ASSUME NEW p \in Path, Remove(p) PROVE FALSE
  BY <1>4 DEF Remove
<1>5. CASE Open \/ StartImport \/ ImportFails \/ WriteByte \/ FinishImport \/ WriteFails
           \/ AllApplied \/ StartTable
  BY <1>5 DEF Open, StartImport, ImportFails, WriteByte, FinishImport, WriteFails, AllApplied,
              StartTable
<1> QED
  BY <1>2, <1>3, <1>4, <1>5, NothingTears DEF Next

SpaceStatus == IF pc \in {"closed", "table"} THEN "closed" ELSE "open"
SpaceVars == <<Placed, list, TableExtent, SpaceStatus>>

LEMMA SpaceInit ==
  ASSUME OnlyReadsFail, Init
  PROVE  Space!Init
<1>1. /\ entries \in Archives /\ list = EmptyList /\ pc = "closed"
      /\ Placed = entries
      /\ TableExtent = [offset |-> header.at, size |-> TableSize]
      /\ SpaceStatus = "closed"
  BY DEF Init, Placed, TableExtent, SpaceStatus
<1>2. /\ header.at \in HeaderSize .. OffsetLimit
      /\ \A p \in DOMAIN entries : Disjoint([offset |-> header.at, size |-> TableSize], entries[p])
  BY FirstHeader
<1>3. header.at \in HeaderSize .. SpaceLimit
  BY <1>2, HeaderSizeAssumption, InPlaceAssumption DEF OnlyReadsFail, SpaceLimit
<1>4. TableExtent \in [offset : HeaderSize .. SpaceLimit, size : {TableSize}]
  BY <1>1, <1>3
<1>5. Space!TableFits(TableExtent)
  BY <1>1, <1>2, SameTables, HeaderSizeAssumption, InPlaceAssumption DEF Space!TableFits
<1> QED
  BY <1>1, <1>4, <1>5, SameTables DEF Space!Init, SpaceStatus

LEMMA SpaceOpen ==
  ASSUME NoTearing, IInv, StoreInv, TableIsLast, Open
  PROVE  Space!Open
<1>1. /\ pc = "closed" /\ pc' = "patching" /\ header' = header /\ Readable(disk, header)
  BY DEF Open, Attempt, Openable
<1>2. Types /\ InPlaceInv /\ header.hides = {}
  BY <1>1 DEF IInv, StoreInv, HeaderWhole
<1>3. /\ ~Malformed(entries') /\ list' = ListAvailableChunks(entries')
      /\ entries' = entries
  BY <1>1, <1>2, OpenedTable DEF TableIsLast
<1>4. /\ Placed = entries /\ Placed' = entries'
      /\ TableExtent = [offset |-> header.at, size |-> TableSize] /\ TableExtent' = TableExtent
      /\ SpaceStatus = "closed" /\ SpaceStatus' = "open"
  BY <1>1 DEF Placed, TableExtent, SpaceStatus
<1> QED
  BY <1>3, <1>4, SameTables DEF Space!Open, SpaceStatus

LEMMA SpaceRemove ==
  ASSUME OnlyReadsFail, NEW p \in Path, Remove(p)
  PROVE  Space!RemoveInner(p) \/ UNCHANGED SpaceVars
<1>1. /\ UNCHANGED <<header, pc>> /\ pc = "patching"
      /\ Placed = entries /\ Placed' = entries'
      /\ TableExtent' = TableExtent
      /\ SpaceStatus = "open" /\ SpaceStatus' = "open"
  BY DEF Remove, Placed, TableExtent, SpaceStatus
<1>2. CASE p \notin DOMAIN entries
  BY <1>1, <1>2 DEF Remove, SpaceVars
<1>3. CASE p \in DOMAIN entries
  <2>1. /\ entries' = [q \in DOMAIN entries \ {p} |-> entries[q]]
        /\ list' = FreeChunk(list, entries[p].offset, entries[p].size)
        /\ EndOf(entries[p]) # list.end
    BY <1>3 DEF Remove, Removable, OnlyReadsFail, IsTail
  <2>2. Space!EndOf(entries[p]) = EndOf(entries[p])
    BY DEF EndOf, Space!EndOf
  <2> QED
    BY <1>1, <1>3, <2>1, <2>2, SameLists DEF Space!RemoveInner, Space!RemoveFile, Space!IsTail, SpaceStatus
<1> QED
  BY <1>2, <1>3

LEMMA SpaceImport ==
  ASSUME OnlyReadsFail, IInv, StoreInv, Bounded', StartImport
  PROVE  \E p \in Path : \E n \in {m[2] : m \in UNION {{pt.imports[i] : i \in DOMAIN pt.imports} : pt \in Patches}} :
           Space!Import(p, n)
<1> DEFINE p == Next1[1]
           n == Next1[2]
           Ns == {m[2] : m \in UNION {{pt.imports[i] : i \in DOMAIN pt.imports} : pt \in Patches}}
<1>1. /\ UNCHANGED <<header, entries, todo>> /\ pc = "patching" /\ pc' = "content"
      /\ todo.imports # <<>> /\ Placement.ok /\ list' = Placement.list
      /\ Types /\ InPlaceInv /\ PlacedSoFar /\ hidden = {} /\ RestOfPatch
  BY DEF StartImport, Importing, IInv, InPlaceInv, StoreInv
<1>2. p \in Path /\ n \in Ns
  <2>1. p \in Path /\ Done + 1 \in DOMAIN patch.imports /\ Next1 = patch.imports[Done + 1]
    BY <1>1, NextImport
  <2> QED
    BY <1>1, <2>1 DEF Types
<1>3. Placement.offset \in Nat
  BY <1>1, PlacementExact DEF OnlyReadsFail, ListExact, Allocated
<1>4. Target' = [offset |-> Placement.offset, size |-> n]
  BY <1>1, <1>3, ImportTarget
<1>5. Placed' = [q \in DOMAIN entries \cup {p} |->
                   IF q = p THEN [offset |-> Placement.offset, size |-> n] ELSE entries[q]]
  BY <1>1, <1>4 DEF Placed, Target, Item, Next1
<1>6. /\ Placed = entries /\ TableExtent' = TableExtent
      /\ SpaceStatus = "open" /\ SpaceStatus' = "open"
  BY <1>1 DEF Placed, TableExtent, SpaceStatus
<1>7. Space!Placement(p, n) = Placement
  BY <1>6, SameLists DEF Space!Placement, Placement
<1> HIDE DEF p, n, Ns
<1>8. Space!Import(p, n)
  BY <1>1, <1>5, <1>6, <1>7 DEF Space!Import, Bounded, SpaceStatus
<1> QED
  BY <1>2, <1>8 DEF Ns

LEMMA SpaceFinish ==
  ASSUME IInv, StoreInv, StartTable
  PROVE  Space!Finish(TableSize)
<1> DEFINE r == AllocChunk(list, TableSize)
<1>1. /\ UNCHANGED <<header, entries>> /\ pc = "dropping" /\ pc' = "table"
      /\ r.ok /\ list' = r.list
  BY DEF StartTable
<1>2. r.offset \in Nat
  BY <1>1, AllocChunkClear, InPlaceAssumption DEF IInv, StoreInv, InPlaceInv, BuilderKeeps, LooseRoom
<1>3. Target' = [offset |-> r.offset, size |-> TableSize]
  BY <1>2, TableTarget
<1>4. TableExtent' = [offset |-> r.offset, size |-> TableSize]
  BY <1>1, <1>3 DEF TableExtent, Target, Item
<1>5. /\ Placed' = Placed /\ SpaceStatus = "open" /\ SpaceStatus' = "closed"
  BY <1>1 DEF Placed, SpaceStatus
<1>6. Space!AllocChunk(list, TableSize) = r
  BY SameLists
<1> QED
  BY <1>1, <1>4, <1>5, <1>6 DEF Space!Finish, SpaceStatus

(* What happens between two placements is no step of the space. *)
LEMMA SpaceQuiet ==
  ASSUME OnlyReadsFail, IInv, StoreInv,
         \/ OpenFails \/ ImportFails \/ WriteByte \/ FinishImport \/ AllApplied
         \/ WriteHeader \/ UNCHANGED vars
  PROVE  UNCHANGED SpaceVars
<1> USE DEF builderVars
<1>1. Types /\ InPlaceInv /\ PlacedSoFar /\ hidden = {}
  BY DEF IInv, StoreInv
<1>2. CASE OpenFails \/ AllApplied \/ UNCHANGED vars
  <2>1. /\ UNCHANGED <<header, entries, list, todo, write>>
        /\ pc' = pc \/ (pc = "patching" /\ pc' = "dropping")
    BY <1>2 DEF OpenFails, AllApplied, vars
  <2> QED
    BY <2>1 DEF SpaceVars, Placed, TableExtent, SpaceStatus, Next1
<1>3. CASE ImportFails
  <2>1. Placement.ok
    BY <1>3, ImportServes DEF ImportFails, Importing, OnlyReadsFail
  <2>2. UNCHANGED <<header, entries, list>> /\ pc = "patching" /\ pc' = "dropping"
    BY <1>3, <2>1 DEF ImportFails, Importing
  <2> QED
    BY <2>2 DEF SpaceVars, Placed, TableExtent, SpaceStatus
<1>4. CASE WriteByte
  <2>1. UNCHANGED <<header, entries, list, todo, pc>> /\ pc \in {"content", "table"}
    BY <1>4 DEF WriteByte
  <2>2. Target' = Target
    BY <1>1, <1>4, WriteByteFacts
  <2>3. Item' = Item
    BY <2>1 DEF Item, Next1
  <2>4. Placed = IF pc = "content"
                 THEN [q \in DOMAIN entries \cup {Next1[1]} |->
                         IF q = Next1[1] THEN Target ELSE entries[q]]
                 ELSE entries
    BY DEF Placed, Target, Item
  <2>5. Placed' = IF pc = "content"
                  THEN [q \in DOMAIN entries \cup {Next1[1]} |->
                          IF q = Next1[1] THEN Target' ELSE entries[q]]
                  ELSE entries
    BY <2>1 DEF Placed, Target, Item, Next1
  <2>6. TableExtent = IF pc = "table" THEN Target ELSE [offset |-> header.at, size |-> TableSize]
    BY <2>1 DEF TableExtent, Target, Item
  <2>7. TableExtent' = IF pc = "table" THEN Target' ELSE [offset |-> header.at, size |-> TableSize]
    BY <2>1 DEF TableExtent, Target, Item
  <2> QED
    BY <2>1, <2>2, <2>4, <2>5, <2>6, <2>7 DEF SpaceVars, SpaceStatus
<1>5. CASE FinishImport
  <2>1. UNCHANGED <<header, list>> /\ pc = "content" /\ pc' = "patching"
    BY <1>5 DEF FinishImport
  <2>2. entries' = [q \in DOMAIN entries \cup {Next1[1]} |->
                      IF q = Next1[1] THEN Target ELSE entries[q]]
    BY <1>1, <1>5, FinishImportFacts
  <2>3. Placed' = Placed
    BY <2>1, <2>2 DEF Placed, Target, Item
  <2> QED
    BY <2>1, <2>3 DEF SpaceVars, TableExtent, SpaceStatus
<1>6. CASE WriteHeader
  <2>1. /\ UNCHANGED <<entries, list>> /\ pc = "table" /\ pc' = "closed"
        /\ write.cells = <<>> /\ header' = Header(write.at - TableSize, entries)
    BY <1>6 DEF WriteHeader, Close
  <2>2. Target.offset \in Nat /\ write.at = Target.offset + TableSize
    BY <1>1, <2>1, ItemFacts, Written DEF Item
  <2>3. header'.at = Target.offset
    BY <2>1, <2>2, InPlaceAssumption DEF Header
  <2>4. TableExtent = Target /\ Target.size = TableSize
    BY <2>1 DEF TableExtent, Target, Item
  <2>5. TableExtent' = [offset |-> Target.offset, size |-> TableSize]
    BY <2>1, <2>3 DEF TableExtent
  <2>6. TableExtent = [offset |-> Target.offset, size |-> TableSize]
    BY <2>4 DEF Target
  <2>7. Placed' = Placed /\ SpaceStatus' = SpaceStatus
    BY <2>1 DEF Placed, SpaceStatus
  <2> QED
    BY <2>1, <2>5, <2>6, <2>7 DEF SpaceVars
<1> QED
  BY <1>2, <1>3, <1>4, <1>5, <1>6

LEMMA SpaceNext ==
  ASSUME OnlyReadsFail, IInv, StoreInv, TableIsLast, Bounded', [Next]_vars
  PROVE  [Space!NextKeepTail]_SpaceVars
<1>1. NoTearing /\ "write" \notin Faults
  BY ReadsTearNothing DEF OnlyReadsFail
<1>2. ASSUME NEW p \in Path, Remove(p) PROVE [Space!NextKeepTail]_SpaceVars
  BY <1>2, SpaceRemove DEF Space!NextKeepTail
<1>3. ~WriteFails
  BY <1>1 DEF WriteFails
<1>4. CASE StartImport
  BY <1>4, SpaceImport DEF Space!NextKeepTail, Space!NextWithoutRemoval
<1>5. CASE StartTable
  BY <1>5, SpaceFinish DEF Space!NextKeepTail, Space!NextWithoutRemoval
<1>6. CASE Open
  BY <1>1, <1>6, SpaceOpen DEF Space!NextKeepTail, Space!NextWithoutRemoval
<1> QED
  BY <1>1, <1>2, <1>3, <1>4, <1>5, <1>6, SpaceQuiet, NothingTears DEF Next

(* Below the bound, patching in place takes the steps of ChunkAlloc, so what *)
(* is proved of an archive's space holds of it, when only reads fail and no  *)
(* patch removes the last entry.                                             *)
THEOREM InPlaceImplementsSpace ==
  ASSUME OnlyReadsFail
  PROVE  Spec /\ []Bounded => SpaceSpec
<1>1. Init => IInv /\ StoreInv /\ TableIsLast /\ Space!Init
  BY InitInv, FirstShown, SpaceInit
<1>2. IInv /\ [Next]_vars => IInv'
  BY NextInv DEF OnlyReadsFail
<1>3. IInv /\ IInv' /\ StoreInv /\ [Next]_vars => StoreInv'
  BY NextServes, ReadsTearNothing
<1>4. IInv /\ StoreInv /\ TableIsLast /\ [Next]_vars => TableIsLast'
  BY NextTable, ReadsTearNothing
<1>5. IInv /\ StoreInv /\ TableIsLast /\ Bounded' /\ [Next]_vars => [Space!NextKeepTail]_SpaceVars
  BY SpaceNext
<1>6. SpaceVars = Space!vars
  BY DEF SpaceVars, Space!vars, SpaceStatus
<1> QED
  BY <1>1, <1>2, <1>3, <1>4, <1>5, <1>6, PTL DEF Spec, SpaceSpec, Space!SpecKeepTail, SpaceVars, SpaceStatus, Space!vars
=============================================================================
