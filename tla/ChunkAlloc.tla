----------------------------- MODULE ChunkAlloc -----------------------------
(***************************************************************************)
(* The space of one GRF archive across in-place patches: the entry table   *)
(* of a GrfArchiveBuilder (gruf/src/grf/builder.rs) and the free-space     *)
(* list it allocates from (ChunkList).                                     *)
(*                                                                         *)
(* The archive is opened, entries are imported and removed in any order,   *)
(* the table is written by finish() and the archive can be opened again.   *)
(* Offsets and sizes are kept, the bytes are not (GrfInPlace has them).    *)
(***************************************************************************)
EXTENDS ChunkList

CONSTANTS
  Path,          \* relative paths of the entries
  ContentSizes,  \* compressed sizes a content may have
  TableSizes,    \* sizes the serialized file table may have
  OffsetLimit,   \* bound: no extent ends after it (u32 offsets in the table)
  Archives       \* the tables of the archives that may be on disk at first

(* A table whose extents share no byte, between the header and the bound. *)
WellFormed(es) ==
  /\ DOMAIN es \subseteq Path
  /\ \A p \in DOMAIN es : es[p] \in Extent
  /\ es = [p \in DOMAIN es |-> es[p]]
  /\ \A p \in DOMAIN es : HeaderSize <= es[p].offset /\ EndOf(es[p]) <= OffsetLimit
  /\ ~Malformed(es)

(* Contents are compressed with zlib by every writer of this repository, so *)
(* no content is empty, but for one that is left out: an empty file that an  *)
(* archive rebuilt from a backup enters with a size and no bytes             *)
(* (import_raw_entry_from_grf).  A table is preceded by its two sizes.       *)
ASSUME SizesAssumption ==
  /\ ContentSizes \subseteq Nat \ {0}
  /\ TableSizes \subseteq Nat \ {0}
  /\ OffsetLimit \in Nat

ASSUME ArchivesAssumption == \A es \in Archives : WellFormed(es)

VARIABLES
  entries,   \* GrfArchiveBuilder::entries: path -> extent
  list,      \* GrfArchiveBuilder::chunks
  table,     \* extent of the table that was written last
  status     \* "closed", "open", or "failed" after a DynAllocError

vars == <<entries, list, table, status>>

(* A place for a table: past the header and over no entry. *)
TableFits(x) ==
  HeaderSize <= x.offset /\ \A p \in DOMAIN entries : Disjoint(x, entries[p])

Init ==
  /\ entries \in Archives
  /\ list = EmptyList
  /\ table \in {x \in [offset : HeaderSize .. OffsetLimit, size : TableSizes] : TableFits(x)}
  /\ status = "closed"

-----------------------------------------------------------------------------
(* GrfArchiveBuilder::open: overlapping entries are refused ("malformed"). *)
Open ==
  /\ status = "closed"
  /\ ~Malformed(entries)
  /\ list' = ListAvailableChunks(entries)
  /\ status' = "open"
  /\ UNCHANGED <<entries, table>>

Placement(p, n) == PlaceEntry(list, entries, p, n)

(* import_raw_entry_from_thor and add_file; the bound stands for u32 offsets. *)
(* When the list refuses, `?` propagates and the entries are kept.            *)
Import(p, n) ==
  /\ status = "open"
  /\ list' = Placement(p, n).list
  /\ IF Placement(p, n).ok
     THEN /\ list'.end <= OffsetLimit
          /\ entries' = [q \in DOMAIN entries \cup {p} |->
                           IF q = p THEN [offset |-> Placement(p, n).offset, size |-> n]
                                    ELSE entries[q]]
          /\ UNCHANGED status
     ELSE status' = "failed" /\ UNCHANGED entries
  /\ UNCHANGED table

(* remove_file of a path the table has; for another path nothing happens. *)
RemoveFile(p) ==
  /\ status = "open"
  /\ p \in DOMAIN entries
  /\ entries' = [q \in DOMAIN entries \ {p} |-> entries[q]]
  /\ list' = FreeChunk(list, entries[p].offset, entries[p].size)
  /\ UNCHANGED <<table, status>>

(* finish(), called explicitly or by Drop, with write_grf_table_200: the    *)
(* table takes a chunk like any content.  A refusal is dropped by Drop.     *)
Finish(n) ==
  /\ status \in {"open", "failed"}
  /\ list' = AllocChunk(list, n).list
  /\ table' = IF AllocChunk(list, n).ok
              THEN [offset |-> AllocChunk(list, n).offset, size |-> n]
              ELSE table
  /\ status' = "closed"
  /\ UNCHANGED entries

(* The entry at the end of the data area. *)
IsTail(p) == EndOf(entries[p]) = list.end

NextWithoutRemoval ==
  \/ Open
  \/ \E p \in Path, n \in ContentSizes : Import(p, n)
  \/ \E n \in TableSizes : Finish(n)

(* Patches that remove any entry. *)
Next == NextWithoutRemoval \/ \E p \in Path : RemoveFile(p)

(* Patches that never remove the entry at the end of the data area. *)
RemoveInner(p) == RemoveFile(p) /\ ~IsTail(p)
NextKeepTail == NextWithoutRemoval \/ \E p \in Path : RemoveInner(p)

Spec == Init /\ [][Next]_vars
SpecKeepTail == Init /\ [][NextKeepTail]_vars

-----------------------------------------------------------------------------
TypeOK ==
  /\ DOMAIN entries \subseteq Path
  /\ entries \in [DOMAIN entries -> Extent]
  /\ \A p \in DOMAIN entries : EndOf(entries[p]) <= OffsetLimit
  /\ ListType(list)
  /\ table \in [offset : Nat, size : Nat]
  /\ status \in {"closed", "open", "failed"}

(* An import never writes over the content of another entry: two entries of  *)
(* the table never share a byte, whatever was imported, moved and removed    *)
(* before and however often the archive was reopened.                        *)
EntriesDisjoint ==
  \A p, q \in DOMAIN entries : p # q => Disjoint(entries[p], entries[q])

(* finish() writes the table over no entry and not over the header, and no   *)
(* entry lies in the header.                                                 *)
TableDisjoint ==
  /\ \A p \in DOMAIN entries : HeaderSize <= entries[p].offset
  /\ status = "closed" => TableFits(table)

(* No operation on the list returns DynAllocError: a pair that               *)
(* find_suitable_chunk picks always has its chunk.                           *)
NoDynAllocError == status # "failed"

(* The assertion of remove_chunk_internal, whatever is removed.              *)
SizesCoverChunks == SizesCover(list)

(* The comment of realloc_chunk: "there can only be used chunks between 2    *)
(* free chunks".                                                             *)
FreeMerged == Merged(list)

(* The free list and the entries share no byte, and both lie before the end. *)
ListAgreesWithEntries ==
  status = "open" =>
    \A p \in DOMAIN entries :
      Unlisted(list, entries[p]) /\ EndOf(entries[p]) <= list.end

(* The inductive invariant of SpecKeepTail: the list that                    *)
(* find_suitable_chunk and the merges work on is exact.                      *)
IInv ==
  /\ TypeOK
  /\ EntriesDisjoint
  /\ TableDisjoint
  /\ NoDynAllocError
  /\ ListInv(list)
  /\ ListAgreesWithEntries

(* A byte is accounted for when an entry holds it or the list may hand it    *)
(* out.                                                                      *)
Accounted(b) == Free(list, b) \/ \E p \in DOMAIN entries : Holds(entries[p], b)

(* Imports and removals leak no space: while the archive is open no byte is  *)
(* lost to both the entries and the free list.                               *)
NoSpaceLost ==
  [][status = "open" /\ status' = "open" =>
       \A b \in HeaderSize .. OffsetLimit : Accounted(b) => Accounted(b)']_vars
=============================================================================
