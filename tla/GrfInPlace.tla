----------------------------- MODULE GrfInPlace -----------------------------
(***************************************************************************)
(* One THOR patch applied to a GRF archive in place, byte by byte:         *)
(* apply_patch_to_grf_ip (rpatchur/src/patcher/patching.rs) over the       *)
(* GrfArchiveBuilder of gruf/src/grf/builder.rs.                           *)
(*                                                                         *)
(* The file is the header, which points to the table, and the bytes after  *)
(* it.  Contents and table are written at the offsets the free-space list  *)
(* gives out; the header is written last, field by field: a failure or a   *)
(* kill may tear it.  Steps may fail and the process may be killed (writes *)
(* are not reordered); the patcher then tries the same patch again on what *)
(* is left.                                                                *)
(***************************************************************************)
EXTENDS ChunkList, Sequences, FiniteSetsExt

CONSTANTS
  Path,          \* relative paths
  Archives,      \* the tables of the archives that may be on disk at first
  OffsetLimit,   \* bound: where the first table may start
  TableSize,     \* size of the serialized table (two sizes and the entries)
  Patches,       \* the patches, see PatchesAssumption
  Faults,        \* the steps that may fail: see Fault
  TailRemoval,   \* which patches may remove the last entry: see Removable
  MaxAttempts    \* bound: how often the patch is tried

Fault == {"read", "write", "finish", "crash"}

ASSUME InPlaceAssumption ==
  /\ TableSize \in Nat \ {0} /\ OffsetLimit \in Nat /\ MaxAttempts \in Nat
  /\ Faults \subseteq Fault
  /\ TailRemoval \in {"never", "alone", "always"}

(* The entries of a THOR archive sorted by offset: the removed ones first    *)
(* (their offset is 0), then the contents as <<path, compressed size>>.      *)
ASSUME PatchesAssumption ==
  \A pt \in Patches :
    /\ pt = [removed |-> pt.removed, imports |-> pt.imports]
    /\ pt.removed \subseteq Path
    /\ pt.imports \in Seq((Path \ pt.removed) \X (Nat \ {0}))
    /\ \A i, j \in DOMAIN pt.imports :
         pt.imports[i][1] = pt.imports[j][1] => i = j

(* The extents of an archive share no byte and lie past the header. *)
ASSUME ArchivesAssumption ==
  \A es \in Archives :
    /\ DOMAIN es \subseteq Path /\ IsFiniteSet(DOMAIN es)
    /\ es \in [DOMAIN es -> Extent]
    /\ \A p \in DOMAIN es : HeaderSize <= es[p].offset /\ EndOf(es[p]) <= OffsetLimit
    /\ ~Malformed(es)

VARIABLES
  patch,      \* the patch
  disk,       \* offset -> byte, past the header
  header,     \* [at, count, hides]: the offset of the table and the file count,
              \* and the entries of the table that the count does not reach
  entries,    \* GrfArchiveBuilder::entries
  list,       \* GrfArchiveBuilder::chunks
  todo,       \* what is left of the patch in this attempt
  write,      \* bytes being written: at, and the cells left to write
  pc,         \* "closed", "patching", "content", "dropping" or "table"
  result,     \* of the last attempt: "none", "ok", "error" or "crashed"
  attempts,   \* attempts so far
  before,     \* the table the archive had at first (history)
  hidden,     \* the files that the header hid from an attempt when it opened the
              \* archive (history)
  shown       \* what a reader got, the result, and whether the table and
              \* header were written when the file was last closed (history)

builderVars == <<entries, list, todo, write>>
vars == <<patch, disk, header, builderVars, pc, result, attempts, before, hidden, shown>>

-----------------------------------------------------------------------------
(* A byte is a cell <<kind, of, i>>: the i-th byte of the old content of a   *)
(* path, of its new content, or of a serialized table.                       *)
Cells(kind, of, n) == [i \in 1 .. n |-> <<kind, of, i>>]
Blank == <<"blank", 0, 0>>

At(d, o) == IF o \in DOMAIN d THEN d[o] ELSE Blank
Read(d, o, n) == [i \in 1 .. n |-> At(d, o + i - 1)]

(* GrfArchive::open: the table the header points to, if it can be parsed;     *)
(* parse_grf_file_entries_200 stops after `count` entries.                   *)
WholeTable(d, h) == At(d, h.at)[2]
Readable(d, h) ==
  /\ At(d, h.at)[1] = "table"
  /\ Read(d, h.at, TableSize) = Cells("table", WholeTable(d, h), TableSize)
TableAt(d, h) == [p \in DOMAIN WholeTable(d, h) \ h.hides |-> WholeTable(d, h)[p]]

(* The header of a finished archive, and a torn one: the offset of the new    *)
(* table with the old count.  The table has the order of a HashMap, so a     *)
(* count that is too small may miss any of its entries.                      *)
Header(at, es) == [at |-> at, count |-> Cardinality(DOMAIN es), hides |-> {}]
Torn(h, at, es) ==
  LET n == Cardinality(DOMAIN es)
  IN  {[at |-> at, count |-> h.count, hides |-> S] :
         S \in IF h.count < n THEN kSubset(n - h.count, DOMAIN es) ELSE {{}}}

(* get_entry_raw_data for every entry of the table; nothing without a table. *)
Content(d, x) == Read(d, x.offset, x.size)
View(d, h) ==
  IF Readable(d, h)
  THEN [p \in DOMAIN TableAt(d, h) |-> Content(d, TableAt(d, h)[p])]
  ELSE [p \in {} |-> <<>>]

NothingToDo == [removed |-> {}, imports |-> <<>>]
NothingToWrite == [at |-> 0, cells |-> <<>>]

FirstDisk(es, h) ==
  [o \in HeaderSize .. OffsetLimit + TableSize |->
     IF h <= o /\ o < h + TableSize THEN <<"table", es, o - h + 1>>
     ELSE IF \E p \in DOMAIN es : Holds(es[p], o)
          THEN LET p == CHOOSE p \in DOMAIN es : Holds(es[p], o)
               IN  <<"old", p, o - es[p].offset + 1>>
          ELSE Blank]

Init ==
  /\ patch \in Patches
  /\ entries \in Archives
  /\ header \in {Header(h, entries) : h \in
                   {h \in HeaderSize .. OffsetLimit :
                      \A p \in DOMAIN entries :
                        Disjoint([offset |-> h, size |-> TableSize], entries[p])}}
  /\ disk = FirstDisk(entries, header.at)
  /\ list = EmptyList
  /\ todo = NothingToDo /\ write = NothingToWrite
  /\ pc = "closed" /\ result = "none" /\ attempts = 0
  /\ before = entries /\ hidden = {}
  /\ shown = [files |-> View(disk, header), outcome |-> "none", finished |-> TRUE]

-----------------------------------------------------------------------------
(* The patch is tried again until it has succeeded. *)
Attempt ==
  /\ pc = "closed"
  /\ result # "ok"
  /\ attempts < MaxAttempts
  /\ attempts' = attempts + 1

(* GrfArchiveBuilder::open, which refuses overlapping entries, and panics on  *)
(* a file count without entries.  Whether nom parses a table with a count    *)
(* past its end, or of 0, is left open.                                      *)
Openable ==
  /\ Readable(disk, header)
  /\ header.count > 0 => DOMAIN TableAt(disk, header) # {}
  /\ ~Malformed(TableAt(disk, header))

OddCount ==
  LET n == Cardinality(DOMAIN WholeTable(disk, header))
  IN  header.count > n \/ (header.count = 0 /\ n > 0)

Open ==
  /\ Attempt
  /\ Openable
  /\ entries' = TableAt(disk, header)
  /\ list' = ListAvailableChunks(TableAt(disk, header))
  /\ todo' = patch
  /\ hidden' = hidden \cup header.hides
  /\ pc' = "patching"
  /\ UNCHANGED <<patch, disk, header, write, result, before, shown>>

OpenFails ==
  /\ Attempt
  /\ Openable => OddCount
  /\ result' = "error"
  /\ shown' = [shown EXCEPT !.outcome = "error"]
  /\ UNCHANGED <<patch, disk, header, builderVars, pc, before, hidden>>

(* The entry at the end of the data area is not removed, or only by patches *)
(* without contents, or by any patch.                                       *)
IsTail(p) == EndOf(entries[p]) = list.end
Removable(p) ==
  \/ TailRemoval = "always"
  \/ p \in DOMAIN entries => ~IsTail(p)
  \/ TailRemoval = "alone" /\ patch.imports = <<>>

(* Mutants of Remove: the entry stays in the table; its bytes are not freed. *)
RemoveKeepingEntry(p) ==
  /\ pc = "patching"
  /\ p \in todo.removed
  /\ Removable(p)
  /\ todo' = [todo EXCEPT !.removed = @ \ {p}]
  /\ UNCHANGED <<patch, disk, header, entries, list, write, pc, result, attempts, before, hidden, shown>>

RemoveKeepingBytes(p) ==
  /\ pc = "patching"
  /\ p \in todo.removed
  /\ Removable(p)
  /\ todo' = [todo EXCEPT !.removed = @ \ {p}]
  /\ entries' = [q \in DOMAIN entries \ {p} |-> entries[q]]
  /\ UNCHANGED <<patch, disk, header, list, write, pc, result, attempts, before, hidden, shown>>

(* remove_file, `let _ =`: a path the archive does not have is skipped. *)
Remove(p) ==
  /\ pc = "patching"
  /\ p \in todo.removed
  /\ Removable(p)
  /\ todo' = [todo EXCEPT !.removed = @ \ {p}]
  /\ IF p \in DOMAIN entries
     THEN /\ entries' = [q \in DOMAIN entries \ {p} |-> entries[q]]
          /\ list' = FreeChunk(list, entries[p].offset, entries[p].size)
     ELSE UNCHANGED <<entries, list>>
  /\ UNCHANGED <<patch, disk, header, write, pc, result, attempts, before, hidden, shown>>

(* import_raw_entry_from_thor, up to the seek: the content is read from the *)
(* patch, then placed.                                                      *)
Importing == pc = "patching" /\ todo.removed = {} /\ todo.imports # <<>>
Next1 == Head(todo.imports)
Placement == PlaceEntry(list, entries, Next1[1], Next1[2])

StartImport ==
  /\ Importing
  /\ Placement.ok
  /\ list' = Placement.list
  /\ write' = [at |-> Placement.offset, cells |-> Cells("new", Next1[1], Next1[2])]
  /\ pc' = "content"
  /\ UNCHANGED <<patch, disk, header, entries, todo, result, attempts, before, hidden, shown>>

(* An error leaves the loop with `?`; the builder is dropped. *)
ImportFails ==
  /\ Importing
  /\ \/ "read" \in Faults /\ UNCHANGED list
     \/ ~Placement.ok /\ list' = Placement.list
  /\ pc' = "dropping" /\ result' = "error"
  /\ UNCHANGED <<patch, disk, header, entries, todo, write, attempts, before, hidden, shown>>

WriteByte ==
  /\ pc \in {"content", "table"}
  /\ write.cells # <<>>
  /\ disk' = [o \in DOMAIN disk \cup {write.at} |->
                IF o = write.at THEN Head(write.cells) ELSE disk[o]]
  /\ write' = [at |-> write.at + 1, cells |-> Tail(write.cells)]
  /\ UNCHANGED <<patch, header, entries, list, todo, pc, result, attempts, before, hidden, shown>>

(* Mutant of FinishImport: a known entry keeps its old extent. *)
FinishImportKeepingExtent ==
  /\ pc = "content"
  /\ write.cells = <<>>
  /\ entries' = [q \in DOMAIN entries \cup {Next1[1]} |->
                   IF q \in DOMAIN entries THEN entries[q]
                   ELSE [offset |-> write.at - Next1[2], size |-> Next1[2]]]
  /\ todo' = [todo EXCEPT !.imports = Tail(@)]
  /\ write' = NothingToWrite
  /\ pc' = "patching"
  /\ UNCHANGED <<patch, disk, header, list, result, attempts, before, hidden, shown>>

(* The content is written: the entry gets its new extent. *)
FinishImport ==
  /\ pc = "content"
  /\ write.cells = <<>>
  /\ entries' = [q \in DOMAIN entries \cup {Next1[1]} |->
                   IF q = Next1[1] THEN [offset |-> write.at - Next1[2], size |-> Next1[2]]
                   ELSE entries[q]]
  /\ todo' = [todo EXCEPT !.imports = Tail(@)]
  /\ write' = NothingToWrite
  /\ pc' = "patching"
  /\ UNCHANGED <<patch, disk, header, list, result, attempts, before, hidden, shown>>

(* A write fails after some bytes: the entry keeps its old extent. *)
WriteFails ==
  /\ pc = "content"
  /\ "write" \in Faults
  /\ write' = NothingToWrite
  /\ pc' = "dropping" /\ result' = "error"
  /\ UNCHANGED <<patch, disk, header, entries, list, todo, attempts, before, hidden, shown>>

AllApplied ==
  /\ pc = "patching"
  /\ todo = NothingToDo
  /\ pc' = "dropping" /\ result' = "ok"
  /\ UNCHANGED <<patch, disk, header, builderVars, attempts, before, hidden, shown>>

(* Drop calls finish(): write_grf_table_200, then the header. *)
StartTable ==
  /\ pc = "dropping"
  /\ AllocChunk(list, TableSize).ok
  /\ list' = AllocChunk(list, TableSize).list
  /\ write' = [at |-> AllocChunk(list, TableSize).offset,
               cells |-> Cells("table", entries, TableSize)]
  /\ pc' = "table"
  /\ UNCHANGED <<patch, disk, header, entries, todo, result, attempts, before, hidden, shown>>

Close(h, r, f) ==
  /\ pc' = "closed" /\ header' = h /\ result' = r
  /\ todo' = NothingToDo /\ write' = NothingToWrite
  /\ shown' = [files |-> View(disk, h), outcome |-> r, finished |-> f]

WriteHeader ==
  /\ pc = "table"
  /\ write.cells = <<>>
  /\ Close(Header(write.at - TableSize, entries), result, TRUE)
  /\ UNCHANGED <<patch, disk, entries, list, attempts, before, hidden>>

(* What the header may be when a step fails or is the last.  The new table    *)
(* may lie where the old one was: the old header then points to it.          *)
Left ==
  LET at == write.at - TableSize
  IN  IF pc = "table" /\ write.cells = <<>>
      THEN Torn(header, at, entries) \cup {h \in {header} : h.at # at}
      ELSE {header}

(* An error of finish() is dropped: the result does not change. *)
FinishFails ==
  /\ pc \in {"dropping", "table"}
  /\ "finish" \in Faults \/ (pc = "dropping" /\ ~AllocChunk(list, TableSize).ok)
  /\ \E h \in Left : Close(h, result, FALSE)
  /\ UNCHANGED <<patch, disk, entries, list, attempts, before, hidden>>

(* The process is killed: nothing of the builder is left. *)
Crash ==
  /\ pc # "closed"
  /\ "crash" \in Faults
  /\ \E h \in Left : Close(h, "crashed", FALSE)
  /\ UNCHANGED <<patch, disk, entries, list, attempts, before, hidden>>

Next ==
  \/ Open \/ OpenFails
  \/ \E p \in Path : Remove(p)
  \/ StartImport \/ ImportFails \/ WriteByte \/ FinishImport \/ WriteFails
  \/ AllApplied \/ StartTable \/ WriteHeader \/ FinishFails \/ Crash

Spec == Init /\ [][Next]_vars

-----------------------------------------------------------------------------
ImportedPaths == {patch.imports[i][1] : i \in DOMAIN patch.imports}
NewContent(p) ==
  Cells("new", p, patch.imports[CHOOSE i \in DOMAIN patch.imports : patch.imports[i][1] = p][2])

Touched == patch.removed \cup ImportedPaths

Untouched == DOMAIN before \ Touched

(* The files that the patch does not name, but for those a torn header hid   *)
(* from an attempt that opened the archive.                                  *)
Seen == Untouched \ hidden

(* The contents of these files are never written over, at any point of any   *)
(* attempt and whatever fails: the new contents and the table only take free *)
(* bytes and those of replaced files.  A file loses this when an attempt     *)
(* opens the archive with a torn header that hides it, and no earlier.       *)
UntouchedOnDisk ==
  \A p \in Seen : Content(disk, before[p]) = Cells("old", p, before[p].size)

(* When patching returns Ok, and table and header could be written, the      *)
(* archive has the files of the patch and the others (what                   *)
(* patch_maintained_integrity of the tests reads back), however many         *)
(* attempts failed or were killed before.  Only files that were hidden from  *)
(* an attempt may be lost.                                                   *)
AsPatched(files) ==
  /\ Seen \cup ImportedPaths \subseteq DOMAIN files
  /\ DOMAIN files \subseteq (DOMAIN before \ patch.removed) \cup ImportedPaths
  /\ \A p \in ImportedPaths : files[p] = NewContent(p)
  /\ \A p \in Seen : files[p] = Cells("old", p, before[p].size)
SuccessMeansPatched ==
  pc = "closed" /\ result = "ok" /\ shown.finished => AsPatched(View(disk, header))

(* An archive whose last attempt could write table and header can be opened  *)
(* by the next one, after an error too.  That patching in place "can corrupt *)
(* file in case of error" (patching.rs:57) is left to kills and to a         *)
(* finish() that fails, which cut the table.                                 *)
FinishedOpens == pc = "closed" /\ shown.finished => Openable /\ ~OddCount

-----------------------------------------------------------------------------
(* Why they hold: the inductive invariant, in parts.                         *)

(* A table that has all these files, where they were, and no other entry     *)
(* over them.                                                                *)
Kept(es) ==
  /\ IsFiniteSet(DOMAIN es)
  /\ es \in [DOMAIN es -> Extent]
  /\ \A p \in DOMAIN es : HeaderSize <= es[p].offset
  /\ Seen \subseteq DOMAIN es /\ DOMAIN es \subseteq DOMAIN before \cup Touched
  /\ \A p \in Seen :
       es[p] = before[p] /\ \A q \in DOMAIN es \ {p} : Disjoint(es[p], es[q])

(* Every table of which a byte is on disk, written by whichever attempt.     *)
TablesKept == \A o \in DOMAIN disk : disk[o][1] = "table" => Kept(disk[o][2])

(* What an attempt works on: the table and the list keep clear of them.      *)
BuilderKeeps ==
  /\ Kept(entries)
  /\ Roomy(list) /\ \A p \in Seen : Clear(list, before[p])

(* What is left of the patch is its last part; what was removed is gone.     *)
Done == Len(patch.imports) - Len(todo.imports)
RestOfPatch ==
  /\ todo = [removed |-> todo.removed, imports |-> todo.imports]
  /\ todo.removed \subseteq patch.removed
  /\ DOMAIN entries \cap patch.removed \subseteq todo.removed
  /\ todo.imports \in Seq(Path \X (Nat \ {0})) /\ Done \in Nat
  /\ \A i \in DOMAIN todo.imports : todo.imports[i] = patch.imports[Done + i]
  /\ pc = "content" => todo.imports # <<>>
  /\ pc \in {"dropping", "table"} /\ result = "ok" => todo = NothingToDo

(* What is being written: its first bytes are on disk, at a place that is    *)
(* clear of these files.                                                     *)
Item == IF pc = "content" THEN [kind |-> "new", of |-> Next1[1], size |-> Next1[2]]
        ELSE [kind |-> "table", of |-> entries, size |-> TableSize]
Target == [offset |-> write.at + Len(write.cells) - Item.size, size |-> Item.size]
CellsAfter(item, k) == [i \in 1 .. item.size - k |-> <<item.kind, item.of, k + i>>]
Writing ==
  \E k \in 0 .. Item.size :
    /\ write = [at |-> Target.offset + k, cells |-> CellsAfter(Item, k)]
    /\ Target \in Extent /\ HeaderSize <= Target.offset
    /\ \A i \in 1 .. k : At(disk, Target.offset + i - 1) = <<Item.kind, Item.of, i>>
    /\ \A p \in Seen : Disjoint(Target, before[p])

InPlaceInv ==
  /\ TablesKept
  /\ UntouchedOnDisk
  /\ pc # "closed" => BuilderKeeps /\ RestOfPatch
  /\ pc \in {"content", "table"} => Writing

(* Where no removal makes the list inexact, the list and the entries account *)
(* for what the patch has placed so far, and its contents are on disk.       *)
ListExact == TailRemoval = "never" \/ (TailRemoval = "alone" /\ patch.imports # <<>>)
Sound == pc \in {"patching", "content"} \/ (pc \in {"dropping", "table"} /\ result = "ok")
Settled == IF pc = "content" THEN DOMAIN entries \ {Next1[1]} ELSE DOMAIN entries
PlacedSoFar ==
  ListExact /\ Sound =>
    /\ ListInv(list)
    /\ ~Malformed(entries)
    /\ \A p \in Settled : Unlisted(list, entries[p]) /\ EndOf(entries[p]) <= list.end
    /\ pc \in {"content", "table"} =>
         /\ Unlisted(list, Target) /\ EndOf(Target) <= list.end
         /\ \A p \in Settled : Disjoint(Target, entries[p])
    /\ \A i \in 1 .. Done :
         LET p == patch.imports[i][1]
         IN  /\ p \in DOMAIN entries /\ entries[p].size = patch.imports[i][2]
             /\ Content(disk, entries[p]) = Cells("new", p, entries[p].size)

(* Whatever fails, the table that is being built passes the check of open(). *)
WellFormed == pc # "closed" => ~Malformed(entries)

(* While finish() does not fail and nobody kills the patcher: the list has   *)
(* room for the table, the header shows all of it, and what a reader got     *)
(* last has the files the patch does not name.                               *)
ListServes ==
  pc \in {"patching", "content", "dropping"} =>
    /\ PairsBacked(list)
    /\ patch.imports = <<>> =>
         ~Malformed(entries) /\ \A p \in DOMAIN entries : Clear(list, entries[p])
HeaderWhole == header.hides = {}
ShownKept ==
  /\ shown = [files |-> shown.files, outcome |-> shown.outcome, finished |-> shown.finished]
  /\ DOMAIN shown.files \ Touched = Untouched
  /\ \A p \in Untouched : shown.files[p] = Cells("old", p, before[p].size)
OutcomeFollows ==
  /\ shown.outcome = "ok" => pc = "closed" /\ result = "ok"
  /\ pc \in {"dropping", "table"} => result \in {"ok", "error"}
StoreInv == hidden = {} /\ ListServes /\ HeaderWhole /\ ShownKept /\ OutcomeFollows

(* ... and the table of a closed archive is that of the last attempt.        *)
TableIsLast ==
  pc = "closed" /\ Readable(disk, header) => WholeTable(disk, header) = entries

(* In-place patching is atomic between openings: it implements GrfStore.     *)
Store ==
  INSTANCE GrfStore WITH
    removed <- patch.removed,
    imported <- [p \in ImportedPaths |-> NewContent(p)],
    files <- shown.files,
    outcome <- shown.outcome
StoreSpec == Store!Spec

(* The attempts drive the space of the archive as ChunkAlloc has it: an      *)
(* entry that is being written has its new extent, and the archive counts as *)
(* closed from the time its table has a place.                               *)
SpaceLimit == 100   \* bound: where no extent of a run ends
Placed ==
  IF pc = "content"
  THEN [q \in DOMAIN entries \cup {Next1[1]} |->
          IF q = Next1[1]
          THEN [offset |-> write.at + Len(write.cells) - Next1[2], size |-> Next1[2]]
          ELSE entries[q]]
  ELSE entries
TableExtent ==
  [offset |-> IF pc = "table" THEN write.at + Len(write.cells) - TableSize ELSE header.at,
   size |-> TableSize]
Space ==
  INSTANCE ChunkAlloc WITH
    ContentSizes <- {n[2] : n \in UNION {{pt.imports[i] : i \in DOMAIN pt.imports} : pt \in Patches}},
    TableSizes <- {TableSize},
    OffsetLimit <- SpaceLimit,
    entries <- Placed,
    table <- TableExtent,
    status <- IF pc \in {"closed", "table"} THEN "closed" ELSE "open"
SpaceSpec == Space!SpecKeepTail
=============================================================================
