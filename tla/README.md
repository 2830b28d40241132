# A TLA+ model of rpatchur

rpatchur is a patcher for Ragnarok Online clients. A launcher page in a web view
sends commands to a patching thread; the thread fetches a list of patches
(`plist.txt`), downloads the THOR archives, and applies them to GRF archives or
to the game directory. This directory holds TLA+ modules of its parts, TLC
configurations that check them, and theorems that TLAPS proves.

Paths below are relative to the repository's sources: `gruf/src` (the archive
library), `rpatchur/src` (the patcher), `mkpatch/src` (the patch maker).

## 1. Inventory

| Component | State | Operations | Interacts with |
|---|---|---|---|
| Free-space list, `grf/dyn_alloc.rs` | `end_offset`, free chunks by size and by offset | `list_available_chunks`, `alloc_chunk`, `realloc_chunk`, `free_chunk` | called by the GRF builder |
| GRF builder, `grf/builder.rs` | entry table, free-space list, the file | `create`, `open`, `import_raw_entry_from_*`, `remove_file`, `finish`, `Drop` | patching; reads GRF and THOR archives |
| GRF reader, `grf/reader.rs` | parsed table | `open`, `get_entry_raw_data` | patching, the builder |
| THOR reader, `thor/reader.rs` | parsed table | `open`, `read_file_content`, `is_valid`, `patch_list_from_string` | patching, downloads |
| Patching GRF archives, `patcher/patching.rs` | the archive and its backup | in place, out of place | called by the patching thread |
| Patching the game directory, `patcher/patching.rs` | the files | `apply_patch_to_disk`, `extract_file` | called by the patching thread |
| Patching thread, `patcher/core.rs`, `cancellation.rs` | current task, update lock | main loop, update, manual patch, polls | command channel, closures, lock file |
| Window, `ui.rs`, `main.rs` | `patching_in_progress`, the page | click handlers, closures, closing | command channel |
| Update routine and cache, `core.rs`, `cache.rs` | cache file, queue of patches | fetch, filter, download, apply, write the cache | servers, other instances |
| Downloads, `core.rs` | temporary files, counters, progress | up to 32 futures at a time, integrity check, cancellation | servers, window |
| THOR builder, `thor/builder.rs` | entries, the file | append an update or a removal, checksums, `finish`, `Drop` | mkpatch |
| mkpatch, `mkpatch/src/main.rs` | the definition | walk the definition and its directories | the maintainer; its output is what clients download |
| Encryption, configuration, process start | none that changes | | |

What is hard in this code, and what makes each part correct:

* **Archives survive patching.** In-place patching allocates over the live file;
  correct means that contents, table and free space never share a byte, that an
  error, a kill or a retry costs no file that the patch does not name, and that
  `Ok` means patched. The builder's `Drop` finishes an archive after an error.
* **Out-of-place patching** moves the only copy to a backup and rebuilds it.
* **Two threads and a channel of 32 commands**: the window's flag is set by
  closures that run late, sends block, a closing window may fail to say `Quit`,
  a command read as a cancellation is gone.
* **Servers that do not answer**: there are no timeouts.
* **Concurrent downloads** interleave wherever they await, may share a temporary
  file, and are all dropped at the first error. Correct means that a queue that
  is handed over is complete, valid and in order.
* **From definition to disk**: mkpatch may fail half-way and its `Drop` writes an
  archive all the same, a download may be altered, an attempt may stop between
  two files. Correct means that whatever opens was built from the definition,
  that `Ok` on both sides means the definition is on disk, and that no other file
  is touched.
* **Restarts**: patches are applied, then the cache is written (truncated
  first), then the next patch; kills, cancellations, resets, withdrawn patches
  and second instances come in between. Correct means that no file is ever older
  than what a finished update promised.

`PROJECT.json` lists every hazard at its line, with the properties on it.

## 2. Modules

| Module | Models | Checked with |
|---|---|---|
| `ChunkList` | operators of `dyn_alloc.rs` | (used by the next two) |
| `ChunkAlloc` | the space of one archive over many openings: offsets and sizes, no bytes | `MCChunkAlloc` |
| `ChunkList_proofs` | lemmas on the operators of `ChunkList` | tlapm |
| `ChunkAlloc_proofs` | theorems on `ChunkAlloc` | tlapm |
| `GrfStore` | abstract promise: patched as a whole, or an error that leaves the other files alone | refined by `GrfInPlace` |
| `GrfInPlace` | `apply_patch_to_grf_ip` byte by byte, with faults and retries | `MCGrfInPlace` |
| `GrfInPlace_proofs` | theorems on `GrfInPlace` | tlapm |
| `GrfOutOfPlace` | `apply_patch_to_grf`, `apply_patch_to_grf_oop` on whole files | `MCGrfOutOfPlace` |
| `GrfOutOfPlace_proofs` | theorems on `GrfOutOfPlace` | tlapm |
| `Patcher` | window, command channel, closures, patching thread, lock | `MCPatcher` |
| `Patcher_proofs` | theorems on `Patcher` | tlapm |
| `Update` | updates of a directory over time: instances, list, cache, reset, kills | `MCUpdate` |
| `Update_proofs` | theorems on `Update` | tlapm |
| `DownloadStep` | abstract promise: one step that hands over a complete, sorted queue, or stops | refined by `Downloads` |
| `Downloads` | `download_patches_concurrent`: the futures, their files, integrity, progress | `MCDownloads` |
| `Downloads_proofs` | theorems on `Downloads` | tlapm |
| `ThorFile` | THOR archives as the reader sees them: what opens, contents, `is_valid` | (used by the next three) |
| `MakePatch` | mkpatch and the THOR builder, with errors and kills | `MCDelivery` |
| `DiskPatch` | `apply_patch_to_disk`, with errors, kills and retries | `MCDelivery` |
| `Delivery` | mkpatch, then download and application to the game directory | `MCDelivery` |
| `Delivery_proofs` | theorems on `MakePatch`, `DiskPatch` and `Delivery` | tlapm |

How they compose: `GrfInPlace` uses the operators of `ChunkList`, instantiates
`ChunkAlloc` (its steps are steps of `ChunkAlloc`, property `SpaceSpec`, theorem
`InPlaceImplementsSpace`) and `GrfStore` (property `StoreSpec`, theorem
`InPlaceImplementsStore`). `Patcher` sees a patch as a step that
succeeds or fails, `Update` as a set of files written wholly or in part, and the
GRF modules and `DiskPatch` say what such a step does. `Patcher` has one instance
and its protocol with the window; `Update` has several instances and the files;
its step from the list to the queue is `DownloadStep`, which `Downloads`
implements (property `StepSpec`, theorem `DownloadIsOneStep`). `Delivery`
composes `MakePatch` and `DiskPatch` over one file: the output of the one, at
whatever point mkpatch left it, is what the other downloads and applies.

### ChunkList and ChunkAlloc

A list is `[end, sizes, chunks]`, the fields of `AvailableChunkList`: `sizes` is
the `BTreeSet<(usize, u64)>`, `chunks` the `BTreeMap` by offset. `alloc_chunk`
and the others return a new list and an offset, or a failure (`DynAllocError`)
with the list as it was changed up to there. `ChunkAlloc` keeps the entry table,
the list, the extent of the last table and whether the builder is open; `Open`
rebuilds the list from the entries as `list_available_chunks` does (so the bytes
of the old table are free while the archive is open, and a hole before the first
entry is never used again), `Import` is allocation or reallocation, `Finish`
places the table. `SpecKeepTail` has every step but the removal of the entry at
the end of the data area, `Spec` has that one too.

### GrfInPlace

The disk is a function from offsets to cells `<<kind, of, i>>`; a content that
reads back cell by cell is intact. An attempt opens the archive, removes, imports
content by content and byte by byte in the order of `thor_entries` sorted by
offset (removed entries have offset 0 and come first), and `Drop` writes table
and header. Reads can fail before a content is placed, writes after any number
of bytes, `finish` without anybody noticing, and the process can be killed at
every step; the next attempt opens what is there. A kill loses no bytes already
written and does not reorder writes.

The header is several small writes after the table, and the new table may lie
where the old one was. A failure or kill between them leaves the new table with
the old file count: `Torn`. `header.hides` is what of the table that count does
not reach: any of the files, because the table has the order of a `HashMap`. No
byte is lost by that. But the next attempt takes the bytes of these files as free
and leaves them out of its table: `hidden` collects the files that the header hid
from an attempt when it opened the archive, and from there on `UntouchedOnDisk`
and `SuccessMeansPatched` speak of the others (`Seen`). What happens to a hidden
file afterwards is anything: the code has nothing against it. Whether the parser
takes a count past the end of the table, or of 0 over entries, is left open
(`OddCount`: the attempt may open the archive or fail); a count above 0 over a
table without entries panics in `list_available_chunks` (`dyn_alloc.rs:20`), which
is an `OpenFails`.

`FinishedOpens` says that the next attempt can open the archive whenever the last
one could write table and header. It cannot always after a kill: the table may
have been the only one and is cut. That is what `patching.rs:56-57` warns of, so
no property denies it; `UntouchedOnDisk` holds of the bytes then too.

`TailRemoval` says which patches remove the last entry: none, those without
contents ("alone"), or all.

### GrfOutOfPlace

A file is absent, partial (its header is still the zero placeholder, nobody can
open it) or an archive with its files. `fs::rename` replaces an older backup,
merged entries come out of a `HashMap` in any order, `Drop` turns what was
imported into an archive also after an error, and every step can fail or be the
last before a kill. `create_grf` is part of the initial choice.

### Patcher

One action per handler and per step of the thread between two awaits or
channel operations. Handlers are atomic except for `send`, which waits while the
channel is full, and the file dialog, which is open for a while. Closures run in
the order they were dispatched; a closed window drops them together with the
only sender. `Poll` is `process_incoming_commands`, `DownloadInterrupted` is the
`select!` with `wait_for_cancellation`. Messages of statuses and progress numbers
are left out. Panics are not modelled: release builds abort.

### Update

Files are known by the patch that wrote them last. `FilterList` skips only when
the cached index is in the fetched list; `NextPatch` is the sort by index;
`TruncateCache` and `WriteCache` are the two steps of `write_cache_file`, which a
reset (the file is removed) or a kill can separate. A failing or killed patch
has written any subset of its files. The maintainer publishes with increasing
indices and comments lines out ("withdraws"); relisting an index is not modelled.
Manual patches are in `Patcher` only. A lock dies with its process.

### Downloads and DownloadStep

One future per line of the list, in the order of the list, at most `Concurrent`
of them begun and not done (`buffer_unordered`). A future creates its temporary
file (`Create`, which empties a file another line is writing), waits for the
answer (`Answer`), writes chunk by chunk at the position of its own handle
(`Chunk`) and checks and counts (`Finish`); the actions are the code between two
awaits. The first error ends the whole (`try_collect`), so does any command
(`Cancel`). `queue'` is any order sorted by index, since the list is collected in
the order of completion before the (stable) sort. Progress is a number sent to
the page at any chunk; the one-second limit is left out. A patch without
checksums is valid (`plain`); one with checksums is valid when it is whole and
not `corrupt`, and what a partly written archive without checksums answers is
left open (`BOOLEAN`).

### ThorFile, MakePatch, DiskPatch, Delivery

A path is a sequence of components, so a file can be in the way of a directory.
An archive is a header, a sequence of blobs and a table from paths to places in
the body; removed entries have place 0, as the parser gives it. `MakePatch` has
one action for each append of `generate_patch_from_definition`, for the steps of
`finish` (checksums, table, header) and for the errors of each; `walk` is what
`WalkDir` has still to give, in any order. An error ends with the same `Drop`
that ends success. The header is written in several small writes: a `torn` one
is refused by the parser, as the magic precedes the table offset which is
refused while it is 0.

`DiskPatch` takes the entries by offset, removals first (in any order: they all
have offset 0), one action per system call that can be seen from outside. Errors
of `remove_file` are dropped, as in the code; `stuck` remembers them for the
properties. In `Delivery` every attempt downloads the output anew, perhaps with
one altered blob, and with the `check_integrity` setting on or off. External
assumption: zlib refuses an altered or half-written blob (`Junk`).

## 3. What the runs show

Twelve runs, each with the properties of its `.cfg`. Deadlock is checked in
`update_instances` and `chunk_keep_tail`; the others model attempts, clicks or
downloads that come to an end and stop there.

| Run (configuration) | Result |
|---|---|
| `chunk_keep_tail` (`MCChunkAlloc.cfg`) | Contents, table and free chunks stay disjoint, free chunks merged, no byte lost, no `DynAllocError`; the index by size covers the index by offset, so the `assert!` in `remove_chunk_internal` cannot fire |
| `in_place_faults` (`GrfInPlace_faults.cfg`) | Untouched contents are never overwritten at any byte of any attempt, and `Ok` means exactly the patched files, but for files that a torn header hid from an attempt that opened the archive; what `finish()` has written can be opened again |
| `in_place_refines` (`GrfInPlace_refines.cfg`) | In-place patching implements `GrfStore`, and its space `ChunkAlloc` |
| `in_place_tail` (`GrfInPlace_tail.cfg`) | **Violated**: a patch that removes the last entry and adds contents corrupts the archive and returns `Ok` |
| `out_of_place_faults` (`GrfOutOfPlace_faults.cfg`) | A first attempt keeps the original until `Ok`; `Ok` means patched; an archive that opens after `Ok` is never stale |
| `out_of_place_lost` (`GrfOutOfPlace_lost.cfg`) | **Violated**: a failed import followed by a retry loses files the patch does not name |
| `patcher` (`Patcher.cfg`) | Flag, page and lock follow the task on every path; a queued cancellation is never overtaken; closing ends the thread, clicks return, downloads can be cancelled, a window left alone settles |
| `patcher_hung_probe` (`Patcher_hung_probe.cfg`) | **Violated**: an update cannot be cancelled while a server is probed |
| `update_instances` (`Update_instances.cfg`) | `Ready` means no stale file, and the cache is sound, with two instances, resets, kills and withdrawals |
| `downloads` (`Downloads.cfg`) | Success means every file is whole and valid and the queue sorted, also with shared files; the count on the page is true; with servers that answer it ends; to the update it is one step |
| `delivery` (`Delivery.cfg`) | What opens was built from the definition; `Ok` on both sides means it is on disk; other files are never touched; a failed attempt costs at most the open file; with checksums and `check_integrity` a damaged archive is refused before a file is touched |
| `mkpatch_unfinished` (`Delivery_unfinished.cfg`) | **Violated**: mkpatch reports success for a file that nobody can open |

The four violations are listed with their quotes in `PROJECT.json`. Behind
`GrfInPlace_tail` is `free_chunk`: for a chunk at the end it moves `end_offset`
back and then inserts the chunk as well (`dyn_alloc.rs:148-158`), so the same
bytes are handed out twice. A patch that only removes is safe: the table fits
either place. Behind `GrfOutOfPlace_lost` is `Drop`, which finishes an incomplete
archive that the next attempt renames over the backup. Behind
`mkpatch_unfinished` is the `Drop` of the THOR builder: `finish()` is called
nowhere else, and its error goes nowhere.

Also seen while modelling, without a run of its own: an error of `finish()` is
dropped, and out-of-place patching then removes the backup; a torn header hides
files whose bytes the next in-place attempt takes as free, so a kill or a failing
`finish()` followed by a retry may lose files the patch does not name; an archive
rebuilt out of place gives an empty file no bytes (`grf/reader.rs:139`) but enters
it with its compressed size (`builder.rs:74-97`), so the next entry gets the same
offset and an in-place open may refuse the archive as malformed
(`dyn_alloc.rs:35`); a reset during an
update is undone by the cache that the update writes next; a second
`StartUpdate` can be sent between a click and the closure that sets
`patching_in_progress` (`ui.rs:54`, `ui.rs:169`), which the model has and which
`Patcher` shows to leave flag, page and lock right (the second is dropped by a
poll, cancels a download, or runs after the first); two lines of `plist.txt` that share a name
may be reported as corrupt although no file is.

### Bounds and why they are enough

* `ChunkAlloc`: three paths, sizes 1 and 2, offsets up to 8. Three entries give a
  left and a right neighbour for every free, and gaps that fit, fit exactly or do
  not; the theorems have no bound.
* `GrfInPlace`: every table of up to three entries below offset 5 with the first
  table anywhere it fits, every patch of removals and at most two contents, two
  attempts. A table of two cells can be torn, and so can the header. `SpaceLimit`,
  the bound of the instance of `ChunkAlloc`, is past all that a run can write. The
  theorems have no bound, but for that one in `InPlaceImplementsSpace`.
* `Downloads`: every list of up to three lines over two names and two indices,
  so a window of two moves on, is shared by two futures of one file, and has two
  orders; two chunks leave a hole or a cut-off end. The theorems have no bound.
* `Delivery`: a file or directory `d`, a file `d\f` under it and a file `g`, in
  four game directories; every definition of one or two entries, and those of
  three that begin by removing `d` (a removal, then a directory in its place);
  two attempts, so the second meets what any failure of the first left. The
  theorems have no bound.
* `GrfOutOfPlace`: three paths (kept, removed, brought, in all combinations),
  three attempts, all faults.
* `Patcher`: a channel of two (the code has 32) and four clicks, so that a handler
  waits in `send()` behind a full channel while the thread is busy with another
  command; two servers, lists of up to one patch (the poll before a second patch
  is the same step).
* `Update`: two instances, four patches over two files; three patches are needed
  for "withdrawn, skipped, newer", the fourth is published meanwhile.

### Fairness

`Scheduled`: the event loop (`Ui`), the steps the thread takes by itself
(`Local`), and the user closing a file dialog are weakly fair; both threads run
until they end and none waits on a lock (the update lock is `try_lock`).
Clicks, closing and the other instance are not fair. `SpecHanging` assumes
nothing of servers, since `reqwest` has no timeout here; `FairSpec` assumes that
a probe is answered or refused (as `Patcher_hung_probe` shows, nothing can be said
otherwise) and still lets a download stall for ever. In `Downloads`, `FairSpec`
is weak fairness of `Progress`, the futures together: servers answer and
send, and the runtime polls what is ready. Errors and cancellation are not fair.

## 4. What is proved

`ChunkAlloc_proofs`, for every header size, set of paths, sets of sizes and
initial archive (assumptions: sizes are positive, `SizesAssumption`; initial
tables are disjoint, `ArchivesAssumption`; `HeaderSizeAssumption`):

* `KeepTailInvariant`: `SpecKeepTail => []IInv`. `EntriesDisjoint` alone is not
  inductive: what `realloc_chunk` does depends on the list. `IInv` adds that the
  list is well formed (`ListInv`: chunks lie between header and end, do not
  touch each other, both indices agree) and agrees with the entries: no free byte
  is an entry's, and the end is past all of them.
* `KeepTailTypeOK`, `KeepTailSafe` (entries disjoint), `KeepTailTableDisjoint`,
  `KeepTailNoError` (no `DynAllocError`), `KeepTailFreeMerged`: its consequences.
* `KeepTailNoSpaceLost`: an action property from the same invariant.
* `SizesAlwaysCoverChunks`: for `Spec`, with every removal.

The lemmas on `ChunkList` (`ChunkList_proofs`) go operator by operator
(`InsertChunk`, `RemoveChunk`, `AllocAt`, `FreeChunk`, `ReallocChunk`,
`ListAvailableChunks`), those of `ChunkAlloc_proofs` action by action. For each
operator of the list there are up to four: what it does to an exact list
(`...Safe`, from `ListInv`), that the index by size goes on covering the index by
offset (`...Cover`), that it gives out no byte of an extent the list is `Clear` of,
exact or not (`...Clear`), and that no pair loses its chunk (`...Backed`).

`GrfInPlace_proofs`, for every set of archives whose entries share no byte
(`ArchivesAssumption`), every set of patches (`PatchesAssumption`: THOR archives
name a path once), every table size, set of faults and number of attempts:

* `InPlaceInvariant`: `Spec => [](Types /\ InPlaceInv)`, from which
  `UntouchedAlwaysOnDisk`, for all values of `TailRemoval`: no write touches a
  file that the patch does not name, but for the files in `hidden`. That the bytes of an
  untouched file are on disk is not inductive: the next write must miss them. The
  argument: every table of which a byte is on disk has the untouched files where
  they were (`TablesKept`), so does the table being built (`BuilderKeeps`); the
  list is `Clear` of them, that is, they lie before its end and over no chunk of
  either index; what is being written has got its first bytes on disk and lies
  over none of them (`Writing`). The free-space list need not be exact for this,
  and is not when the last entry was removed: `Clear` is what survives.
* `FirstAttemptSparesUntouched`: until a second attempt begins nothing is hidden,
  so all these files are on disk, whatever fails in the first and wherever it is
  killed. `OldContentsStay` says the same of all attempts if `finish()` does not
  fail and nobody kills the process (`NoTearing`).
* `SuccessAlwaysMeansPatched`, unless `TailRemoval = "always"` (which
  `in_place_tail` refutes). `PlacedSoFar` adds that for patches with contents the
  list is exact and agrees with the entries, and that the contents that were
  imported so far are on disk where the table has them; `RestOfPatch` says what is
  left to do. A table written whole shows exactly its entries (`WrittenTable`).
* `FinishedAlwaysOpens`, with the same exception: the table being built is never
  malformed (`WellFormed`; after an import this is part of `PlacedSoFar`, the other
  steps only take entries away), and the header that ends `finish()` counts it.
* `InPlaceImplementsStore`: `Spec => StoreSpec`, the refinement of `GrfStore`, if
  only reads and writes of contents fail (`NoTearing`). `StoreInv` adds that
  `finish()` has room for the table (every pair of the list has its chunk), that
  the header shows its whole table, and that what a reader got last has the
  untouched files. Writing the header is then the one step a reader sees. With a
  failing `finish()` or a kill it does not hold: the header may be torn.
* `InPlaceImplementsSpace`: `Spec /\ []Bounded => SpaceSpec`, the refinement of
  `ChunkAlloc`, if only reads fail and the last entry is never removed
  (`OnlyReadsFail`; a write that fails leaves the old extent in the table and the
  new one allocated, which is no step of `ChunkAlloc`). `Bounded` is the limit of
  `ChunkAlloc` on offsets. So the theorems above hold of real patching.

`Update_proofs`, for every set of instances, files, number of patches and what
they write:

* `UpdateInvariant`: `Spec => []IInv`, from which `UpdateTypeOK`,
  `CacheAlwaysSound` and `NoStaleFileAfterReady`. The argument: the instance
  that works has the lock (`Mutex`); what is published meanwhile is newer than
  its list (`ListIsPrefix`); the cached index guards what the filter skips
  (`SkipIsSound`); the queue is a final segment of the list, past the cache, and
  what is before it is fresh (`QueueIsSuffix`); a patch is applied before it is
  cached (`AppliedBeforeCached`). A step writes only `NextPatch`, newer than all
  that is done, so nothing fresh gets stale (`WriteKeepsFresh`,
  `WriteKeepsCache`).

`Downloads_proofs`, for every set of names, every set of lists, every number of
chunks and every window:

* `DownloadsInvariant`: `Spec => []IInv`, from which `DownloadsTypeOK`,
  `DownloadedIsWhole` and `NeverFalseAlarm`. That a file is whole is not
  inductive: another line may empty it. The argument (`LastWriterWhole`): of the
  lines that write a file, the one that created it last has all its chunks there,
  and it is done when all lines are. `OwnFile` is the stronger fact for a line
  that shares its file with none.
* `ShownAlwaysAdvances`: the action property, from `Counted`.
* `DownloadIsOneStep`: `Spec => StepSpec`, the refinement of `DownloadStep`.

`GrfOutOfPlace_proofs`, for every set of paths, every set of faults and any
number of attempts:

* `OutOfPlaceInvariant`: `Spec => []IInv`, from which `OutOfPlaceTypeOK`,
  `FirstAttemptKeepsOriginal`, `FirstOkMeansPatched` and `OkIsNeverStale`.
  `OriginalAt` says for each step of the first attempt which file is the
  original; `Merging` ties what is still to import and what was imported to the
  backup and the patch, so the archive that `Drop` writes is the patched backup
  when nothing is left to import.

`Patcher_proofs`, for every size of the channel and any number of servers,
patches and clicks, without fairness:

* `PatcherInvariant`: `Spec => []IInv`, from which `PatcherTypeOK`,
  `LockAlwaysFollows`, `FlagAlwaysSettles` and `PageAlwaysSettles`. The argument:
  dispatching a closure decides the field it carries and no other (`LastAppend`),
  running the first changes nothing of what all will end with (`LastTail`); steps
  fall into those that dispatch nothing, a status, or the flag. The page settles
  from the report on, which is why `IInv` speaks of `unlock` and `clear`.
* `CancelAlwaysAdvances`: the action property.

`Delivery_proofs`, for every set of paths that is a tree (`PathAssumption`) without
`data.integrity` in it (`NameAssumption`), every set of definitions, data
directories, game directories, faults and settings, and any number of attempts:

* `DeliveryInvariant`: `Spec => []IInv`, from which `OkAlwaysMeansPatched`,
  `OthersAlwaysKept`, `OnlyConflictsBlock` and `AlwaysCheckedFirst`. On the side of
  mkpatch (`MakeInv`): entries point at blobs that are there, the output opens only
  with the final table, and with checksums every content has one
  (`SumsWritten`). Hence an archive with an altered blob either fails the check
  or has all contents (`ValidFacts`). On the side of the client (`DiskInv`): what
  is done of an attempt stays done, because a step on one path changes that path
  and adds directories only where no file is (`MovesInv`), and every file comes
  from the patch or was there at first (`Origin`). `OnlyConflictsBlock` needs that
  removals go first: their place is 0.
* `EndsKeepFiles`: the action property.
* `BuiltInvariant`: `Spec => []Reaches`, from which `OpensAlwaysMeansBuilt` and
  `DefinedReachesDisk`. `BuiltSoFar` says of every step of mkpatch that what was
  entered is what the entries of the definition done so far come to, with the
  walked part of a directory. What a definition comes to (`Defined`) is not
  recursive: of the entries that name a path the last one counts. `Delivered`
  carries that to the client: every blob it reads is the one that mkpatch wrote or
  junk, and no attempt that goes on has passed over junk.

Only model-checked, since the prover has neither fairness nor ENABLED: the
liveness of `Patcher` (`CloseEnds`, `SendReturns`, `Quiesces`,
`CancelEndsDownload`) and of `Downloads` (`DownloadEnds`). Every other property of
a passing run is stated by a theorem. Only proved: `NeverFalseAlarm` and the
theorems on `GrfInPlace` that speak of a first attempt or of `NoTearing`.

## 5. Not modelled

* Encodings: GRF and THOR tables, zlib, plist syntax, YAML. Version 1 archives
  (the builder's `finish` is `unimplemented!()` for them). GRF encryption: block
  cipher arithmetic without state, not used by patching, which copies raw
  contents. `add_file`, which only tests call.
* Single-file THOR archives: mkpatch never makes them.
* Numbers past 2^32 (`as u32` in the table), reads that come back short without
  an error.
* Contents of size zero. What zlib makes of an empty file is not empty, so THOR
  archives and in-place patching have none; but an archive rebuilt out of place
  allocates no bytes for an empty file of its backup and keeps the compressed size
  in the entry (section 3). `GrfOutOfPlace` has no offsets, and `ChunkAlloc` starts
  from archives without such an entry.
* What becomes of the files that a torn header hid, once another attempt has
  opened the archive (`hidden` in `GrfInPlace`).
* A body that ends before its length without an error of the HTTP client:
  `download_patch_to_file` never compares the bytes it received with the
  `Content-Length` (`core.rs:538-551`), and a patch without checksums passes
  `is_archive_valid` however little of it there is, as long as it opens.
* Paths in `data.integrity` that contain `=`.
* A definition that names `data.integrity` itself: the checksums take its entry.
* Patches published under an index that is not the next one.
* Configuration (read once), starting of executables (operating system), the page
  beyond its last status.

## 6. Plan

1. Done: free-space list, archive space, in-place and out-of-place patching,
   patching thread and window, updates, downloads, mkpatch, patching the game
   directory; theorems on each of them, and three refinements by steps.
2. Next: what holds of `GrfInPlace` beyond its runs: the space of an archive when
   writes fail or a patch that only removes takes the last entry; short reads in
   `GrfInPlace`; relisted patches in `Update`.
