----------------------------- MODULE DiskPatch -----------------------------
(***************************************************************************)
(* A THOR archive applied to the game directory: apply_patch_to_disk        *)
(* (rpatchur/src/patcher/patching.rs) and, before it, the integrity check   *)
(* and apply_patch (rpatchur/src/patcher/core.rs).  The update is tried     *)
(* again after an error or a kill, with the archive downloaded anew.       *)
(*                                                                         *)
(* A path is absent, a directory, or has a content: that of the archive,    *)
(* what it had at first (OldFile) or part of a content (PartFile).         *)
(***************************************************************************)
EXTENDS ThorFile

CONSTANTS
  Disks,        \* game directories: path -> Absent, Dir or OldFile
  DiskFaults,   \* the steps that may fail: "remove", "write", "crash"
  MaxTries      \* bound: how often the patch is tried

Absent   == [kind |-> "absent", data |-> <<>>]
Dir      == [kind |-> "dir", data |-> <<>>]
OldFile  == [kind |-> "old", data |-> <<>>]
PartFile == [kind |-> "part", data |-> <<>>]

ASSUME DiskAssumption ==
  /\ Disks \subseteq [Path -> {Absent, Dir, OldFile}]
  /\ DiskFaults \subseteq {"remove", "write", "crash"}
  /\ MaxTries \in Nat

VARIABLES
  patch,     \* the archive that was downloaded
  disk,      \* the game directory
  first,     \* what it was at first (history)
  todo,      \* paths of the patch still to do
  open,      \* the file that is open for writing: {} or {path}
  stuck,     \* files whose removal failed in this attempt (history)
  result,    \* "none", "running", "ok", or why the attempt ended
  tries      \* attempts so far

diskVars == <<patch, disk, first, todo, open, stuck, result, tries>>

DiskInit ==
  /\ patch = Empty
  /\ disk \in Disks /\ first = disk
  /\ todo = {} /\ open = {} /\ stuck = {}
  /\ result = "none" /\ tries = 0

-----------------------------------------------------------------------------
IsFile(n) == n \notin {Absent, Dir}
Set(p, n) == disk' = [disk EXCEPT ![p] = n]
End(r)    == result' = r /\ open' = {}

(* An attempt with the archive a: the download checks it if check_integrity  *)
(* is set, then ThorArchive::open parses it.                                *)
Try(a, ensure) ==
  /\ result \notin {"running", "ok"}
  /\ tries < MaxTries
  /\ tries' = tries + 1
  /\ patch' = a
  /\ stuck' = {}
  /\ IF Opens(a) /\ (ensure => IsValid(a))
     THEN result' = "running" /\ todo' = DOMAIN a.table \ {Integrity}
     ELSE result' = "refused" /\ todo' = {}
  /\ UNCHANGED <<disk, first, open>>

(* Mutant of IsNext: the entries come in the order of the HashMap. *)
IsNextAny(p) == result = "running" /\ open = {} /\ p \in todo

(* Entries are sorted by offset, so removals, which have offset 0, go first  *)
(* in any order.                                                            *)
IsNext(p) ==
  /\ result = "running" /\ open = {}
  /\ p \in todo
  /\ \A q \in todo : patch.table[p] <= patch.table[q]

(* Errors of remove_file are ignored: it refuses what is no file, and a file *)
(* may be in use.                                                           *)
Remove(p) ==
  /\ IsNext(p) /\ patch.table[p] = Removed
  /\ \/ Set(p, IF IsFile(disk[p]) THEN Absent ELSE disk[p]) /\ UNCHANGED stuck
     \/ "remove" \in DiskFaults /\ IsFile(disk[p]) /\ stuck' = stuck \cup {p} /\ UNCHANGED disk
  /\ todo' = todo \ {p}
  /\ UNCHANGED <<patch, first, open, result, tries>>

Extracts(p) == IsNext(p) /\ patch.table[p] # Removed

(* Mutant of Blocked: a file in the way of a directory is replaced. *)
BlockedNever(p) == FALSE

(* create_dir_all of the parent. *)
Blocked(p) == \E q \in Above(p) : IsFile(disk[q])
WithParents(p) == [q \in DOMAIN disk |-> IF q \in Above(p) THEN Dir ELSE disk[q]]

(* Mutant of OpenFile: the content is read once the file is truncated. *)
OpenFileFirst(p) ==
  /\ Extracts(p) /\ ~Blocked(p)
  /\ disk[p] # Dir
  /\ disk' = [WithParents(p) EXCEPT ![p] = PartFile]
  /\ IF Readable(patch, p)
     THEN open' = {p} /\ UNCHANGED result
     ELSE End("unreadable")
  /\ UNCHANGED <<patch, first, todo, stuck, tries>>

(* The content is read and decompressed, then File::create truncates.        *)
OpenFile(p) ==
  /\ Extracts(p) /\ ~Blocked(p)
  /\ Readable(patch, p) /\ disk[p] # Dir
  /\ disk' = [WithParents(p) EXCEPT ![p] = PartFile]
  /\ open' = {p}
  /\ UNCHANGED <<patch, first, todo, stuck, result, tries>>

(* The first error ends the attempt; the directories stay. *)
OpenFails(p) ==
  /\ Extracts(p)
  /\ \/ Blocked(p) /\ End("blocked") /\ UNCHANGED disk
     \/ /\ ~Blocked(p)
        /\ disk' = WithParents(p)
        /\ \/ ~Readable(patch, p) /\ End("unreadable")
           \/ Readable(patch, p) /\ disk[p] = Dir /\ End("blocked")
           \/ "write" \in DiskFaults /\ End("failed")
  /\ UNCHANGED <<patch, first, todo, stuck, tries>>

WriteFile(p) ==
  /\ p \in open
  /\ Set(p, Blob(patch, p))
  /\ open' = {} /\ todo' = todo \ {p}
  /\ UNCHANGED <<patch, first, stuck, result, tries>>

(* Mutant of WriteFails: a short write is taken for a whole one. *)
WriteFailsUnnoticed ==
  /\ open # {}
  /\ "write" \in DiskFaults
  /\ open' = {} /\ todo' = todo \ open
  /\ UNCHANGED <<patch, disk, first, stuck, result, tries>>

WriteFails ==
  /\ open # {}
  /\ "write" \in DiskFaults
  /\ End("failed")
  /\ UNCHANGED <<patch, disk, first, todo, stuck, tries>>

Finish ==
  /\ result = "running" /\ todo = {}
  /\ End("ok")
  /\ UNCHANGED <<patch, disk, first, todo, stuck, tries>>

Crash ==
  /\ result = "running"
  /\ "crash" \in DiskFaults
  /\ End("crashed")
  /\ UNCHANGED <<patch, disk, first, todo, stuck, tries>>

ApplyNext ==
  \/ \E p \in todo : Remove(p) \/ OpenFile(p) \/ OpenFails(p) \/ WriteFile(p)
  \/ WriteFails \/ Finish \/ Crash

-----------------------------------------------------------------------------
(* Ok means that every file the patch brings is there, and that what it      *)
(* removes is no file any more unless the system refused to remove it,       *)
(* whatever earlier attempts left.                                          *)
OkMeansPatched ==
  result = "ok" =>
    /\ \A p \in UpdatedPaths(patch) : disk[p] = Blob(patch, p)
    /\ \A p \in RemovedPaths(patch) : IsFile(disk[p]) => p \in stuck

(* A file that no entry names is never lost or changed, in no state of no    *)
(* attempt, and only needed directories appear.                             *)
OthersKept ==
  result # "none" =>
    \A p \in DOMAIN disk \ DOMAIN patch.table :
      \/ disk[p] = first[p]
      \/ first[p] = Absent /\ disk[p] = Dir /\ \E q \in UpdatedPaths(patch) : p \in Above(q)

(* The step that ends an attempt changes no file: a content that cannot be   *)
(* decompressed, a path that is in the way or an error costs at most the     *)
(* file that was open.                                                      *)
EndKeepsFiles ==
  [][result = "running" /\ result' # "running" =>
       \A p \in DOMAIN disk : IsFile(disk[p]) \/ IsFile(disk'[p]) => disk'[p] = disk[p]]_diskVars

(* Removals first: the tree refuses an update only where it is in conflict   *)
(* with what was on disk, with another entry, or with a removal that failed. *)
Conflict(p) ==
  \/ first[p] = Dir
  \/ \E q \in UpdatedPaths(patch) : p \in Above(q) \/ q \in Above(p)
  \/ \E q \in Above(p) : IsFile(first[q]) /\ (q \in RemovedPaths(patch) => q \in stuck)
BlockedByConflict ==
  result = "blocked" => \E p \in UpdatedPaths(patch) : Conflict(p)

(* What the proofs need: what is done of an attempt is done, and files and    *)
(* directories come from the patch or were there at first.                  *)
DiskTypeOK ==
  /\ patch \in Archives
  /\ disk \in [Path -> Contents \cup {Absent, Dir, OldFile, PartFile}]
  /\ first \in [Path -> {Absent, Dir, OldFile}]
  /\ todo \subseteq Path /\ open \subseteq Path /\ stuck \subseteq Path
  /\ result \in {"none", "refused", "running", "ok", "blocked", "unreadable", "failed", "crashed"}
  /\ tries \in 0 .. MaxTries

Progress ==
  /\ result # "running" => open = {}
  /\ result = "running" =>
       /\ todo \subseteq DOMAIN patch.table \ {Integrity}
       /\ open \subseteq todo \cap UpdatedPaths(patch)
       /\ \A p \in UpdatedPaths(patch) \ todo : disk[p] = Blob(patch, p)
       /\ \A p \in RemovedPaths(patch) \ todo : IsFile(disk[p]) => p \in stuck

Origin ==
  /\ result = "none" => disk = first
  /\ \A p \in Path : IsFile(disk[p]) => p \in UpdatedPaths(patch) \/ IsFile(first[p])
  /\ \A p \in Path : disk[p] = Dir =>
       first[p] = Dir \/ \E q \in UpdatedPaths(patch) : p \in Above(q)

DiskInv ==
  /\ DiskTypeOK /\ PointsInto(patch.table, patch)
  /\ Progress /\ Origin
  /\ OkMeansPatched /\ OthersKept /\ BlockedByConflict
=============================================================================
