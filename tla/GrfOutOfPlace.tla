--------------------------- MODULE GrfOutOfPlace ---------------------------
(***************************************************************************)
(* One THOR patch applied to a GRF archive out of place: apply_patch_to_grf *)
(* and apply_patch_to_grf_oop (rpatchur/src/patcher/patching.rs).          *)
(*                                                                         *)
(* The archive is renamed to its backup, a new archive is built from the   *)
(* backup and the patch, and the backup is removed.  A file is absent,     *)
(* partial (the header is still the placeholder, nobody can open it) or an *)
(* archive; contents are "old" or "new".  The patcher tries the patch      *)
(* again when it failed or was killed.                                     *)
(***************************************************************************)
EXTENDS Integers

CONSTANTS
  Path,          \* relative paths
  Create,        \* values of the create_grf setting: TRUE makes an archive
                 \* that is missing
  Faults,        \* the steps that may fail: see Fault
  MaxAttempts    \* bound: how often the patch is tried

Fault == {"create", "rename", "open", "new", "import", "finish", "remove", "crash"}

ASSUME OutOfPlaceAssumption ==
  /\ Create \subseteq BOOLEAN
  /\ Faults \subseteq Fault
  /\ MaxAttempts \in Nat

Files == UNION {[D -> {"old", "new"}] : D \in SUBSET Path}
Archive(fs) == [state |-> "archive", files |-> fs]
NoFiles == [p \in {} |-> "old"]
Absent  == [state |-> "absent", files |-> NoFiles]
Partial == [state |-> "partial", files |-> NoFiles]

VARIABLES
  job,        \* [removed, imported, create]: the paths the patch removes and
              \* the ones it brings, and the create_grf setting
  grf,        \* the file grf_file_path
  bak,        \* the file backup_file_path
  merge,      \* merge_entries still to import: path -> "grf" or "thor"
  built,      \* what the builder of the new archive has imported
  pc,         \* the next step, "closed" between attempts
  result,     \* of the last attempt: "none", "ok", "error" or "crashed"
  attempts,   \* attempts so far
  original    \* the archive there was at first (history)

vars == <<job, grf, bak, merge, built, pc, result, attempts, original>>

(* The archive exists, or is to be created.  No backup is left over.         *)
Init ==
  /\ job \in [removed : SUBSET Path, imported : SUBSET Path, create : Create]
  /\ job.removed \cap job.imported = {}
  /\ grf \in {Archive([p \in D |-> "old"]) : D \in SUBSET Path}
               \cup (IF job.create THEN {Absent} ELSE {})
  /\ bak = Absent
  /\ merge = [p \in {} |-> "grf"] /\ built = NoFiles
  /\ pc = "closed" /\ result = "none" /\ attempts = 0
  /\ original = grf

-----------------------------------------------------------------------------
Goto(step) == pc' = step /\ UNCHANGED result
Return(r)  == pc' = "closed" /\ result' = r

(* A step that returns its error with `?`, and changes no file. *)
Fails(step, fault) ==
  /\ pc = step
  /\ fault \in Faults
  /\ Return("error")
  /\ UNCHANGED <<job, grf, bak, merge, built, attempts, original>>

Attempt ==
  /\ pc = "closed"
  /\ result # "ok"
  /\ attempts < MaxAttempts
  /\ attempts' = attempts + 1
  /\ Goto(IF grf.state = "absent" /\ job.create THEN "create" ELSE "rename")
  /\ UNCHANGED <<job, grf, bak, merge, built, original>>

(* "Create a new GRF file if needed": an empty archive, finished by Drop.    *)
CreateFile ==
  /\ pc = "create"
  /\ grf' = Partial
  /\ Goto("create table")
  /\ UNCHANGED <<job, bak, merge, built, attempts, original>>

CreateTable ==
  /\ pc = "create table"
  /\ \/ grf' = Archive(NoFiles)
     \/ "finish" \in Faults /\ UNCHANGED grf
  /\ Goto("rename")
  /\ UNCHANGED <<job, bak, merge, built, attempts, original>>

(* fs::rename replaces a backup that is already there. *)
Rename ==
  /\ pc = "rename"
  /\ grf.state # "absent"
  /\ bak' = grf /\ grf' = Absent
  /\ Goto("open")
  /\ UNCHANGED <<job, merge, built, attempts, original>>

RenameFails ==
  \/ Fails("rename", "rename")
  \/ /\ pc = "rename" /\ grf.state = "absent"
     /\ Return("error")
     /\ UNCHANGED <<job, grf, bak, merge, built, attempts, original>>

(* Mutants of OpenBackup: removed files are kept; the old content of a file   *)
(* goes before the one of the patch.                                          *)
OpenBackupKeepingRemoved ==
  /\ pc = "open"
  /\ bak.state = "archive"
  /\ merge' = [p \in DOMAIN bak.files \cup job.imported |->
                 IF p \in job.imported THEN "thor" ELSE "grf"]
  /\ Goto("new")
  /\ UNCHANGED <<job, grf, bak, built, attempts, original>>

OpenBackupGrfFirst ==
  /\ pc = "open"
  /\ bak.state = "archive"
  /\ merge' = [p \in (DOMAIN bak.files \ job.removed) \cup job.imported |->
                 IF p \in DOMAIN bak.files THEN "grf" ELSE "thor"]
  /\ Goto("new")
  /\ UNCHANGED <<job, grf, bak, built, attempts, original>>

(* GrfArchive::open of the backup, and the entries to merge. *)
OpenBackup ==
  /\ pc = "open"
  /\ bak.state = "archive"
  /\ merge' = [p \in (DOMAIN bak.files \ job.removed) \cup job.imported |->
                 IF p \in job.imported THEN "thor" ELSE "grf"]
  /\ Goto("new")
  /\ UNCHANGED <<job, grf, bak, built, attempts, original>>

OpenFails ==
  \/ Fails("open", "open")
  \/ /\ pc = "open" /\ bak.state # "archive"
     /\ Return("error")
     /\ UNCHANGED <<job, grf, bak, merge, built, attempts, original>>

(* Mutant of NewFile: the backup goes once it is open. *)
NewFileWithoutBackup ==
  /\ pc = "new"
  /\ grf' = Partial /\ bak' = Absent
  /\ built' = NoFiles
  /\ Goto("import")
  /\ UNCHANGED <<job, merge, attempts, original>>

NewFile ==
  /\ pc = "new"
  /\ grf' = Partial
  /\ built' = NoFiles
  /\ Goto("import")
  /\ UNCHANGED <<job, bak, merge, attempts, original>>

(* Mutant of Import: where the content comes from is taken for the content. *)
ImportSource(p) ==
  /\ pc = "import"
  /\ p \in DOMAIN merge
  /\ built' = [q \in DOMAIN built \cup {p} |-> IF q # p THEN built[q] ELSE merge[p]]
  /\ merge' = [q \in DOMAIN merge \ {p} |-> merge[q]]
  /\ UNCHANGED <<job, grf, bak, pc, result, attempts, original>>

(* The merged entries are imported in the order of a HashMap: any.  (Where   *)
(* the contents lie is left out, and with it that an empty file of the       *)
(* backup gets no bytes, though its entry keeps its compressed size.)        *)
Import(p) ==
  /\ pc = "import"
  /\ p \in DOMAIN merge
  /\ built' = [q \in DOMAIN built \cup {p} |->
                 IF q # p THEN built[q]
                 ELSE IF merge[p] = "thor" THEN "new" ELSE bak.files[p]]
  /\ merge' = [q \in DOMAIN merge \ {p} |-> merge[q]]
  /\ UNCHANGED <<job, grf, bak, pc, result, attempts, original>>

(* The builder is dropped, with or without an error, and Drop finishes the   *)
(* archive with what was imported; an error of finish() is dropped too.      *)
Drop ==
  \/ grf' = Archive(built)
  \/ "finish" \in Faults /\ UNCHANGED grf

ImportFails ==
  /\ pc = "import"
  /\ DOMAIN merge # {}
  /\ "import" \in Faults
  /\ Drop
  /\ Return("error")
  /\ UNCHANGED <<job, bak, merge, built, attempts, original>>

AllImported ==
  /\ pc = "import"
  /\ DOMAIN merge = {}
  /\ Drop
  /\ Goto("remove")
  /\ UNCHANGED <<job, bak, merge, built, attempts, original>>

RemoveBackup ==
  /\ pc = "remove"
  /\ bak' = Absent
  /\ Return("ok")
  /\ UNCHANGED <<job, grf, merge, built, attempts, original>>

Crash ==
  /\ pc # "closed"
  /\ "crash" \in Faults
  /\ Return("crashed")
  /\ UNCHANGED <<job, grf, bak, merge, built, attempts, original>>

Next ==
  \/ Attempt
  \/ Fails("create", "create") \/ CreateFile \/ CreateTable
  \/ Rename \/ RenameFails \/ OpenBackup \/ OpenFails
  \/ Fails("new", "new") \/ NewFile
  \/ (\E p \in Path : Import(p)) \/ ImportFails \/ AllImported
  \/ RemoveBackup \/ Fails("remove", "remove") \/ Crash

Spec == Init /\ [][Next]_vars

-----------------------------------------------------------------------------
Touched == job.removed \cup job.imported

(* The files fs with the patch applied. *)
Patched(fs) ==
  [p \in (DOMAIN fs \ job.removed) \cup job.imported |->
     IF p \in job.imported THEN "new" ELSE fs[p]]

File == {Absent, Partial} \cup {Archive(fs) : fs \in Files}

TypeOK ==
  /\ job \in [removed : SUBSET Path, imported : SUBSET Path, create : BOOLEAN]
  /\ job.removed \cap job.imported = {}
  /\ {grf, bak, original} \subseteq File
  /\ built \in Files
  /\ DOMAIN merge \subseteq Path
  /\ pc \in {"closed", "create", "create table", "rename", "open", "new", "import", "remove"}
  /\ result \in {"none", "ok", "error", "crashed"}
  /\ attempts \in 0 .. MaxAttempts

(* "This is safer" than in place (patching.rs:81): the files that the patch  *)
(* does not name are always in the archive or in its backup, whatever fails, *)
(* as GrfInPlace!UntouchedOnDisk has it for the other method.                *)
KeptIn(f) ==
  /\ DOMAIN original.files \ Touched \subseteq DOMAIN f.files
  /\ \A p \in DOMAIN original.files \ Touched : f.files[p] = "old"
UntouchedKept == KeptIn(grf) \/ KeptIn(bak)

(* Until a first attempt returns Ok all of the original archive is there, at *)
(* its place or in its backup: no crash and no error costs any file.         *)
Whole(f) == f = Archive(original.files)
OneIsWhole ==
  original.state = "archive" /\ attempts <= 1 /\ result # "ok" =>
    Whole(grf) \/ Whole(bak)

(* When a first attempt returns Ok, and table and header could be written,   *)
(* the archive has the files of the patch and the others, and no backup is   *)
(* left.                                                                     *)
SuccessMeansPatched ==
  result = "ok" /\ attempts = 1 /\ grf.state = "archive" =>
    grf = Archive(Patched(original.files)) /\ bak = Absent

(* An archive that can be opened after Ok is never a stale one: whatever     *)
(* failed before, it has every file the patch brings and none it removes.    *)
OkNeverStale ==
  result = "ok" /\ grf.state = "archive" =>
    /\ DOMAIN grf.files \cap job.removed = {}
    /\ \A p \in job.imported : p \in DOMAIN grf.files /\ grf.files[p] = "new"

(* The inductive invariant behind the properties above: where the original   *)
(* archive is at each step of the first attempt; what was merged, imported   *)
(* and is still to import; what an attempt that returned Ok leaves.          *)
SameAsOriginal(f) ==
  /\ original.state = "archive" => f = original
  /\ f.state = "archive" => f = Archive(original.files)
OriginalAt ==
  /\ attempts = 0 => pc = "closed" /\ grf = original /\ bak = Absent
  /\ attempts = 0 /\ grf.state = "absent" => job.create
  /\ attempts = 1 =>
       /\ pc \in {"create", "create table"} => original = Absent
       /\ pc = "create table" => grf = Partial
       /\ pc = "rename" => SameAsOriginal(grf)
       /\ pc \in {"open", "new", "import", "remove"} => SameAsOriginal(bak)
       /\ pc = "closed" /\ original.state = "archive" /\ result # "ok" =>
            grf = original \/ bak = original
ToMerge == (DOMAIN bak.files \ job.removed) \cup job.imported
Merging ==
  /\ pc \in {"new", "import", "remove"} => bak.state = "archive"
  /\ pc = "new" => DOMAIN merge = ToMerge
  /\ pc = "import" => grf = Partial /\ DOMAIN merge \cup DOMAIN built = ToMerge
  /\ pc \in {"new", "import"} =>
       \A p \in DOMAIN merge : merge[p] = IF p \in job.imported THEN "thor" ELSE "grf"
  /\ pc = "import" =>
       \A p \in DOMAIN built : built[p] = IF p \in job.imported THEN "new" ELSE bak.files[p]
  /\ pc = "remove" /\ grf.state = "archive" => grf = Archive(Patched(bak.files))
IInv ==
  TypeOK /\ OriginalAt /\ Merging /\ SuccessMeansPatched /\ OkNeverStale
    /\ (result = "ok" => pc = "closed")
=============================================================================
