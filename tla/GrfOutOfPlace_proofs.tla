------------------------ MODULE GrfOutOfPlace_proofs ------------------------
(***************************************************************************)
(* Theorems about GrfOutOfPlace, for every set of paths, every set of       *)
(* faults and any number of attempts.                                      *)
(***************************************************************************)
EXTENDS GrfOutOfPlace, TLAPS

LEMMA FilesFacts ==
  /\ NoFiles \in Files
  /\ \A fs \in Files : DOMAIN fs \subseteq Path /\ fs \in [DOMAIN fs -> {"old", "new"}]
  /\ \A D \in SUBSET Path : \A fs \in [D -> {"old", "new"}] : fs \in Files
BY DEF Files, NoFiles

(* A file that is an archive is the archive of its files. *)
LEMMA ArchiveFacts ==
  ASSUME NEW f \in File
  PROVE  /\ f.state \in {"absent", "partial", "archive"} /\ f.files \in Files
         /\ f.state = "archive" => f = Archive(f.files)
         /\ f.state = "absent" => f = Absent
BY FilesFacts DEF File, Absent, Partial, Archive

LEMMA StateFacts ==
  /\ Absent \in File /\ Absent.state = "absent"
  /\ Partial \in File /\ Partial.state = "partial"
  /\ \A fs \in Files : Archive(fs) \in File
  /\ \A fs : Archive(fs).state = "archive" /\ Archive(fs).files = fs
BY DEF File, Absent, Partial, Archive

(* What the patch makes of an archive. *)
LEMMA PatchedFacts ==
  ASSUME NEW fs \in Files, TypeOK
  PROVE  /\ Patched(fs) \in Files
         /\ DOMAIN Patched(fs) \cap job.removed = {}
         /\ \A p \in job.imported : p \in DOMAIN Patched(fs) /\ Patched(fs)[p] = "new"
<1> DEFINE D == (DOMAIN fs \ job.removed) \cup job.imported
<1>1. D \in SUBSET Path /\ D \cap job.removed = {}
  BY FilesFacts DEF TypeOK
<1>2. Patched(fs) \in [D -> {"old", "new"}]
  BY FilesFacts DEF Patched
<1> QED
  BY <1>1, <1>2, FilesFacts DEF Patched

-----------------------------------------------------------------------------
LEMMA InitInv == Init => IInv
<1> SUFFICES ASSUME Init PROVE IInv
  OBVIOUS
<1>1. original \in File
  <2>1. \A D \in SUBSET Path : [p \in D |-> "old"] \in Files
    BY FilesFacts
  <2> QED
    BY <2>1, StateFacts DEF Init
<1>2. TypeOK
  BY <1>1, StateFacts, FilesFacts, OutOfPlaceAssumption DEF Init, TypeOK
<1>3. OriginalAt
  BY StateFacts DEF Init, OriginalAt
<1> QED
  BY <1>2, <1>3 DEF Init, IInv, Merging, SuccessMeansPatched, OkNeverStale

(* A step that ends an attempt without changing a file. *)
LEMMA ReturnInv ==
  ASSUME IInv, pc # "closed", pc' = "closed", result' \in {"error", "crashed"},
         UNCHANGED <<job, grf, bak, merge, built, attempts, original>>
  PROVE  IInv'
<1>1. TypeOK'
  BY DEF IInv, TypeOK
<1>2. OriginalAt'
  BY ArchiveFacts, StateFacts DEF IInv, TypeOK, OriginalAt, SameAsOriginal
<1> QED
  BY <1>1, <1>2 DEF IInv, Merging, SuccessMeansPatched, OkNeverStale

LEMMA FailsInv ==
  ASSUME IInv, NEW step \in {"create", "rename", "open", "new", "remove"}, NEW fault,
         Fails(step, fault)
  PROVE  IInv'
BY ReturnInv DEF Fails, Return

LEMMA CrashInv == ASSUME IInv, Crash PROVE IInv'
BY ReturnInv DEF Crash, Return

LEMMA AttemptInv == ASSUME IInv, Attempt PROVE IInv'
<1> USE DEF Attempt, Goto
<1>1. TypeOK'
  BY OutOfPlaceAssumption DEF IInv, TypeOK
<1>2. OriginalAt'
  <2>1. attempts \in Nat /\ attempts' = attempts + 1
    BY OutOfPlaceAssumption DEF IInv, TypeOK
  <2>2. CASE attempts' = 1
    <3>1. grf = original /\ grf' = grf /\ original' = original /\ attempts = 0
      BY <2>1, <2>2 DEF IInv, OriginalAt
    <3>2. grf.state = "absent" => grf = Absent
      BY ArchiveFacts DEF IInv, TypeOK
    <3>3. pc' = "rename" => SameAsOriginal(grf)'
      BY <3>1, ArchiveFacts DEF SameAsOriginal, IInv, TypeOK
    <3> QED
      BY <2>1, <2>2, <3>1, <3>2, <3>3 DEF OriginalAt
  <2>3. CASE attempts' # 1
    BY <2>1, <2>3 DEF OriginalAt
  <2> QED
    BY <2>2, <2>3
<1> QED
  BY <1>1, <1>2 DEF IInv, Merging, SuccessMeansPatched, OkNeverStale

LEMMA CreateFileInv == ASSUME IInv, CreateFile PROVE IInv'
<1> USE DEF CreateFile, Goto
<1>1. TypeOK'
  BY StateFacts DEF IInv, TypeOK
<1>2. OriginalAt'
  BY DEF IInv, OriginalAt, SameAsOriginal
<1> QED
  BY <1>1, <1>2 DEF IInv, Merging, SuccessMeansPatched, OkNeverStale

LEMMA CreateTableInv == ASSUME IInv, CreateTable PROVE IInv'
<1> USE DEF CreateTable, Goto
<1>1. TypeOK'
  <2>1. grf' \in File
    BY StateFacts, FilesFacts DEF IInv, TypeOK
  <2> QED
    BY <2>1 DEF IInv, TypeOK
<1>2. OriginalAt'
  <2>1. attempts # 0
    BY DEF IInv, OriginalAt
  <2>2. attempts = 1 => SameAsOriginal(grf)'
    <3> SUFFICES ASSUME attempts = 1 PROVE SameAsOriginal(grf)'
      OBVIOUS
    <3>1. original = Absent /\ original' = original
      BY DEF IInv, OriginalAt
    <3>2. grf' = Archive(NoFiles) \/ grf' = grf
      OBVIOUS
    <3>3. original.state = "absent" /\ original.files = NoFiles
      BY <3>1 DEF Absent
    <3>4. grf.state # "archive"
      BY StateFacts DEF IInv, OriginalAt
    <3> QED
      BY <3>1, <3>2, <3>3, <3>4 DEF SameAsOriginal
  <2> QED
    BY <2>1, <2>2 DEF OriginalAt
<1> QED
  BY <1>1, <1>2 DEF IInv, Merging, SuccessMeansPatched, OkNeverStale

LEMMA RenameInv == ASSUME IInv, Rename PROVE IInv'
<1> USE DEF Rename, Goto
<1>1. TypeOK'
  BY StateFacts DEF IInv, TypeOK
<1>2. OriginalAt'
  BY DEF IInv, OriginalAt, SameAsOriginal
<1> QED
  BY <1>1, <1>2, StateFacts DEF IInv, Merging, SuccessMeansPatched, OkNeverStale

LEMMA OpenBackupInv == ASSUME IInv, OpenBackup PROVE IInv'
<1> USE DEF OpenBackup, Goto
<1>1. TypeOK'
  <2>1. DOMAIN bak.files \subseteq Path
    BY ArchiveFacts, FilesFacts DEF IInv, TypeOK
  <2> QED
    BY <2>1 DEF IInv, TypeOK
<1>2. OriginalAt'
  BY DEF IInv, OriginalAt, SameAsOriginal
<1>3. Merging'
  BY DEF Merging, ToMerge
<1> QED
  BY <1>1, <1>2, <1>3 DEF IInv, SuccessMeansPatched, OkNeverStale

LEMMA NewFileInv == ASSUME IInv, NewFile PROVE IInv'
<1> USE DEF NewFile, Goto
<1>1. TypeOK'
  BY StateFacts, FilesFacts DEF IInv, TypeOK
<1>2. OriginalAt'
  BY DEF IInv, OriginalAt, SameAsOriginal
<1>3. Merging'
  BY DEF IInv, Merging, ToMerge, NoFiles
<1> QED
  BY <1>1, <1>2, <1>3 DEF IInv, SuccessMeansPatched, OkNeverStale

LEMMA ImportInv == ASSUME IInv, NEW p \in Path, Import(p) PROVE IInv'
<1> USE DEF Import
<1>1. /\ pc = "import" /\ pc' = pc /\ bak' = bak /\ job' = job /\ p \in DOMAIN merge
      /\ DOMAIN merge' = DOMAIN merge \ {p} /\ DOMAIN built' = DOMAIN built \cup {p}
      /\ \A q \in DOMAIN merge' : merge'[q] = merge[q]
      /\ \A q \in DOMAIN built : q # p => built'[q] = built[q]
      /\ built'[p] = IF p \in job.imported THEN "new" ELSE bak.files[p]
  BY DEF IInv, Merging
<1>2. Merging'
  BY <1>1 DEF IInv, Merging, ToMerge
<1>3. TypeOK'
  <2>1. p \notin job.imported => p \in DOMAIN bak.files
    BY <1>1 DEF IInv, Merging, ToMerge
  <2>2. /\ bak.files \in [DOMAIN bak.files -> {"old", "new"}]
        /\ built \in [DOMAIN built -> {"old", "new"}] /\ DOMAIN built \subseteq Path
    BY ArchiveFacts, FilesFacts DEF IInv, TypeOK
  <2>3. built' \in [DOMAIN built \cup {p} -> {"old", "new"}]
    <3>1. \A q \in DOMAIN built \cup {p} : built'[q] \in {"old", "new"}
      BY <1>1, <2>1, <2>2
    <3> QED
      BY <3>1
  <2>4. built' \in Files
    BY <2>2, <2>3, FilesFacts
  <2> QED
    BY <1>1, <2>4 DEF IInv, TypeOK
<1>4. OriginalAt'
  BY DEF IInv, OriginalAt, SameAsOriginal
<1> QED
  BY <1>2, <1>3, <1>4 DEF IInv, SuccessMeansPatched, OkNeverStale

LEMMA DropType == ASSUME IInv, Drop PROVE grf' \in File
BY StateFacts DEF IInv, TypeOK, Drop

LEMMA ImportFailsInv == ASSUME IInv, ImportFails PROVE IInv'
<1> USE DEF ImportFails, Return
<1>1. TypeOK'
  BY DropType DEF IInv, TypeOK
<1>2. OriginalAt'
  <2>1. attempts = 1 /\ original.state = "archive" => bak = original
    BY DEF IInv, OriginalAt, SameAsOriginal
  <2> QED
    BY <2>1 DEF IInv, OriginalAt
<1> QED
  BY <1>1, <1>2 DEF IInv, Merging, SuccessMeansPatched, OkNeverStale

LEMMA AllImportedInv == ASSUME IInv, AllImported PROVE IInv'
<1> USE DEF AllImported, Goto
<1>1. TypeOK'
  BY DropType DEF IInv, TypeOK
<1>2. OriginalAt'
  BY DEF IInv, OriginalAt, SameAsOriginal
<1>3. built = Patched(bak.files)
  <2>1. built \in [DOMAIN built -> {"old", "new"}]
    BY FilesFacts DEF IInv, TypeOK
  <2>2. /\ DOMAIN built = (DOMAIN bak.files \ job.removed) \cup job.imported
        /\ \A p \in DOMAIN built : built[p] = IF p \in job.imported THEN "new" ELSE bak.files[p]
    BY DEF IInv, Merging, ToMerge
  <2> QED
    BY <2>1, <2>2 DEF Patched
<1>4. grf'.state = "archive" => grf' = Archive(Patched(bak.files))
  <2>1. CASE grf' = Archive(built)
    BY <2>1, <1>3
  <2>2. CASE grf' = grf
    BY <2>2, StateFacts DEF IInv, Merging
  <2> QED
    BY <2>1, <2>2 DEF Drop
<1>5. Merging'
  BY <1>4 DEF IInv, Merging, Patched
<1> QED
  BY <1>1, <1>2, <1>5 DEF IInv, SuccessMeansPatched, OkNeverStale

LEMMA RemoveBackupInv == ASSUME IInv, RemoveBackup PROVE IInv'
<1> USE DEF RemoveBackup, Return
<1>1. TypeOK'
  BY StateFacts DEF IInv, TypeOK
<1>2. OriginalAt'
  BY DEF IInv, OriginalAt
<1>3. bak.state = "archive" /\ bak.files \in Files
      /\ (grf.state = "archive" => grf = Archive(Patched(bak.files)))
  BY ArchiveFacts DEF IInv, TypeOK, Merging
<1>4. OkNeverStale'
  BY <1>3, PatchedFacts, StateFacts DEF IInv, OkNeverStale
<1>5. SuccessMeansPatched'
  <2>1. attempts = 1 => bak.files = original.files
    BY <1>3, StateFacts DEF IInv, OriginalAt, SameAsOriginal
  <2> QED
    BY <1>3, <2>1 DEF SuccessMeansPatched, Patched
<1> QED
  BY <1>1, <1>2, <1>4, <1>5 DEF IInv, Merging

LEMMA NextInv == IInv /\ [Next]_vars => IInv'
<1> SUFFICES ASSUME IInv, [Next]_vars PROVE IInv'
  OBVIOUS
<1>1. CASE Attempt \/ CreateFile \/ CreateTable \/ Rename \/ OpenBackup \/ NewFile
  BY <1>1, AttemptInv, CreateFileInv, CreateTableInv, RenameInv, OpenBackupInv, NewFileInv
<1>2. ASSUME NEW p \in Path, Import(p) PROVE IInv'
  BY <1>2, ImportInv
<1>3. CASE ImportFails \/ AllImported \/ RemoveBackup \/ Crash
  BY <1>3, ImportFailsInv, AllImportedInv, RemoveBackupInv, CrashInv
<1>4. CASE RenameFails \/ OpenFails
  BY <1>4, FailsInv, ReturnInv DEF RenameFails, OpenFails, Return
<1>5. CASE Fails("create", "create") \/ Fails("new", "new") \/ Fails("remove", "remove")
  BY <1>5, FailsInv
<1>6. CASE UNCHANGED vars
  <2> USE <1>6 DEF vars
  <2>1. TypeOK' /\ OriginalAt'
    BY DEF IInv, TypeOK, OriginalAt, SameAsOriginal
  <2>2. Merging'
    BY DEF IInv, Merging, ToMerge, Patched
  <2>3. SuccessMeansPatched' /\ OkNeverStale'
    BY DEF IInv, SuccessMeansPatched, OkNeverStale, Patched
  <2> QED
    BY <2>1, <2>2, <2>3 DEF IInv
<1> QED
  BY <1>1, <1>2, <1>3, <1>4, <1>5, <1>6 DEF Next

-----------------------------------------------------------------------------
(* At every step of any number of attempts, whatever fails: what is merged   *)
(* and built is what the backup and the patch say, and through the first     *)
(* attempt the original archive is at its place or in its backup.            *)
THEOREM OutOfPlaceInvariant == Spec => []IInv
<1>1. Init => IInv
  BY InitInv
<1>2. IInv /\ [Next]_vars => IInv'
  BY NextInv
<1> QED
  BY <1>1, <1>2, PTL DEF Spec

(* Type correctness. *)
THEOREM OutOfPlaceTypeOK == Spec => []TypeOK
<1>1. IInv => TypeOK
  BY DEF IInv
<1> QED
  BY <1>1, OutOfPlaceInvariant, PTL

(* A first attempt costs no file until it has returned Ok. *)
THEOREM FirstAttemptKeepsOriginal == Spec => []OneIsWhole
<1>1. IInv => OneIsWhole
  <2> SUFFICES ASSUME IInv, original.state = "archive", attempts <= 1, result # "ok"
               PROVE  Whole(grf) \/ Whole(bak)
    BY DEF OneIsWhole
  <2>1. original = Archive(original.files)
    BY ArchiveFacts DEF IInv, TypeOK
  <2>2. attempts = 0 \/ attempts = 1
    <3>1. attempts \in 0 .. MaxAttempts /\ MaxAttempts \in Nat
      BY OutOfPlaceAssumption DEF IInv, TypeOK
    <3> QED
      BY <3>1
  <2>3. pc \notin {"create", "create table"} \/ attempts = 0
    BY <2>2, StateFacts DEF IInv, OriginalAt
  <2> QED
    BY <2>1, <2>2, <2>3 DEF IInv, TypeOK, OriginalAt, SameAsOriginal, Whole
<1> QED
  BY <1>1, OutOfPlaceInvariant, PTL

(* Ok after a first attempt means exactly the patched archive. *)
THEOREM FirstOkMeansPatched == Spec => []SuccessMeansPatched
<1>1. IInv => SuccessMeansPatched
  BY DEF IInv
<1> QED
  BY <1>1, OutOfPlaceInvariant, PTL

(* An archive that opens after Ok is never stale, after any failures. *)
THEOREM OkIsNeverStale == Spec => []OkNeverStale
<1>1. IInv => OkNeverStale
  BY DEF IInv
<1> QED
  BY <1>1, OutOfPlaceInvariant, PTL
=============================================================================
