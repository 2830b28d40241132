----------------------------- MODULE Downloads -----------------------------
(***************************************************************************)
(* The concurrent download of a list of patches                            *)
(* (rpatchur/src/patcher/core.rs, download_patches_concurrent): a window of *)
(* at most Concurrent futures over the list (buffer_unordered), the first   *)
(* error drops the others (try_collect), any command does (select!).        *)
(*                                                                         *)
(* The futures run in one task and interleave where they await.  Each      *)
(* writes one temporary file, named after the patch: two lines of the list  *)
(* with one name share a file, which File::create empties.  A file is the   *)
(* set of the chunks it has: a chunk that is missing is a hole or an end    *)
(* cut off.                                                                *)
(***************************************************************************)
EXTENDS Integers, Sequences, FiniteSets

CONSTANTS
  File,             \* file names of patches
  Lists,            \* lists to download: sequences of [index, file]
  Chunks,           \* chunks in which a patch arrives
  Concurrent,       \* CONCURRENT_DOWNLOADS
  EnsureIntegrity,  \* values of the check_integrity setting
  Faults            \* whether the network and the disk may fail

ASSUME DownloadsAssumption ==
  /\ Lists \subseteq Seq([index : Nat, file : File])
  /\ Chunks \in Nat \ {0}
  /\ Concurrent \in Nat \ {0}
  /\ EnsureIntegrity \subseteq BOOLEAN
  /\ Faults \in BOOLEAN

(* What the server has under a name.  A "plain" patch has no checksums.      *)
Remote == {"good", "plain", "corrupt", "missing"}

VARIABLES
  list,     \* patch_list
  ensure,   \* the check_integrity setting
  remote,   \* the server's file for each name
  phase,    \* of the future of each line
  got,      \* chunks each future has written: the position of its handle
  tmp,      \* the temporary files
  number,   \* shared_patch_number
  shown,    \* the number of patches the page was told last
  queue,    \* the positions of finished lines, sorted in the end
  result    \* "running", "ok", "cancelled", or why it failed

vars == <<list, ensure, remote, phase, got, tmp, number, shown, queue, result>>

Init ==
  /\ list \in Lists
  /\ ensure \in EnsureIntegrity
  /\ remote \in [File -> Remote]
  /\ phase = [i \in DOMAIN list |-> "new"]
  /\ got = [i \in DOMAIN list |-> 0]
  /\ tmp = [f \in File |-> {}]
  /\ number = 0 /\ shown = 0
  /\ queue = <<>>
  /\ result = "running"

-----------------------------------------------------------------------------
Done == {i \in DOMAIN list : phase[i] = "done"}
WholeFile == 1 .. Chunks

Orders ==
  {q \in [DOMAIN list -> DOMAIN list] :
     /\ \A k \in DOMAIN list : \E i \in DOMAIN list : q[i] = k
     /\ \A i, j \in DOMAIN list : i < j => list[q[i]].index <= list[q[j]].index}

(* Mutant of InWindow: the window does not move on. *)
InWindowFixed(i) == i <= Concurrent

(* The window takes the lines in order and a finished one frees a place.     *)
InWindow(i) == i <= Cardinality(Done) + Concurrent
Runs(i, ph) == result = "running" /\ InWindow(i) /\ phase[i] = ph
Enter(i, ph) == phase' = [phase EXCEPT ![i] = ph]

Create(i) ==
  /\ Runs(i, "new")
  /\ tmp' = [tmp EXCEPT ![list[i].file] = {}]
  /\ Enter(i, "created")
  /\ UNCHANGED <<list, ensure, remote, got, number, shown, queue, result>>

Answer(i) ==
  /\ Runs(i, "created")
  /\ IF remote[list[i].file] = "missing"
     THEN result' = "not found" /\ UNCHANGED phase
     ELSE Enter(i, "loading") /\ UNCHANGED result
  /\ UNCHANGED <<list, ensure, remote, got, tmp, number, shown, queue>>

(* Mutant of Chunk: the page is told how many lines have begun. *)
ChunkShowingBegun(i) ==
  /\ Runs(i, "loading")
  /\ got[i] < Chunks
  /\ got' = [got EXCEPT ![i] = @ + 1]
  /\ tmp' = [tmp EXCEPT ![list[i].file] = @ \cup {got'[i]}]
  /\ \/ shown' = Cardinality({j \in DOMAIN list : phase[j] = "loading"})
     \/ UNCHANGED shown
  /\ UNCHANGED <<list, ensure, remote, phase, number, queue, result>>

(* Mutant of Chunk: the loop runs on after the end of the body. *)
ChunkPastEnd(i) ==
  /\ Runs(i, "loading")
  /\ got' = [got EXCEPT ![i] = @ + 1]
  /\ tmp' = [tmp EXCEPT ![list[i].file] = @ \cup {got'[i]}]
  /\ shown' \in {shown, number}
  /\ UNCHANGED <<list, ensure, remote, phase, number, queue, result>>

(* A chunk is written, and once a second the progress callback tells the     *)
(* page how many patches are there.  A body that ends before all its chunks  *)
(* is an error of the connection (Fail): the HTTP client is taken to       *)
(* report it, since the code compares no lengths.                            *)
Chunk(i) ==
  /\ Runs(i, "loading")
  /\ got[i] < Chunks
  /\ got' = [got EXCEPT ![i] = @ + 1]
  /\ tmp' = [tmp EXCEPT ![list[i].file] = @ \cup {got'[i]}]
  /\ shown' \in {shown, number}
  /\ UNCHANGED <<list, ensure, remote, phase, number, queue, result>>

(* Mutant of Valid: whatever cannot be checked is valid. *)
ValidUnlessShort(f) == {tmp[f] = WholeFile}

(* is_archive_valid: a patch without checksums is valid, as far as what is   *)
(* there of it can be opened.                                               *)
Valid(f) ==
  CASE remote[f] = "plain" -> IF tmp[f] = WholeFile THEN {TRUE} ELSE BOOLEAN
    [] remote[f] = "good"  -> {tmp[f] = WholeFile}
    [] OTHER               -> {FALSE}

(* Mutant of Collect: the queue stays in the order of completion. *)
CollectUnsorted(i) ==
  /\ number' = number + 1
  /\ Enter(i, "done")
  /\ queue' = Append(queue, i)
  /\ IF Done \cup {i} = DOMAIN list THEN result' = "ok" ELSE UNCHANGED result

(* The line is done; the last one ends the collection and the queue is       *)
(* sorted by index.                                                         *)
Collect(i) ==
  /\ number' = number + 1
  /\ Enter(i, "done")
  /\ IF Done \cup {i} = DOMAIN list
     THEN result' = "ok" /\ queue' \in Orders
     ELSE UNCHANGED result /\ queue' = Append(queue, i)

(* The body has ended: sync_all, integrity check, counting. *)
Finish(i) ==
  /\ Runs(i, "loading")
  /\ got[i] = Chunks
  /\ \/ (ensure => TRUE \in Valid(list[i].file)) /\ Collect(i)
     \/ /\ ensure /\ FALSE \in Valid(list[i].file)
        /\ result' = "corrupt" /\ UNCHANGED <<phase, number, queue>>
  /\ UNCHANGED <<list, ensure, remote, got, tmp, shown>>

NothingToDo ==
  /\ list = <<>> /\ result = "running"
  /\ result' = "ok"
  /\ UNCHANGED <<list, ensure, remote, phase, got, tmp, number, shown, queue>>

(* Creating, requesting, reading, writing or syncing fails. *)
Fail(i) ==
  /\ Faults
  /\ \E ph \in {"new", "created", "loading"} : Runs(i, ph)
  /\ result' = "failed"
  /\ UNCHANGED <<list, ensure, remote, phase, got, tmp, number, shown, queue>>

(* wait_for_cancellation returned first. *)
Cancel ==
  /\ result = "running"
  /\ result' = "cancelled"
  /\ UNCHANGED <<list, ensure, remote, phase, got, tmp, number, shown, queue>>

Progress ==
  NothingToDo \/ \E i \in DOMAIN list : Create(i) \/ Answer(i) \/ Chunk(i) \/ Finish(i)

Next == Progress \/ (\E i \in DOMAIN list : Fail(i)) \/ Cancel

Spec == Init /\ [][Next]_vars

(* Servers answer and the runtime polls what is ready. *)
FairSpec == Spec /\ WF_vars(Progress)

-----------------------------------------------------------------------------
TypeOK ==
  /\ list \in Lists
  /\ ensure \in EnsureIntegrity
  /\ remote \in [File -> Remote]
  /\ phase \in [DOMAIN list -> {"new", "created", "loading", "done"}]
  /\ got \in [DOMAIN list -> 0 .. Chunks]
  /\ tmp \in [File -> SUBSET WholeFile]
  /\ {number, shown} \subseteq 0 .. Len(list)
  /\ queue \in Seq(DOMAIN list)
  /\ result \in {"running", "ok", "cancelled", "failed", "not found", "corrupt"}

(* When the download succeeds every file of the list is complete on disk,    *)
(* also a file that two lines wrote at the same time, and none is corrupt    *)
(* when integrity is ensured.                                               *)
OkMeansWhole ==
  result = "ok" =>
    \A i \in DOMAIN list :
      /\ tmp[list[i].file] = WholeFile
      /\ ensure => remote[list[i].file] # "corrupt"

(* "Archive is corrupt" is said of a corrupt file only, unless two lines     *)
(* share a file: then the first to finish may find holes of the other.       *)
DistinctFiles == \A i, j \in DOMAIN list : list[i].file = list[j].file => i = j
NoFalseAlarm ==
  result = "corrupt" /\ DistinctFiles =>
    \E i \in DOMAIN list : remote[list[i].file] = "corrupt"

(* The number of patches the page shows never goes back and never runs      *)
(* ahead of the patches that are complete.                                  *)
ShownAdvances == [][shown <= shown' /\ shown' <= Cardinality(Done)]_vars

(* With servers that answer a download ends, whatever the list is longer     *)
(* than the window by.                                                      *)
DownloadEnds == <>(result # "running")

(* The inductive invariant behind the properties above: the counter counts   *)
(* the finished lines; some line that writes a file, the last to create it,  *)
(* has all its chunks there; a line that shares its file with no other has   *)
(* nothing but its chunks there.                                            *)
Started(i) == phase[i] # "new"
Counted == number = Cardinality(Done) /\ shown <= number
Positions ==
  \A i \in DOMAIN list :
    /\ phase[i] \in {"new", "created"} => got[i] = 0
    /\ phase[i] = "loading" => remote[list[i].file] # "missing"
    /\ phase[i] = "done" => got[i] = Chunks /\ (ensure => remote[list[i].file] # "corrupt")
LastWriterWhole ==
  \A i \in DOMAIN list : Started(i) =>
    \E j \in DOMAIN list :
      list[j].file = list[i].file /\ Started(j) /\ 1 .. got[j] \subseteq tmp[list[j].file]
OwnFile ==
  DistinctFiles => \A i \in DOMAIN list : Started(i) => tmp[list[i].file] = 1 .. got[i]
Ended == result = "ok" => Done = DOMAIN list /\ queue \in Orders
IInv ==
  TypeOK /\ Counted /\ Positions /\ LastWriterWhole /\ OwnFile /\ Ended /\ NoFalseAlarm

(* To the update routine the download is one step. *)
Named == {list[i].file : i \in DOMAIN list}
Usable(f) == tmp[f] = WholeFile /\ (ensure => remote[f] # "corrupt")
Step ==
  INSTANCE DownloadStep WITH
    outcome <- IF result \in {"running", "ok"} THEN result ELSE "stopped",
    queue <- IF result = "ok" THEN queue ELSE <<>>,
    ready <- IF result = "ok"
             THEN {f \in Named : Usable(f)}
             ELSE {}
StepSpec == Step!Spec
=============================================================================
