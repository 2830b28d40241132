----------------------------- MODULE MakePatch -----------------------------
(***************************************************************************)
(* mkpatch builds a THOR archive: generate_patch_from_definition            *)
(* (mkpatch/src/main.rs) drives ThorArchiveBuilder (gruf/src/thor/          *)
(* builder.rs), whose Drop finishes the archive on success and on error.    *)
(*                                                                         *)
(* The content of a source file is named by its path.                      *)
(***************************************************************************)
EXTENDS ThorFile

CONSTANTS
  Definitions,   \* patch definitions: sequences of [path, removed, target]
  Sources,       \* data directories: path -> "file", "dir" or "none"
  MakeFaults     \* the steps that may fail: "new", "append", "finish", "kill"

ASSUME MakeAssumption ==
  /\ Definitions \subseteq Seq([path : Path, removed : BOOLEAN, target : Path])
  /\ Sources \subseteq [Path -> {"file", "dir", "none"}]
  /\ MakeFaults \subseteq {"new", "append", "finish", "kill"}

VARIABLES
  job,        \* [entries, sums]: the definition and include_checksums
  source,     \* the data directory
  output,     \* the file at output_path
  at,         \* the entry of the definition that is next
  walk,       \* the files WalkDir has still to give
  entries,    \* the builder's entries
  stage,      \* the next step
  exit        \* what generate_patch_from_definition returns

makeVars == <<job, source, output, at, walk, entries, stage, exit>>

MakeInit ==
  /\ job \in [entries : Definitions, sums : BOOLEAN]
  /\ source \in Sources
  /\ output = Empty
  /\ at = 1 /\ walk = {} /\ entries = NoTable
  /\ stage = "new" /\ exit = "ok"

-----------------------------------------------------------------------------
Entry == job.entries[at]
FilesIn(dir) == {p \in DOMAIN source : source[p] = "file" /\ dir \in Above(p)}
With(f, p, v) == [q \in DOMAIN f \cup {p} |-> IF q = p THEN v ELSE f[q]]
Write(blob) == output' = [output EXCEPT !.body = Append(@, blob)]

(* File::create, and the placeholder for the header. *)
NewArchive ==
  /\ stage = "new"
  /\ \/ stage' = "append" /\ UNCHANGED exit
     \/ "new" \in MakeFaults /\ stage' = "exited" /\ exit' = "error"
  /\ UNCHANGED <<job, source, output, at, walk, entries>>

(* Mutant of AppendRemoval: the first entry of a path stays. *)
AppendRemovalOnce ==
  /\ stage = "append" /\ at <= Len(job.entries)
  /\ Entry.removed
  /\ entries' = With(entries, Entry.path, IF Entry.path \in DOMAIN entries THEN entries[Entry.path] ELSE Removed)
  /\ at' = at + 1
  /\ UNCHANGED <<job, source, output, walk, stage, exit>>

AppendRemoval ==
  /\ stage = "append" /\ at <= Len(job.entries)
  /\ Entry.removed
  /\ entries' = With(entries, Entry.path, Removed)
  /\ at' = at + 1
  /\ UNCHANGED <<job, source, output, walk, stage, exit>>

(* append_file_update: the blob, then its entry. *)
AppendBlob(path, from) ==
  /\ Write(Data(from))
  /\ entries' = With(entries, path, Len(output.body) + 1)

AppendFile ==
  /\ stage = "append" /\ at <= Len(job.entries)
  /\ ~Entry.removed /\ source[Entry.path] = "file"
  /\ AppendBlob(Entry.target, Entry.path)
  /\ at' = at + 1
  /\ UNCHANGED <<job, source, walk, stage, exit>>

WalkDirectory ==
  /\ stage = "append" /\ at <= Len(job.entries)
  /\ ~Entry.removed /\ source[Entry.path] = "dir"
  /\ walk' = FilesIn(Entry.path)
  /\ stage' = "walk"
  /\ UNCHANGED <<job, source, output, at, entries, exit>>

AppendWalked(p) ==
  /\ stage = "walk" /\ p \in walk
  /\ AppendBlob(p, p)
  /\ walk' = walk \ {p}
  /\ UNCHANGED <<job, source, at, stage, exit>>

EndWalk ==
  /\ stage = "walk" /\ walk = {}
  /\ at' = at + 1 /\ stage' = "append"
  /\ UNCHANGED <<job, source, output, walk, entries, exit>>

(* Drop: finish() begins with data.integrity if there is to be one. *)
Drop == stage' = IF job.sums THEN "sums" ELSE "table"

EndAppend ==
  /\ stage = "append" /\ at > Len(job.entries)
  /\ Drop
  /\ UNCHANGED <<job, source, output, at, walk, entries, exit>>

(* Mutant of AppendFails: the entry is there before its blob is written. *)
AppendFailsEntered ==
  /\ stage = "append" /\ at <= Len(job.entries)
  /\ "append" \in MakeFaults /\ ~Entry.removed /\ source[Entry.path] = "file"
  /\ Write(Junk)
  /\ entries' = With(entries, Entry.target, Len(output.body) + 1)
  /\ exit' = "error"
  /\ Drop
  /\ UNCHANGED <<job, source, at, walk>>

(* A path that does not exist, or an error on reading a file or on writing   *)
(* its blob.                                                                *)
AppendFails ==
  /\ stage \in {"append", "walk"} /\ at <= Len(job.entries)
  /\ \/ stage = "append" /\ ~Entry.removed /\ source[Entry.path] = "none" /\ UNCHANGED output
     \/ /\ "append" \in MakeFaults /\ ~Entry.removed
        /\ stage = "walk" => walk # {}
        /\ UNCHANGED output \/ Write(Junk)
  /\ exit' = "error"
  /\ Drop
  /\ UNCHANGED <<job, source, at, walk, entries>>

(* append_data_integrity. *)
Checksums ==
  [p \in {q \in DOMAIN entries : entries[q] # Removed} |-> output.body[entries[p]].data]

AppendSums ==
  /\ stage = "sums"
  /\ Write(Sums(Checksums))
  /\ entries' = With(entries, Integrity, Len(output.body) + 1)
  /\ stage' = "table"
  /\ UNCHANGED <<job, source, at, walk, exit>>

WriteTable ==
  /\ stage = "table"
  /\ output' = [output EXCEPT !.table = entries]
  /\ stage' = "header"
  /\ UNCHANGED <<job, source, at, walk, entries, exit>>

WriteHeader ==
  /\ stage = "header"
  /\ output' = [output EXCEPT !.header = "whole"]
  /\ stage' = "exited"
  /\ UNCHANGED <<job, source, at, walk, entries, exit>>

(* finish() fails: a path that cannot be encoded, an offset past 2^32, a     *)
(* full disk.  Drop drops the error.                                        *)
FinishFails ==
  /\ stage \in {"sums", "table", "header"}
  /\ "finish" \in MakeFaults
  /\ \/ UNCHANGED output
     \/ stage = "sums" /\ Write(Junk)
     \/ stage = "header" /\ output' = [output EXCEPT !.header = "torn"]
  /\ stage' = "exited"
  /\ UNCHANGED <<job, source, at, walk, entries, exit>>

Kill ==
  /\ stage \notin {"exited", "killed"}
  /\ "kill" \in MakeFaults
  /\ \/ UNCHANGED output
     \/ stage = "header" /\ output' = [output EXCEPT !.header = "torn"]
  /\ stage' = "killed"
  /\ UNCHANGED <<job, source, at, walk, entries, exit>>

MakeNext ==
  \/ NewArchive
  \/ AppendRemoval \/ AppendFile
  \/ WalkDirectory \/ (\E p \in walk : AppendWalked(p)) \/ EndWalk
  \/ EndAppend \/ AppendFails
  \/ AppendSums \/ WriteTable \/ WriteHeader \/ FinishFails
  \/ Kill

MakeSpec == MakeInit /\ [][MakeNext]_makeVars

-----------------------------------------------------------------------------
(* What the first k entries of a definition come to: path -> content, or     *)
(* Gone.  Later entries win.                                                *)
Named(e) ==
  IF e.removed THEN [p \in {e.path} |-> Gone]
  ELSE CASE source[e.path] = "file" -> [p \in {e.target} |-> Data(e.path)]
         [] source[e.path] = "dir"  -> [p \in FilesIn(e.path) |-> Data(p)]
         [] OTHER -> NoTable
Naming(p, k) == {i \in 1 .. k : p \in DOMAIN Named(job.entries[i])}
Latest(S)    == CHOOSE i \in S : \A j \in S : j <= i
Defined(k) ==
  [p \in UNION {DOMAIN Named(job.entries[i]) : i \in 1 .. k} |->
     Named(job.entries[Latest(Naming(p, k))])[p]]
WholePatch == Defined(Len(job.entries))

(* What a reader of an archive with the table t gets, data.integrity aside. *)
ViewOf(t, a) ==
  [p \in DOMAIN t \ {Integrity} |-> IF t[p] = Removed THEN Gone ELSE a.body[t[p]]]
View(a) == ViewOf(a.table, a)

(* v is what k entries come to, or one entry more for some of its paths. *)
Between(v, k) ==
  LET next == Defined(IF k < Len(job.entries) THEN k + 1 ELSE k)
  IN  /\ DOMAIN Defined(k) \subseteq DOMAIN v
      /\ \A p \in DOMAIN v :
           \/ p \in DOMAIN Defined(k) /\ v[p] = Defined(k)[p]
           \/ p \in DOMAIN next /\ v[p] = next[p]
Reached == IF exit = "ok" THEN {Len(job.entries)} ELSE 0 .. Len(job.entries)

(* An output that opens has what the whole definition comes to, or after an  *)
(* error what it comes to at some point, with part of the directory that was *)
(* being walked.  Its contents are right and it passes the integrity check:  *)
(* no kill and no failure of finish() leaves anything else that opens.       *)
OpensMeansBuilt ==
  Opens(output) => IsValid(output) /\ \E k \in Reached : Between(View(output), k)

(* What the proofs need: entries point into the body, the table is complete   *)
(* once it is written, and with checksums every content has one.            *)
Stages == {"new", "append", "walk", "sums", "table", "header", "exited", "killed"}

MakeTypeOK ==
  /\ job \in [entries : Seq([path : Path, removed : BOOLEAN, target : Path]), sums : BOOLEAN]
  /\ source \in [Path -> {"file", "dir", "none"}]
  /\ output \in Archives /\ entries \in Tables
  /\ at \in Nat \ {0} /\ walk \subseteq Path
  /\ stage \in Stages /\ exit \in {"ok", "error"}

EntriesPoint ==
  /\ PointsInto(entries, output)
  /\ stage \in {"new", "append", "walk", "sums"} =>
       \A p \in DOMAIN entries :
         entries[p] # Removed => output.body[entries[p]].kind = "data"

TableWritten ==
  /\ output.table # NoTable => stage \in {"header", "exited", "killed"} /\ output.table = entries
  /\ stage = "header" => output.table = entries
  /\ Opens(output) => stage = "exited" /\ output.table = entries

Summed(t, a) ==
  /\ Integrity \in DOMAIN t /\ t[Integrity] # Removed
  /\ a.body[t[Integrity]].kind = "sums"
  /\ \A p \in DOMAIN t \ {Integrity} :
       t[p] # Removed => p \in DOMAIN a.body[t[Integrity]].data
SumsWritten ==
  job.sums /\ (stage \in {"table", "header"} \/ Opens(output)) => Summed(entries, output)

(* What has been entered so far is what the entries done so far come to, with *)
(* the files of the directory that have been walked; once it is finished it   *)
(* is complete and what it has for checksums are those of its contents.       *)
Over(f, g) == [p \in DOMAIN f \cup DOMAIN g |-> IF p \in DOMAIN g THEN g[p] ELSE f[p]]
Entered    == ViewOf(entries, output)
Walked     == [p \in FilesIn(Entry.path) \ walk |-> Data(p)]

BuiltSoFar ==
  /\ stage \in {"new", "append"} =>
       exit = "ok" /\ at <= Len(job.entries) + 1 /\ Entered = Defined(at - 1)
  /\ stage = "walk" =>
       /\ exit = "ok" /\ at <= Len(job.entries)
       /\ ~Entry.removed /\ source[Entry.path] = "dir" /\ walk \subseteq FilesIn(Entry.path)
       /\ Entered = Over(Defined(at - 1), Walked)
  /\ stage \in {"new", "append", "walk", "sums"} => Integrity \notin DOMAIN entries
  /\ stage \in {"sums", "table", "header"} \/ Opens(output) =>
       /\ \E k \in Reached : Between(Entered, k)
       /\ IsValid([output EXCEPT !.table = entries])

MakeInv == MakeTypeOK /\ EntriesPoint /\ TableWritten /\ SumsWritten

(* "Patch generated at" (mkpatch/src/main.rs:73): when mkpatch reports       *)
(* success the archive is there and complete.                               *)
Complete == Opens(output) /\ View(output) = WholePatch
SuccessMeansComplete == stage = "exited" /\ exit = "ok" => Complete
=============================================================================
