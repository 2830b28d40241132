-------------------------- MODULE Delivery_proofs --------------------------
(***************************************************************************)
(* Theorems about Delivery, for every set of paths, definitions, data and   *)
(* game directories, faults, settings and number of attempts.              *)
(***************************************************************************)
EXTENDS Delivery, TLAPS

-----------------------------------------------------------------------------
(* Tables and archives. *)
LEMMA TableFacts ==
  /\ NoTable \in Tables /\ DOMAIN NoTable = {}
  /\ \A t \in Tables : DOMAIN t \subseteq Path \cup {Integrity} /\ t \in [DOMAIN t -> Nat]
BY DEF NoTable, Tables

LEMMA WithTable ==
  ASSUME NEW t \in Tables, NEW p \in Path \cup {Integrity}, NEW n \in Nat
  PROVE  /\ With(t, p, n) \in Tables
         /\ DOMAIN With(t, p, n) = DOMAIN t \cup {p}
         /\ With(t, p, n)[p] = n
         /\ \A q \in DOMAIN t \ {p} : With(t, p, n)[q] = t[q]
<1>1. With(t, p, n) \in [DOMAIN t \cup {p} -> Nat]
  BY TableFacts DEF With
<1>2. DOMAIN t \cup {p} \in SUBSET (Path \cup {Integrity})
  BY TableFacts
<1> QED
  BY <1>1, <1>2 DEF With, Tables

LEMMA ContentFacts ==
  /\ Junk \in Contents
  /\ \A c \in Path : Data(c) \in Contents
  /\ \A b \in Contents : b.kind \in {"data", "sums", "junk"}
  /\ \A b \in Contents : b # Absent /\ b # Dir
BY DEF Contents, Junk, Data, Absent, Dir

LEMMA EmptyFacts ==
  /\ Empty \in Archives /\ Empty.table = NoTable /\ ~Opens(Empty)
  /\ Empty.body = <<>>
BY TableFacts DEF Empty, Archives, Opens

(* A blob more at the end of the body. *)
LEMMA WriteFacts ==
  ASSUME output \in Archives, NEW b \in Contents, Write(b)
  PROVE  /\ output' \in Archives
         /\ output'.header = output.header /\ output'.table = output.table
         /\ Len(output'.body) = Len(output.body) + 1
         /\ output'.body[Len(output.body) + 1] = b
         /\ \A i \in 1 .. Len(output.body) : output'.body[i] = output.body[i]
<1>1. output'.body = Append(output.body, b)
  BY DEF Write, Archives
<1>2. output.body \in Seq(Contents)
  BY DEF Archives
<1>3. output'.header = output.header /\ output'.table = output.table
      /\ output' = [header |-> output.header, body |-> output'.body, table |-> output.table]
  BY DEF Write, Archives
<1>4. output'.body \in Seq(Contents)
  BY <1>1, <1>2
<1> QED
  BY <1>1, <1>2, <1>3, <1>4 DEF Archives

(* What is so of mkpatch's files whenever a blob is appended. *)
LEMMA AppendInv ==
  ASSUME MakeTypeOK, EntriesPoint,
         stage \in {"append", "walk"},
         NEW p \in Path, NEW c \in Path, AppendBlob(p, c)
  PROVE  /\ output' \in Archives /\ entries' \in Tables
         /\ output'.header = output.header /\ output'.table = output.table
         /\ PointsInto(entries', output')
         /\ \A q \in DOMAIN entries' :
              entries'[q] # Removed => output'.body[entries'[q]].kind = "data"
<1>0. output \in Archives /\ entries \in Tables
  BY DEF MakeTypeOK
<1> DEFINE n == Len(output.body) + 1
<1>1. Data(c) \in Contents /\ Write(Data(c)) /\ Data(c).kind = "data"
  BY ContentFacts DEF AppendBlob, Data
<1>2. n \in Nat
  <2>1. output.body \in Seq(Contents)
    BY <1>0 DEF Archives
  <2> QED
    BY <2>1
<1> HIDE DEF n
<1>3. entries' = With(entries, p, n)
  BY DEF AppendBlob, n
<1>4. /\ entries' \in Tables /\ DOMAIN entries' = DOMAIN entries \cup {p}
      /\ entries'[p] = n /\ \A q \in DOMAIN entries \ {p} : entries'[q] = entries[q]
  <2>1. p \in Path \cup {Integrity} /\ n \in Nat
    BY <1>2
  <2>2. /\ With(entries, p, n) \in Tables
        /\ DOMAIN With(entries, p, n) = DOMAIN entries \cup {p}
        /\ With(entries, p, n)[p] = n
        /\ \A q \in DOMAIN entries \ {p} : With(entries, p, n)[q] = entries[q]
    BY <1>0, <2>1, WithTable
  <2> QED
    BY <1>3, <2>2
<1>5. ASSUME NEW q \in DOMAIN entries'
      PROVE  /\ entries'[q] \in 0 .. Len(output'.body)
             /\ entries'[q] # Removed => output'.body[entries'[q]].kind = "data"
  <2>1. CASE q = p
    BY <1>0, <1>1, <1>2, <1>4, <2>1, WriteFacts DEF n
  <2>2. CASE q # p
    <3>1. entries'[q] = entries[q] /\ entries[q] \in 0 .. Len(output.body)
          /\ (entries[q] # Removed => output.body[entries[q]].kind = "data")
      BY <1>4, <2>2 DEF EntriesPoint, PointsInto
    <3> QED
      BY <1>0, <1>1, <1>2, <3>1, WriteFacts DEF Removed, n
  <2> QED
    BY <2>1, <2>2
<1> QED
  BY <1>0, <1>1, <1>4, <1>5, WriteFacts DEF PointsInto

-----------------------------------------------------------------------------
(* mkpatch. *)
LEMMA MakeInitInv == MakeInit => MakeInv
<1> SUFFICES ASSUME MakeInit PROVE MakeInv
  OBVIOUS
<1>1. MakeTypeOK
  <2>1. job.entries \in Seq([path : Path, removed : BOOLEAN, target : Path])
        /\ job = [entries |-> job.entries, sums |-> job.sums] /\ job.sums \in BOOLEAN
    BY MakeAssumption DEF MakeInit
  <2>2. source \in [Path -> {"file", "dir", "none"}]
    BY MakeAssumption DEF MakeInit
  <2> QED
    BY <2>1, <2>2, EmptyFacts, TableFacts DEF MakeInit, MakeTypeOK, Stages
<1>2. EntriesPoint /\ TableWritten /\ SumsWritten
  BY EmptyFacts, TableFacts
  DEF MakeInit, EntriesPoint, TableWritten, SumsWritten, PointsInto
<1> QED
  BY <1>1, <1>2 DEF MakeInv

Early == {"new", "append", "walk", "sums"}

LEMMA NotYetWritten ==
  ASSUME MakeInv, stage \in Early \cup {"table"}
  PROVE  output.table = NoTable /\ ~Opens(output)
BY DEF MakeInv, TableWritten, Early

LEMMA EntryFacts ==
  ASSUME MakeTypeOK, at <= Len(job.entries)
  PROVE  Entry \in [path : Path, removed : BOOLEAN, target : Path]
<1>1. job.entries \in Seq([path : Path, removed : BOOLEAN, target : Path])
  BY DEF MakeTypeOK
<1>2. at \in 1 .. Len(job.entries)
  BY <1>1 DEF MakeTypeOK
<1> QED
  <2> DEFINE E == [path : Path, removed : BOOLEAN, target : Path]
  <2> HIDE DEF E
  <2>1. job.entries \in Seq(E)
    BY <1>1 DEF E
  <2>2. job.entries[at] \in E
    BY <2>1, <1>2
  <2> QED
    BY <2>2 DEF Entry, E

(* A step that neither enters nor writes anything. *)
LEMMA StageInv ==
  ASSUME MakeInv, MakeTypeOK', stage \in Early \cup {"table"},
         UNCHANGED <<job, output, entries>>,
         stage' \in Early => stage \in Early,
         stage' = "table" => ~job.sums, stage' # "header"
  PROVE  MakeInv'
<1>1. output.table = NoTable /\ ~Opens(output) /\ ~Opens(output)'
  BY NotYetWritten DEF Opens
<1>2. EntriesPoint'
  BY DEF MakeInv, EntriesPoint, PointsInto, Early
<1>3. TableWritten' /\ SumsWritten'
  BY <1>1 DEF TableWritten, SumsWritten
<1> QED
  BY <1>2, <1>3 DEF MakeInv

(* A step that enters something and goes on. *)
LEMMA EnterInv ==
  ASSUME MakeInv, MakeTypeOK', stage \in {"append", "walk"}, stage' \in {"append", "walk"},
         output'.header = output.header, output'.table = output.table,
         PointsInto(entries', output'),
         \A q \in DOMAIN entries' :
           entries'[q] # Removed => output'.body[entries'[q]].kind = "data"
  PROVE  MakeInv'
<1>1. output.table = NoTable /\ ~Opens(output)
  BY NotYetWritten DEF Early
<1>2. ~Opens(output)' /\ output'.table = NoTable
  BY <1>1 DEF Opens
<1> QED
  BY <1>2 DEF MakeInv, EntriesPoint, TableWritten, SumsWritten, PointsInto

(* A blob that no entry points to, and what Drop does next. *)
LEMMA WastedInv ==
  ASSUME MakeInv, MakeTypeOK', stage \in Early, NEW b \in Contents, Write(b),
         UNCHANGED <<job, entries>>, stage' \in {"sums", "table", "exited"},
         stage' = "table" => ~job.sums
  PROVE  MakeInv'
<1>0. output \in Archives /\ entries \in Tables
  BY DEF MakeInv, MakeTypeOK
<1>1. output.table = NoTable /\ ~Opens(output)
  BY NotYetWritten
<1>2. output'.table = NoTable /\ ~Opens(output)'
  BY <1>0, <1>1, WriteFacts DEF Opens
<1>3. ASSUME NEW p \in DOMAIN entries
      PROVE  /\ entries[p] \in 0 .. Len(output'.body)
             /\ entries[p] # Removed => output'.body[entries[p]].kind = "data"
  <2>1. /\ entries[p] \in 0 .. Len(output.body)
        /\ entries[p] # Removed => output.body[entries[p]].kind = "data"
    BY DEF MakeInv, EntriesPoint, PointsInto, Early
  <2>2. Len(output.body) \in Nat
    <3>1. output.body \in Seq(Contents)
      BY <1>0 DEF Archives
    <3> QED
      BY <3>1
  <2> QED
    BY <1>0, <2>1, <2>2, WriteFacts DEF Removed
<1> QED
  BY <1>2, <1>3 DEF MakeInv, EntriesPoint, TableWritten, SumsWritten, PointsInto

LEMMA AppendRemovalInv == MakeInv /\ AppendRemoval => MakeInv'
<1> SUFFICES ASSUME MakeInv, AppendRemoval PROVE MakeInv'
  OBVIOUS
<1>0. MakeTypeOK /\ output \in Archives /\ entries \in Tables
  BY DEF MakeInv, MakeTypeOK
<1>1. Entry.path \in Path
  BY <1>0, EntryFacts DEF AppendRemoval
<1>2. entries' = With(entries, Entry.path, 0)
  BY DEF AppendRemoval, Removed
<1>3. /\ entries' \in Tables /\ DOMAIN entries' = DOMAIN entries \cup {Entry.path}
      /\ entries'[Entry.path] = 0
      /\ \A q \in DOMAIN entries \ {Entry.path} : entries'[q] = entries[q]
  <2> DEFINE x == Entry.path
  <2>0. x \in Path
    BY <1>1
  <2>3. entries' = With(entries, x, 0)
    BY <1>2
  <2> HIDE DEF x
  <2>1. x \in Path \cup {Integrity} /\ 0 \in Nat
    BY <2>0
  <2>2. /\ With(entries, x, 0) \in Tables
        /\ DOMAIN With(entries, x, 0) = DOMAIN entries \cup {x}
        /\ With(entries, x, 0)[x] = 0
        /\ \A q \in DOMAIN entries \ {x} : With(entries, x, 0)[q] = entries[q]
    BY <1>0, <2>1, WithTable
  <2> QED
    <3>1. /\ entries' \in Tables /\ DOMAIN entries' = DOMAIN entries \cup {x}
          /\ entries'[x] = 0
          /\ \A q \in DOMAIN entries \ {x} : entries'[q] = entries[q]
      BY <2>2, <2>3
    <3> QED
      BY <3>1 DEF x
<1>4. MakeTypeOK'
  BY <1>0, <1>3 DEF AppendRemoval, MakeTypeOK
<1>5. 0 \in 0 .. Len(output.body)
  <2>1. output.body \in Seq(Contents)
    BY <1>0 DEF Archives
  <2> QED
    BY <2>1
<1>6. /\ PointsInto(entries', output)
      /\ \A q \in DOMAIN entries' :
           entries'[q] # Removed => output.body[entries'[q]].kind = "data"
  BY <1>3, <1>5 DEF MakeInv, EntriesPoint, PointsInto, AppendRemoval, Removed
<1> QED
  BY <1>4, <1>6, EnterInv DEF AppendRemoval

LEMMA AppendFileInv == MakeInv /\ AppendFile => MakeInv'
<1> SUFFICES ASSUME MakeInv, AppendFile PROVE MakeInv'
  OBVIOUS
<1>0. MakeTypeOK /\ EntriesPoint
  BY DEF MakeInv
<1>1. Entry.path \in Path /\ Entry.target \in Path
  BY <1>0, EntryFacts DEF AppendFile
<1>2. /\ output' \in Archives /\ entries' \in Tables
      /\ output'.header = output.header /\ output'.table = output.table
      /\ PointsInto(entries', output')
      /\ \A q \in DOMAIN entries' :
           entries'[q] # Removed => output'.body[entries'[q]].kind = "data"
  BY <1>0, <1>1, AppendInv DEF AppendFile
<1>3. MakeTypeOK'
  BY <1>0, <1>2 DEF AppendFile, MakeTypeOK
<1> QED
  BY <1>2, <1>3, EnterInv DEF AppendFile

LEMMA AppendWalkedInv == ASSUME MakeInv, NEW p \in walk, AppendWalked(p) PROVE MakeInv'
<1>0. MakeTypeOK /\ EntriesPoint
  BY DEF MakeInv
<1>1. p \in Path
  BY <1>0 DEF MakeTypeOK
<1>2. /\ output' \in Archives /\ entries' \in Tables
      /\ output'.header = output.header /\ output'.table = output.table
      /\ PointsInto(entries', output')
      /\ \A q \in DOMAIN entries' :
           entries'[q] # Removed => output'.body[entries'[q]].kind = "data"
  BY <1>0, <1>1, AppendInv DEF AppendWalked
<1>3. MakeTypeOK'
  BY <1>0, <1>2 DEF AppendWalked, MakeTypeOK
<1> QED
  BY <1>2, <1>3, EnterInv DEF AppendWalked

LEMMA AppendFailsInv == MakeInv /\ AppendFails => MakeInv'
<1> SUFFICES ASSUME MakeInv, AppendFails PROVE MakeInv'
  OBVIOUS
<1>0. MakeTypeOK /\ output \in Archives
  BY DEF MakeInv, MakeTypeOK
<1>1. stage \in Early /\ stage' \in {"sums", "table"} /\ (stage' = "table" => ~job.sums)
  BY DEF AppendFails, Drop, Early
<1>2. CASE UNCHANGED output
  <2>1. MakeTypeOK'
    BY <1>0, <1>1, <1>2 DEF AppendFails, MakeTypeOK, Stages
  <2> QED
    BY <1>1, <1>2, <2>1, StageInv DEF AppendFails, Early
<1>3. CASE Write(Junk)
  <2>1. MakeTypeOK'
    BY <1>0, <1>1, <1>3, WriteFacts, ContentFacts DEF AppendFails, MakeTypeOK, Stages
  <2> QED
    BY <1>1, <1>3, <2>1, WastedInv, ContentFacts DEF AppendFails
<1> QED
  BY <1>2, <1>3 DEF AppendFails

(* data.integrity: every content has a checksum. *)
LEMMA ChecksumFacts ==
  ASSUME MakeInv, stage = "sums"
  PROVE  Sums(Checksums) \in Contents
<1> DEFINE D == {q \in DOMAIN entries : entries[q] # Removed}
<1>0. output \in Archives /\ entries \in Tables
  BY DEF MakeInv, MakeTypeOK
<1>1. ASSUME NEW p \in D PROVE output.body[entries[p]].data \in Path
  <2>1. output.body[entries[p]].kind = "data" /\ entries[p] \in 0 .. Len(output.body)
        /\ entries[p] # 0
    BY DEF MakeInv, EntriesPoint, PointsInto, Removed
  <2>2. output.body \in Seq(Contents)
    BY <1>0 DEF Archives
  <2>3. output.body[entries[p]] \in Contents
    BY <2>1, <2>2
  <2> QED
    BY <2>1, <2>3 DEF Contents, Junk
<1>2. Checksums \in [D -> Path]
  BY <1>1 DEF Checksums
<1>3. D \in SUBSET (Path \cup {Integrity})
  BY <1>0, TableFacts
<1> QED
  <2> HIDE DEF D
  <2>1. Checksums \in UNION {[X -> Path] : X \in SUBSET (Path \cup {Integrity})}
    BY <1>2, <1>3
  <2> QED
    BY <2>1 DEF Sums, Contents

LEMMA AppendSumsInv == MakeInv /\ AppendSums => MakeInv'
<1> SUFFICES ASSUME MakeInv, AppendSums PROVE MakeInv'
  OBVIOUS
<1>0. MakeTypeOK /\ output \in Archives /\ entries \in Tables
  BY DEF MakeInv, MakeTypeOK
<1> DEFINE n == Len(output.body) + 1
<1>1. Sums(Checksums) \in Contents /\ Write(Sums(Checksums))
      /\ Sums(Checksums).kind = "sums" /\ Sums(Checksums).data = Checksums
  BY ChecksumFacts DEF AppendSums, Sums
<1>2. n \in Nat /\ n # 0
  <2>1. output.body \in Seq(Contents)
    BY <1>0 DEF Archives
  <2> QED
    BY <2>1
<1> HIDE DEF n
<1>3. entries' = With(entries, Integrity, n)
  BY DEF AppendSums, n
<1>4. /\ entries' \in Tables /\ DOMAIN entries' = DOMAIN entries \cup {Integrity}
      /\ entries'[Integrity] = n
      /\ \A q \in DOMAIN entries \ {Integrity} : entries'[q] = entries[q]
  <2>1. Integrity \in Path \cup {Integrity} /\ n \in Nat
    BY <1>2
  <2>2. /\ With(entries, Integrity, n) \in Tables
        /\ DOMAIN With(entries, Integrity, n) = DOMAIN entries \cup {Integrity}
        /\ With(entries, Integrity, n)[Integrity] = n
        /\ \A q \in DOMAIN entries \ {Integrity} : With(entries, Integrity, n)[q] = entries[q]
    BY <1>0, <2>1, WithTable
  <2> QED
    BY <1>3, <2>2
<1>5. /\ output' \in Archives
      /\ output'.header = output.header /\ output'.table = output.table
      /\ Len(output'.body) = n /\ output'.body[n] = Sums(Checksums)
  BY <1>0, <1>1, WriteFacts DEF n
<1>6. MakeTypeOK'
  BY <1>0, <1>4, <1>5 DEF AppendSums, MakeTypeOK, Stages
<1>7. PointsInto(entries, output)
  BY DEF MakeInv, EntriesPoint
<1>8. PointsInto(entries', output')
  BY <1>2, <1>4, <1>5, <1>7 DEF PointsInto, n
<1>9. EntriesPoint' /\ TableWritten'
  <2>1. output'.table = NoTable /\ ~Opens(output)'
    BY <1>5, NotYetWritten DEF AppendSums, Early, Opens
  <2> QED
    BY <1>8, <2>1 DEF AppendSums, EntriesPoint, TableWritten
<1>10. Summed(entries', output')
  <2>1. \A p \in DOMAIN entries : entries[p] # Removed => p \in DOMAIN Checksums
    BY DEF Checksums
  <2>2. Integrity \in DOMAIN entries' /\ entries'[Integrity] = n /\ n # Removed
    BY <1>2, <1>4 DEF Removed
  <2>3. output'.body[n].kind = "sums" /\ output'.body[n].data = Checksums
    BY <1>1, <1>5
  <2>4. \A p \in DOMAIN entries' \ {Integrity} :
          entries'[p] # Removed => p \in DOMAIN Checksums
    BY <1>4, <2>1
  <2> QED
    BY <2>2, <2>3, <2>4 DEF Summed
<1> QED
  BY <1>6, <1>9, <1>10 DEF MakeInv, SumsWritten

(* The table and the header only point to what is there. *)
LEMMA OutputFacts ==
  ASSUME output \in Archives
  PROVE  /\ \A t \in Tables : [output EXCEPT !.table = t] \in Archives
         /\ \A h \in {"none", "torn", "whole"} : [output EXCEPT !.header = h] \in Archives
         /\ \A t : /\ [output EXCEPT !.table = t].table = t
                   /\ [output EXCEPT !.table = t].body = output.body
                   /\ [output EXCEPT !.table = t].header = output.header
         /\ \A h : /\ [output EXCEPT !.header = h].header = h
                   /\ [output EXCEPT !.header = h].body = output.body
                   /\ [output EXCEPT !.header = h].table = output.table
BY DEF Archives

LEMMA WriteTableInv == MakeInv /\ WriteTable => MakeInv'
<1> SUFFICES ASSUME MakeInv, WriteTable PROVE MakeInv'
  OBVIOUS
<1>0. MakeTypeOK /\ output \in Archives /\ entries \in Tables
  BY DEF MakeInv, MakeTypeOK
<1>1. /\ output' \in Archives /\ output'.table = entries
      /\ output'.body = output.body /\ output'.header = output.header
  BY <1>0, OutputFacts DEF WriteTable
<1>2. MakeTypeOK'
  BY <1>0, <1>1 DEF WriteTable, MakeTypeOK, Stages
<1>3. ~Opens(output)'
  BY <1>1, NotYetWritten DEF WriteTable, Opens
<1>4. EntriesPoint' /\ TableWritten'
  BY <1>1, <1>3 DEF WriteTable, MakeInv, EntriesPoint, PointsInto, TableWritten
<1>5. SumsWritten'
  BY <1>1 DEF WriteTable, MakeInv, SumsWritten, Summed
<1> QED
  BY <1>2, <1>4, <1>5 DEF MakeInv

(* The header is written, or torn by a failure or a kill. *)
LEMMA HeaderInv ==
  ASSUME MakeInv, stage = "header",
         NEW h \in {"torn", "whole"}, output' = [output EXCEPT !.header = h],
         UNCHANGED <<job, source, at, walk, entries, exit>>,
         stage' \in {"exited", "killed"}, h = "whole" => stage' = "exited"
  PROVE  MakeInv'
<1>0. MakeTypeOK /\ output \in Archives /\ entries \in Tables
  BY DEF MakeInv, MakeTypeOK
<1>1. /\ output' \in Archives /\ output'.header = h
      /\ output'.body = output.body /\ output'.table = output.table
  BY <1>0, OutputFacts
<1>2. MakeTypeOK'
  BY <1>0, <1>1 DEF MakeTypeOK, Stages
<1>3. EntriesPoint' /\ TableWritten'
  BY <1>1 DEF MakeInv, EntriesPoint, PointsInto, TableWritten, Opens
<1>4. SumsWritten'
  BY <1>1 DEF MakeInv, SumsWritten, Summed
<1> QED
  BY <1>2, <1>3, <1>4 DEF MakeInv

(* mkpatch ends and leaves the output as it is. *)
LEMMA EndsInv ==
  ASSUME MakeInv, stage \notin {"exited", "killed"},
         UNCHANGED <<job, source, output, at, walk, entries>>,
         exit' \in {"ok", "error"}, stage' \in {"exited", "killed"}
  PROVE  MakeInv'
<1>1. MakeTypeOK'
  BY DEF MakeInv, MakeTypeOK, Stages
<1>2. ~Opens(output)'
  BY DEF MakeInv, TableWritten, Opens
<1>3. EntriesPoint' /\ TableWritten'
  BY <1>2 DEF MakeInv, EntriesPoint, PointsInto, TableWritten
<1> QED
  BY <1>1, <1>2, <1>3 DEF MakeInv, SumsWritten

LEMMA FinishFailsInv == MakeInv /\ FinishFails => MakeInv'
<1> SUFFICES ASSUME MakeInv, FinishFails PROVE MakeInv'
  OBVIOUS
<1>0. MakeTypeOK /\ output \in Archives
  BY DEF MakeInv, MakeTypeOK
<1>1. CASE UNCHANGED output
  BY <1>0, <1>1, EndsInv DEF FinishFails, MakeTypeOK
<1>2. CASE stage = "sums" /\ Write(Junk)
  <2>1. MakeTypeOK'
    BY <1>0, <1>2, WriteFacts, ContentFacts DEF FinishFails, MakeTypeOK, Stages
  <2>2. stage \in Early /\ stage' = "exited"
    BY <1>2 DEF FinishFails, Early
  <2> QED
    BY <1>2, <2>1, <2>2, WastedInv, ContentFacts DEF FinishFails
<1>3. CASE stage = "header" /\ output' = [output EXCEPT !.header = "torn"]
  BY <1>3, HeaderInv DEF FinishFails
<1> QED
  BY <1>1, <1>2, <1>3 DEF FinishFails

LEMMA KillInv == MakeInv /\ Kill => MakeInv'
<1> SUFFICES ASSUME MakeInv, Kill PROVE MakeInv'
  OBVIOUS
<1>1. CASE UNCHANGED output
  BY <1>1, EndsInv DEF Kill, MakeInv, MakeTypeOK
<1>2. CASE stage = "header" /\ output' = [output EXCEPT !.header = "torn"]
  BY <1>2, HeaderInv DEF Kill
<1> QED
  BY <1>1, <1>2 DEF Kill

LEMMA NewArchiveInv == MakeInv /\ NewArchive => MakeInv'
<1> SUFFICES ASSUME MakeInv, NewArchive PROVE MakeInv'
  OBVIOUS
<1>1. CASE stage' = "append" /\ UNCHANGED exit
  <2>1. MakeTypeOK'
    BY <1>1 DEF NewArchive, MakeInv, MakeTypeOK, Stages
  <2> QED
    BY <1>1, <2>1, StageInv DEF NewArchive, Early
<1>2. CASE stage' = "exited" /\ exit' = "error"
  BY <1>2, EndsInv DEF NewArchive
<1> QED
  BY <1>1, <1>2 DEF NewArchive

LEMMA WalkInv == MakeInv /\ (WalkDirectory \/ EndWalk) => MakeInv'
<1> SUFFICES ASSUME MakeInv, WalkDirectory \/ EndWalk PROVE MakeInv'
  OBVIOUS
<1>0. MakeTypeOK
  BY DEF MakeInv
<1>1. CASE WalkDirectory
  <2>1. FilesIn(Entry.path) \subseteq Path
    BY <1>0 DEF FilesIn, MakeTypeOK
  <2>2. MakeTypeOK'
    BY <1>0, <1>1, <2>1 DEF WalkDirectory, MakeTypeOK, Stages
  <2> QED
    BY <1>1, <2>2, StageInv DEF WalkDirectory, Early
<1>2. CASE EndWalk
  <2>1. MakeTypeOK'
    BY <1>0, <1>2 DEF EndWalk, MakeTypeOK, Stages
  <2> QED
    BY <1>2, <2>1, StageInv DEF EndWalk, Early
<1> QED
  BY <1>1, <1>2

LEMMA EndAppendInv == MakeInv /\ EndAppend => MakeInv'
<1> SUFFICES ASSUME MakeInv, EndAppend PROVE MakeInv'
  OBVIOUS
<1>1. MakeTypeOK'
  BY DEF EndAppend, Drop, MakeInv, MakeTypeOK, Stages
<1> QED
  BY <1>1, StageInv DEF EndAppend, Drop, Early

LEMMA MakeStepInv == MakeInv /\ [MakeNext]_makeVars => MakeInv'
<1> SUFFICES ASSUME MakeInv, [MakeNext]_makeVars PROVE MakeInv'
  OBVIOUS
<1>1. CASE NewArchive BY <1>1, NewArchiveInv
<1>2. CASE AppendRemoval BY <1>2, AppendRemovalInv
<1>3. CASE AppendFile BY <1>3, AppendFileInv
<1>4. CASE WalkDirectory \/ EndWalk BY <1>4, WalkInv
<1>5. CASE \E p \in walk : AppendWalked(p) BY <1>5, AppendWalkedInv
<1>6. CASE EndAppend BY <1>6, EndAppendInv
<1>7. CASE AppendFails BY <1>7, AppendFailsInv
<1>8. CASE AppendSums BY <1>8, AppendSumsInv
<1>9. CASE WriteTable BY <1>9, WriteTableInv
<1>10. CASE WriteHeader BY <1>10, HeaderInv DEF WriteHeader
<1>11. CASE FinishFails BY <1>11, FinishFailsInv
<1>12. CASE Kill BY <1>12, KillInv
<1>13. CASE UNCHANGED makeVars
  BY <1>13
  DEF makeVars, MakeInv, MakeTypeOK, EntriesPoint, PointsInto, TableWritten, SumsWritten,
      Summed, Opens
<1> QED
  BY <1>1, <1>2, <1>3, <1>4, <1>5, <1>6, <1>7, <1>8, <1>9, <1>10, <1>11, <1>12, <1>13
  DEF MakeNext

(* Nothing of mkpatch moves once it has ended. *)
LEMMA MakeEnded ==
  ASSUME stage \in {"exited", "killed"} PROVE ~MakeNext
BY DEF MakeNext, NewArchive, AppendRemoval, AppendFile, WalkDirectory, AppendWalked, EndWalk,
       EndAppend, AppendFails, AppendSums, WriteTable, WriteHeader, FinishFails, Kill

-----------------------------------------------------------------------------
(* The game directory. *)
Node == Contents \cup {Absent, Dir, OldFile, PartFile}

LEMMA NodeFacts ==
  /\ Absent # Dir /\ ~IsFile(Absent) /\ ~IsFile(Dir)
  /\ IsFile(OldFile) /\ IsFile(PartFile)
  /\ \A b \in Contents : IsFile(b)
BY ContentFacts DEF IsFile, Absent, Dir, OldFile, PartFile

LEMMA PathFacts ==
  ASSUME DiskTypeOK
  PROVE  /\ DOMAIN disk = Path /\ DOMAIN first = Path
         /\ disk \in [Path -> Node]
         /\ DOMAIN patch.table \ {Integrity} \subseteq Path
         /\ UpdatedPaths(patch) \subseteq DOMAIN patch.table \ {Integrity}
         /\ RemovedPaths(patch) \subseteq DOMAIN patch.table \ {Integrity}
         /\ UpdatedPaths(patch) \cap RemovedPaths(patch) = {}
         /\ \A p \in DOMAIN patch.table \ {Integrity} :
              p \in UpdatedPaths(patch) <=> patch.table[p] # Removed
<1>1. patch.table \in Tables
  BY DEF DiskTypeOK, Archives
<1> QED
  BY <1>1, TableFacts DEF DiskTypeOK, UpdatedPaths, RemovedPaths, Node

LEMMA BlobFacts ==
  ASSUME DiskTypeOK, PointsInto(patch.table, patch), NEW p \in UpdatedPaths(patch)
  PROVE  Blob(patch, p) \in Contents /\ IsFile(Blob(patch, p))
<1>1. patch.body \in Seq(Contents)
  BY DEF DiskTypeOK, Archives
<1>2. patch.table[p] \in 0 .. Len(patch.body) /\ patch.table[p] # 0
  BY DEF PointsInto, UpdatedPaths, Removed
<1>3. patch.body[patch.table[p]] \in Contents
  BY <1>1, <1>2
<1> QED
  BY <1>3, NodeFacts DEF Blob

LEMMA ParentsFacts ==
  ASSUME DiskTypeOK, NEW p \in Path, ~Blocked(p)
  PROVE  /\ WithParents(p) \in [Path -> Node]
         /\ \A q \in Path :
              \/ WithParents(p)[q] = disk[q]
              \/ q \in Above(p) /\ ~IsFile(disk[q]) /\ WithParents(p)[q] = Dir
<1>1. DOMAIN disk = Path /\ disk \in [Path -> Node]
  BY PathFacts
<1>2. \A q \in Path : q \in Above(p) => ~IsFile(disk[q])
  BY DEF Blocked
<1>3. Dir \in Node
  BY DEF Node
<1> QED
  BY <1>1, <1>2, <1>3 DEF WithParents

(* A step on the entry p of a content: p changes, and directories appear     *)
(* above it.                                                               *)
Moves(p) ==
  /\ disk' \in [Path -> Node]
  /\ \A q \in Path :
       \/ disk'[q] = disk[q]
       \/ q = p /\ IsFile(disk'[q])
       \/ q \in Above(p) /\ ~IsFile(disk[q]) /\ disk'[q] = Dir

LEMMA MovesInv ==
  ASSUME DiskInv, result = "running", NEW p \in UpdatedPaths(patch), Moves(p),
         UNCHANGED <<patch, first>>, result' # "none"
  PROVE  /\ Origin' /\ OthersKept'
         /\ \A q \in UpdatedPaths(patch) \ (todo \cup {p}) : disk'[q] = Blob(patch, q)
         /\ \A q \in RemovedPaths(patch) \ todo : IsFile(disk'[q]) => q \in stuck
<1>0. DiskTypeOK /\ PointsInto(patch.table, patch) /\ Progress /\ Origin /\ OthersKept
  BY DEF DiskInv
<1>1. /\ UpdatedPaths(patch)' = UpdatedPaths(patch)
      /\ RemovedPaths(patch)' = RemovedPaths(patch)
  BY DEF UpdatedPaths, RemovedPaths
<1>2. ASSUME NEW q \in Path
      PROVE  /\ IsFile(disk'[q]) => q \in UpdatedPaths(patch) \/ IsFile(first[q])
             /\ disk'[q] = Dir =>
                  first[q] = Dir \/ \E r \in UpdatedPaths(patch) : q \in Above(r)
  <2>1. /\ IsFile(disk[q]) => q \in UpdatedPaths(patch) \/ IsFile(first[q])
        /\ disk[q] = Dir =>
             first[q] = Dir \/ \E r \in UpdatedPaths(patch) : q \in Above(r)
    BY <1>0 DEF Origin
  <2> QED
    BY <2>1, NodeFacts DEF Moves, IsFile
<1>3. Origin'
  BY <1>1, <1>2 DEF Origin, IsFile
<1>4. ASSUME NEW q \in Path, q \notin DOMAIN patch.table
      PROVE  \/ disk'[q] = first[q]
             \/ first[q] = Absent /\ disk'[q] = Dir /\ \E r \in UpdatedPaths(patch) : q \in Above(r)
  <2>1. \/ disk[q] = first[q]
        \/ first[q] = Absent /\ disk[q] = Dir /\ \E r \in UpdatedPaths(patch) : q \in Above(r)
    BY <1>0, <1>4, PathFacts DEF OthersKept
  <2>2. q # p
    BY <1>0, <1>4, PathFacts
  <2>3. CASE disk'[q] = disk[q]
    BY <2>1, <2>3
  <2>4. CASE q \in Above(p) /\ ~IsFile(disk[q]) /\ disk'[q] = Dir
    BY <2>1, <2>4 DEF IsFile
  <2> QED
    BY <2>2, <2>3, <2>4 DEF Moves
<1>5. OthersKept'
  <2>1. DOMAIN disk' = Path
    BY DEF Moves
  <2> QED
    BY <1>1, <1>4, <2>1 DEF OthersKept
<1>6. ASSUME NEW q \in UpdatedPaths(patch), q \notin todo \cup {p}
      PROVE  disk'[q] = Blob(patch, q)
  <2>1. disk[q] = Blob(patch, q) /\ IsFile(disk[q]) /\ q \in Path
    BY <1>0, <1>6, BlobFacts, PathFacts DEF Progress
  <2> QED
    BY <1>6, <2>1 DEF Moves
<1>7. ASSUME NEW q \in RemovedPaths(patch), q \notin todo, IsFile(disk'[q])
      PROVE  q \in stuck
  <2>1. (IsFile(disk[q]) => q \in stuck) /\ q \in Path /\ q # p
    BY <1>0, <1>7, PathFacts DEF Progress
  <2> QED
    BY <1>7, <2>1, NodeFacts DEF Moves
<1> QED
  BY <1>3, <1>5, <1>6, <1>7

LEMMA RemoveInv == ASSUME DiskInv, NEW p \in todo, Remove(p) PROVE DiskInv'
<1>0. /\ DiskTypeOK /\ PointsInto(patch.table, patch) /\ Progress /\ Origin /\ OthersKept
      /\ result = "running" /\ result' = "running"
  BY DEF DiskInv, Remove, IsNext
<1>1. /\ UpdatedPaths(patch)' = UpdatedPaths(patch)
      /\ RemovedPaths(patch)' = RemovedPaths(patch)
  BY DEF Remove, UpdatedPaths, RemovedPaths
<1>2. p \in Path /\ p \in DOMAIN patch.table \ {Integrity} /\ p \notin UpdatedPaths(patch)
  BY <1>0, PathFacts DEF Progress, Remove
<1>3. /\ disk' \in [Path -> Node] /\ stuck' \subseteq Path
      /\ \A q \in Path : q # p => disk'[q] = disk[q]
      /\ disk'[p] = disk[p] \/ (IsFile(disk[p]) /\ disk'[p] = Absent)
      /\ stuck \subseteq stuck' /\ (IsFile(disk'[p]) => p \in stuck')
  <2>1. DOMAIN disk = Path /\ disk \in [Path -> Node] /\ Absent \in Node
    BY <1>0, PathFacts DEF Node
  <2>2. stuck \subseteq Path
    BY <1>0 DEF DiskTypeOK
  <2>3. CASE disk' = [disk EXCEPT ![p] = IF IsFile(disk[p]) THEN Absent ELSE disk[p]]
             /\ UNCHANGED stuck
    BY <1>2, <2>1, <2>2, <2>3, NodeFacts
  <2>4. CASE IsFile(disk[p]) /\ stuck' = stuck \cup {p} /\ UNCHANGED disk
    BY <1>2, <2>1, <2>2, <2>4
  <2> QED
    BY <2>3, <2>4 DEF Remove, Set
<1>4. DiskTypeOK'
  BY <1>0, <1>3 DEF DiskTypeOK, Remove, Node
<1>5. Progress'
  <2>1. \A q \in UpdatedPaths(patch) \ todo' : disk'[q] = Blob(patch, q)
    BY <1>0, <1>2, <1>3, PathFacts DEF Progress, Remove
  <2>2. \A q \in RemovedPaths(patch) \ todo' : IsFile(disk'[q]) => q \in stuck'
    BY <1>0, <1>3, PathFacts DEF Progress, Remove
  <2>3. \A q : Blob(patch, q)' = Blob(patch', q)
    BY DEF Blob
  <2>4. patch' = patch /\ open' = {} /\ todo' \subseteq todo
    BY DEF Remove, IsNext
  <2> QED
    BY <1>0, <1>1, <2>1, <2>2, <2>4 DEF Progress, Blob
<1>6. Origin'
  BY <1>0, <1>1, <1>3, NodeFacts DEF Origin, Remove, IsFile
<1>7. OthersKept'
  <2>1. DOMAIN disk' = Path /\ DOMAIN disk = Path /\ first' = first /\ patch' = patch
    BY <1>0, <1>3, PathFacts DEF Remove
  <2> QED
    BY <1>0, <1>1, <1>2, <1>3, <2>1 DEF OthersKept
<1> QED
  BY <1>0, <1>4, <1>5, <1>6, <1>7 DEF DiskInv, OkMeansPatched, BlockedByConflict, PointsInto, Remove

LEMMA OpenFileInv == ASSUME DiskInv, NEW p \in todo, OpenFile(p) PROVE DiskInv'
<1>0. /\ DiskTypeOK /\ PointsInto(patch.table, patch) /\ Progress
      /\ result = "running" /\ result' = "running" /\ patch' = patch /\ first' = first
  BY DEF DiskInv, OpenFile, Extracts, IsNext
<1>1. /\ UpdatedPaths(patch)' = UpdatedPaths(patch)
      /\ RemovedPaths(patch)' = RemovedPaths(patch)
  BY <1>0 DEF UpdatedPaths, RemovedPaths
<1>2. p \in Path /\ p \in UpdatedPaths(patch) /\ ~Blocked(p)
  BY <1>0, PathFacts DEF Progress, OpenFile, Extracts
<1>3. Moves(p)
  <2>1. disk' = [WithParents(p) EXCEPT ![p] = PartFile]
    BY DEF OpenFile
  <2>2. PartFile \in Node /\ IsFile(PartFile)
    BY NodeFacts DEF Node
  <2> QED
    BY <1>0, <1>2, <2>1, <2>2, ParentsFacts DEF Moves
<1>4. /\ Origin' /\ OthersKept'
      /\ \A q \in UpdatedPaths(patch) \ (todo \cup {p}) : disk'[q] = Blob(patch, q)
      /\ \A q \in RemovedPaths(patch) \ todo : IsFile(disk'[q]) => q \in stuck
  BY <1>0, <1>2, <1>3, MovesInv
<1>5. DiskTypeOK'
  BY <1>0, <1>2, <1>3 DEF DiskTypeOK, OpenFile, Moves, Node
<1>6. Progress'
  <2>1. todo' = todo /\ stuck' = stuck /\ open' = {p} /\ todo \cup {p} = todo
    BY DEF OpenFile
  <2> QED
    BY <1>0, <1>1, <1>2, <1>4, <2>1 DEF Progress, Blob
<1> QED
  BY <1>0, <1>4, <1>5, <1>6 DEF DiskInv, OkMeansPatched, BlockedByConflict, PointsInto

(* A step that ends the attempt without success. *)
LEMMA EndInv ==
  ASSUME DiskInv, DiskTypeOK', UNCHANGED <<patch, first, todo, stuck, tries>>,
         result' \notin {"none", "running", "ok"}, open' = {},
         Origin', OthersKept', BlockedByConflict'
  PROVE  DiskInv'
BY DEF DiskInv, Progress, OkMeansPatched, PointsInto

LEMMA OpenFailsInv == ASSUME DiskInv, NEW p \in todo, OpenFails(p) PROVE DiskInv'
<1>0. /\ DiskTypeOK /\ PointsInto(patch.table, patch) /\ Progress /\ Origin
      /\ result = "running" /\ UNCHANGED <<patch, first, todo, stuck, tries>>
      /\ result' \in {"blocked", "unreadable", "failed"} /\ open' = {}
  BY DEF DiskInv, OpenFails, Extracts, IsNext, End
<1>1. UpdatedPaths(patch)' = UpdatedPaths(patch) /\ RemovedPaths(patch)' = RemovedPaths(patch)
  BY <1>0 DEF UpdatedPaths, RemovedPaths
<1>2. p \in Path /\ p \in UpdatedPaths(patch)
  BY <1>0, PathFacts DEF Progress, OpenFails, Extracts
<1>3. Moves(p)
  <2>1. CASE UNCHANGED disk
    BY <1>0, <2>1, PathFacts DEF Moves
  <2>2. CASE ~Blocked(p) /\ disk' = WithParents(p)
    BY <1>0, <1>2, <2>2, ParentsFacts DEF Moves
  <2> QED
    BY <2>1, <2>2 DEF OpenFails
<1>4. Origin' /\ OthersKept'
  BY <1>0, <1>2, <1>3, MovesInv
<1>5. DiskTypeOK'
  BY <1>0, <1>3 DEF DiskTypeOK, Moves, Node
<1>6. ASSUME result' = "blocked" PROVE Conflict(p)
  <2>1. CASE Blocked(p)
    <3>1. PICK q \in Above(p) : IsFile(disk[q])
      BY <2>1 DEF Blocked
    <3>2. q \in Path
      BY <1>2, <3>1, PathAssumption
    <3>3. CASE q \in UpdatedPaths(patch)
      BY <3>1, <3>3 DEF Conflict
    <3>4. CASE q \notin UpdatedPaths(patch)
      <4>1. IsFile(first[q])
        BY <1>0, <3>1, <3>2, <3>4 DEF Origin
      <4>2. ASSUME q \in RemovedPaths(patch) PROVE q \in stuck
        <5>1. patch.table[q] = 0 /\ patch.table[p] # 0 /\ patch.table[p] \in Nat
          BY <1>0, <1>2, <4>2, TableFacts
          DEF RemovedPaths, UpdatedPaths, Removed, DiskTypeOK, Archives
        <5>2. q \notin todo
          BY <5>1 DEF OpenFails, Extracts, IsNext
        <5> QED
          BY <1>0, <3>1, <4>2, <5>2 DEF Progress
      <4> QED
        BY <3>1, <4>1, <4>2 DEF Conflict
    <3> QED
      BY <3>3, <3>4
  <2>2. CASE disk[p] = Dir
    BY <1>0, <1>2, <2>2 DEF Origin, Conflict
  <2> QED
    BY <1>6, <2>1, <2>2 DEF OpenFails, End
<1>7. BlockedByConflict'
  <2>1. Conflict(p) => Conflict(p)'
    BY <1>0, <1>1 DEF Conflict
  <2> QED
    BY <1>1, <1>2, <1>6, <2>1 DEF BlockedByConflict
<1> QED
  BY <1>0, <1>4, <1>5, <1>7, EndInv

LEMMA WriteFileInv == ASSUME DiskInv, NEW p \in todo, WriteFile(p) PROVE DiskInv'
<1>0. /\ DiskTypeOK /\ PointsInto(patch.table, patch) /\ Progress
      /\ patch' = patch /\ first' = first /\ result' = result /\ p \in open
  BY DEF DiskInv, WriteFile
<1>1. result = "running" /\ p \in UpdatedPaths(patch) /\ p \in Path
  BY <1>0, PathFacts DEF Progress
<1>2. UpdatedPaths(patch)' = UpdatedPaths(patch) /\ RemovedPaths(patch)' = RemovedPaths(patch)
  BY <1>0 DEF UpdatedPaths, RemovedPaths
<1>3. Moves(p) /\ disk'[p] = Blob(patch, p)
  <2>1. disk' = [disk EXCEPT ![p] = Blob(patch, p)] /\ disk \in [Path -> Node]
    BY <1>0, PathFacts DEF WriteFile, Set
  <2>2. Blob(patch, p) \in Node /\ IsFile(Blob(patch, p))
    BY <1>0, <1>1, BlobFacts DEF Node
  <2> QED
    BY <1>1, <2>1, <2>2 DEF Moves
<1>4. /\ Origin' /\ OthersKept'
      /\ \A q \in UpdatedPaths(patch) \ (todo \cup {p}) : disk'[q] = Blob(patch, q)
      /\ \A q \in RemovedPaths(patch) \ todo : IsFile(disk'[q]) => q \in stuck
  BY <1>0, <1>1, <1>3, MovesInv
<1>5. DiskTypeOK'
  BY <1>0, <1>3 DEF DiskTypeOK, WriteFile, Moves, Node
<1>6. Progress'
  <2>1. todo' = todo \ {p} /\ stuck' = stuck /\ open' = {}
    BY DEF WriteFile
  <2>2. p \notin RemovedPaths(patch)
    BY <1>0, <1>1, PathFacts
  <2>3. todo' \subseteq DOMAIN patch.table \ {Integrity}
    BY <1>0, <1>1, <2>1 DEF Progress
  <2>4. \A q \in UpdatedPaths(patch) \ todo' : disk'[q] = Blob(patch, q)
    BY <1>3, <1>4, <2>1
  <2>5. \A q \in RemovedPaths(patch) \ todo' : IsFile(disk'[q]) => q \in stuck
    BY <1>4, <2>1, <2>2
  <2> QED
    BY <1>0, <1>1, <1>2, <2>1, <2>3, <2>4, <2>5 DEF Progress, Blob
<1> QED
  BY <1>0, <1>1, <1>4, <1>5, <1>6 DEF DiskInv, OkMeansPatched, BlockedByConflict, PointsInto

LEMMA StopInv == DiskInv /\ (WriteFails \/ Crash) => DiskInv'
<1> SUFFICES ASSUME DiskInv, WriteFails \/ Crash PROVE DiskInv'
  OBVIOUS
<1>1. /\ UNCHANGED <<patch, disk, first, todo, stuck, tries>> /\ open' = {}
      /\ result' \in {"failed", "crashed"} /\ result = "running"
  BY DEF WriteFails, Crash, End, DiskInv, Progress
<1>2. DiskTypeOK'
  BY <1>1 DEF DiskInv, DiskTypeOK
<1>3. Origin' /\ OthersKept' /\ BlockedByConflict'
  BY <1>1
  DEF DiskInv, Origin, OthersKept, BlockedByConflict, UpdatedPaths, IsFile
<1> QED
  BY <1>1, <1>2, <1>3, EndInv

LEMMA FinishInv == DiskInv /\ Finish => DiskInv'
<1> SUFFICES ASSUME DiskInv, Finish PROVE DiskInv'
  OBVIOUS
<1>1. /\ UNCHANGED <<patch, disk, first, todo, stuck, tries>> /\ open' = {}
      /\ result' = "ok" /\ result = "running" /\ todo = {}
  BY DEF Finish, End
<1>2. DiskTypeOK' /\ Origin' /\ OthersKept' /\ PointsInto(patch.table, patch)'
  BY <1>1
  DEF DiskInv, DiskTypeOK, PointsInto, Origin, OthersKept, UpdatedPaths, IsFile
<1>3. OkMeansPatched'
  BY <1>1
  DEF DiskInv, Progress, OkMeansPatched, UpdatedPaths, RemovedPaths, IsFile, Blob
<1> QED
  BY <1>1, <1>2, <1>3 DEF DiskInv, Progress, BlockedByConflict

LEMMA ApplyInv == DiskInv /\ ApplyNext => DiskInv'
<1> SUFFICES ASSUME DiskInv, ApplyNext PROVE DiskInv'
  OBVIOUS
<1>1. CASE \E p \in todo : Remove(p) BY <1>1, RemoveInv
<1>2. CASE \E p \in todo : OpenFile(p) BY <1>2, OpenFileInv
<1>3. CASE \E p \in todo : OpenFails(p) BY <1>3, OpenFailsInv
<1>4. CASE \E p \in todo : WriteFile(p) BY <1>4, WriteFileInv
<1>5. CASE WriteFails \/ Crash BY <1>5, StopInv
<1>6. CASE Finish BY <1>6, FinishInv
<1> QED
  BY <1>1, <1>2, <1>3, <1>4, <1>5, <1>6 DEF ApplyNext

LEMMA DiskSame == DiskInv /\ UNCHANGED diskVars => DiskInv'
BY DEF diskVars, DiskInv, DiskTypeOK, PointsInto, Progress, Origin, OkMeansPatched, OthersKept,
       BlockedByConflict, Conflict, UpdatedPaths, RemovedPaths, IsFile, Blob

-----------------------------------------------------------------------------
(* An archive that was downloaded. *)
LEMMA DownloadedFacts ==
  ASSUME MakeInv, NEW a,
         a = output \/ \E i \in DOMAIN output.body : a = Altered(output, i)
  PROVE  /\ a \in Archives /\ a.table = output.table /\ a.header = output.header
         /\ PointsInto(a.table, a)
         /\ \A i \in DOMAIN output.body : a.body[i] = output.body[i] \/ a.body[i] = Junk
<1>0. output \in Archives /\ output.body \in Seq(Contents)
  BY DEF MakeInv, MakeTypeOK, Archives
<1>1. PointsInto(output.table, output)
  BY TableFacts DEF MakeInv, TableWritten, EntriesPoint, PointsInto
<1>2. CASE a = output
  BY <1>0, <1>1, <1>2
<1>3. ASSUME NEW i \in DOMAIN output.body, a = Altered(output, i)
      PROVE  /\ a \in Archives /\ a.table = output.table /\ a.header = output.header
             /\ PointsInto(a.table, a)
             /\ \A j \in DOMAIN output.body : a.body[j] = output.body[j] \/ a.body[j] = Junk
  <2>1. /\ a.body = [output.body EXCEPT ![i] = Junk]
        /\ a.table = output.table /\ a.header = output.header
        /\ a = [header |-> output.header, body |-> a.body, table |-> output.table]
    BY <1>0, <1>3 DEF Altered, Archives
  <2>2. a.body \in Seq(Contents) /\ Len(a.body) = Len(output.body)
    BY <1>0, <2>1, ContentFacts
  <2> QED
    BY <1>0, <1>1, <2>1, <2>2 DEF Archives, PointsInto
<1> QED
  BY <1>2, <1>3

(* What passes the integrity check can be read. *)
LEMMA ValidFacts ==
  ASSUME MakeInv, job.sums, NEW a,
         a = output \/ \E i \in DOMAIN output.body : a = Altered(output, i),
         Opens(a), IsValid(a)
  PROVE  \A p \in UpdatedPaths(a) : Readable(a, p)
<1>1. /\ a.table = output.table /\ a.header = output.header
      /\ \A i \in DOMAIN output.body : a.body[i] = output.body[i] \/ a.body[i] = Junk
  BY DownloadedFacts
<1>2. Opens(output) /\ output.table = entries /\ Summed(entries, output)
  BY <1>1 DEF Opens, MakeInv, TableWritten, SumsWritten
<1>3. Integrity \in DOMAIN a.table /\ a.table[Integrity] # Removed
  BY <1>1, <1>2 DEF Summed
<1>4. Readable(a, Integrity)
      /\ \A p \in DOMAIN Blob(a, Integrity).data : Readable(a, p)
  BY <1>3 DEF IsValid
<1>5. a.table[Integrity] \in DOMAIN output.body
  <2>1. output.body \in Seq(Contents)
    BY DEF MakeInv, MakeTypeOK, Archives
  <2>2. entries[Integrity] \in 0 .. Len(output.body)
    BY <1>2 DEF Summed, MakeInv, EntriesPoint, PointsInto
  <2> QED
    BY <1>1, <1>2, <1>3, <2>1, <2>2 DEF Removed
<1>6. Blob(a, Integrity) = output.body[entries[Integrity]]
  BY <1>1, <1>2, <1>3, <1>4, <1>5 DEF Readable, Blob
<1> QED
  BY <1>1, <1>2, <1>4, <1>6 DEF Summed, UpdatedPaths

LEMMA TryInv ==
  ASSUME IInv, stage \in {"exited", "killed"}, NEW a,
         a = output \/ \E i \in DOMAIN output.body : a = Altered(output, i),
         Try(a, ensure), UNCHANGED <<makeVars, ensure>>
  PROVE  DiskInv' /\ Fetched' /\ Checked' /\ CheckedBeforeTouched'
<1>0. /\ MakeInv /\ DiskInv /\ Fetched /\ DiskTypeOK /\ Progress /\ Origin /\ OthersKept
      /\ ensure \in BOOLEAN
  BY DEF IInv, DiskInv
<1>1. a \in Archives /\ a.table = output.table /\ PointsInto(a.table, a)
  BY <1>0, DownloadedFacts
<1>2. /\ patch' = a /\ stuck' = {} /\ UNCHANGED <<disk, first, open>>
      /\ tries' = tries + 1 /\ tries < MaxTries
      /\ result \notin {"running", "ok"}
      /\ \/ /\ result' = "running" /\ todo' = DOMAIN a.table \ {Integrity}
            /\ Opens(a) /\ (ensure => IsValid(a))
         \/ result' = "refused" /\ todo' = {}
  BY DEF Try
<1>3. open' = {} /\ result' \in {"running", "refused"}
  BY <1>0, <1>2 DEF Progress
<1>4. DiskTypeOK'
  <2>1. todo' \subseteq Path
    BY <1>1, <1>2, TableFacts DEF Archives
  <2>2. tries' \in 0 .. MaxTries
    BY <1>0, <1>2, DiskAssumption DEF DiskTypeOK
  <2> QED
    BY <1>0, <1>1, <1>2, <1>3, <2>1, <2>2 DEF DiskTypeOK
<1>5. Progress'
  <2>1. UpdatedPaths(a) \cup RemovedPaths(a) \subseteq DOMAIN a.table \ {Integrity}
    BY DEF UpdatedPaths, RemovedPaths
  <2> QED
    BY <1>2, <1>3, <2>1 DEF Progress
<1>6. result # "none" => UpdatedPaths(a) = UpdatedPaths(patch) /\ a.table = patch.table
  BY <1>0, <1>1 DEF Fetched, UpdatedPaths
<1>7. Origin'
  <2>1. CASE result = "none"
    BY <1>0, <1>2, <1>3, <2>1 DEF Origin, IsFile
  <2>2. CASE result # "none"
    BY <1>0, <1>2, <1>3, <1>6, <2>2 DEF Origin, IsFile
  <2> QED
    BY <2>1, <2>2
<1>8. OthersKept'
  <2>1. CASE result = "none"
    BY <1>0, <1>2, <2>1 DEF Origin, OthersKept
  <2>2. CASE result # "none"
    BY <1>0, <1>2, <1>6, <2>2 DEF OthersKept
  <2> QED
    BY <2>1, <2>2
<1>9. DiskInv'
  BY <1>1, <1>2, <1>3, <1>4, <1>5, <1>7, <1>8
  DEF DiskInv, PointsInto, OkMeansPatched, BlockedByConflict
<1>10. Fetched'
  BY <1>1, <1>2 DEF Fetched, makeVars
<1>11. Checked'
  <2>1. ASSUME result' = "running", ensure, job.sums
        PROVE  \A p \in UpdatedPaths(a) : Readable(a, p)
    BY <1>0, <1>2, <2>1, ValidFacts
  <2> QED
    BY <1>2, <2>1 DEF Checked, makeVars
<1>12. CheckedBeforeTouched'
  BY <1>3 DEF CheckedBeforeTouched
<1> QED
  BY <1>9, <1>10, <1>11, <1>12

LEMMA InitInv == Init => IInv
<1> SUFFICES ASSUME Init PROVE IInv
  OBVIOUS
<1>1. MakeInv
  BY MakeInitInv DEF Init
<1>2. DiskTypeOK
  <2>1. first \in [Path -> {Absent, Dir, OldFile}] /\ disk = first
    BY DiskAssumption DEF Init, DiskInit
  <2>2. disk \in [Path -> Contents \cup {Absent, Dir, OldFile, PartFile}]
    BY <2>1
  <2>3. tries \in 0 .. MaxTries
    BY DiskAssumption DEF Init, DiskInit
  <2> QED
    BY <2>1, <2>2, <2>3, EmptyFacts DEF Init, DiskInit, DiskTypeOK
<1>3. Origin
  <2>1. \A p \in Path : disk[p] = first[p]
    BY DEF Init, DiskInit
  <2> QED
    BY <2>1 DEF Init, DiskInit, Origin, IsFile
<1>4. DiskInv
  BY <1>2, <1>3, EmptyFacts, TableFacts
  DEF Init, DiskInit, DiskInv, PointsInto, Progress, OkMeansPatched, OthersKept, BlockedByConflict
<1> QED
  BY <1>1, <1>4, EnsureAssumption
  DEF Init, DiskInit, IInv, Fetched, Checked, CheckedBeforeTouched

LEMMA StepInv == IInv /\ [Next]_vars => IInv'
<1> SUFFICES ASSUME IInv, [Next]_vars PROVE IInv'
  OBVIOUS
<1>0. MakeInv /\ DiskInv /\ Fetched /\ Checked /\ CheckedBeforeTouched /\ ensure \in BOOLEAN
  BY DEF IInv
<1>1. CASE Make
  <2>1. MakeNext /\ UNCHANGED <<diskVars, ensure>>
    BY <1>1 DEF Make
  <2>2. result = "none" /\ result' = "none"
    BY <1>0, <2>1, MakeEnded DEF Fetched, diskVars
  <2>3. MakeInv' /\ DiskInv'
    BY <1>0, <2>1, MakeStepInv, DiskSame
  <2> QED
    BY <1>0, <2>1, <2>2, <2>3 DEF IInv, Fetched, Checked, CheckedBeforeTouched
<1>2. CASE Download
  <2>1. UNCHANGED <<makeVars, ensure>> /\ stage \in {"exited", "killed"}
    BY <1>2 DEF Download
  <2>2. MakeInv'
    BY <1>0, <2>1, MakeStepInv
  <2>3. DiskInv' /\ Fetched' /\ Checked' /\ CheckedBeforeTouched'
    <3>1. CASE Try(output, ensure)
      BY <2>1, <3>1, TryInv
    <3>2. CASE \E i \in DOMAIN output.body : Try(Altered(output, i), ensure)
      BY <2>1, <3>2, TryInv
    <3> QED
      BY <1>2, <3>1, <3>2 DEF Download
  <2> QED
    BY <1>0, <2>1, <2>2, <2>3 DEF IInv
<1>3. CASE Apply
  <2>1. ApplyNext /\ UNCHANGED <<makeVars, ensure>>
    BY <1>3 DEF Apply
  <2>2. MakeInv' /\ DiskInv'
    BY <1>0, <2>1, MakeStepInv, ApplyInv
  <2>3. patch' = patch /\ result = "running" /\ result' # "none"
    BY <1>0, <2>1
    DEF ApplyNext, Remove, OpenFile, OpenFails, WriteFile, WriteFails, Finish, Crash, Extracts,
        IsNext, End, DiskInv, Progress
  <2>4. Fetched' /\ Checked'
    BY <1>0, <2>1, <2>3 DEF Fetched, Checked, makeVars, UpdatedPaths, Readable, Blob
  <2>5. ASSUME ensure, job.sums PROVE result' # "unreadable"
    <3>2. \A p \in todo : Extracts(p) => p \in UpdatedPaths(patch)
      BY <1>0, <2>3, PathFacts DEF DiskInv, Progress, Extracts
    <3>3. \A p \in UpdatedPaths(patch) : Readable(patch, p)
      BY <1>0, <2>3, <2>5 DEF Checked
    <3>4. ASSUME NEW p \in todo, OpenFails(p) PROVE result' # "unreadable"
      BY <3>2, <3>3, <3>4 DEF OpenFails, End
    <3> QED
      BY <2>1, <2>3, <3>4
      DEF ApplyNext, Remove, OpenFile, WriteFile, WriteFails, Finish, Crash, End
  <2>6. CheckedBeforeTouched'
    BY <2>1, <2>5 DEF CheckedBeforeTouched, makeVars
  <2> QED
    BY <1>0, <2>1, <2>2, <2>4, <2>6 DEF IInv
<1>4. CASE UNCHANGED vars
  <2>1. UNCHANGED <<makeVars, diskVars, ensure>>
    BY <1>4 DEF vars
  <2>2. MakeInv' /\ DiskInv'
    BY <1>0, <2>1, MakeStepInv, DiskSame
  <2> QED
    BY <1>0, <2>1, <2>2
    DEF IInv, Fetched, Checked, CheckedBeforeTouched, makeVars, diskVars, UpdatedPaths, Readable, Blob
<1> QED
  BY <1>1, <1>2, <1>3, <1>4 DEF Next

-----------------------------------------------------------------------------
(* The inductive invariant: what mkpatch has written, what the attempt has    *)
(* done, and where the files of the game directory come from.               *)
THEOREM DeliveryInvariant == Spec => []IInv
BY InitInv, StepInv, PTL DEF Spec

(* When apply_patch_to_disk returns Ok, every content of the patch is there,  *)
(* and what it removes is gone unless the system refused to remove it.       *)
THEOREM OkAlwaysMeansPatched == Spec => []OkMeansPatched
BY DeliveryInvariant, PTL DEF IInv, DiskInv

(* A file that the patch does not name is never changed or lost.             *)
THEOREM OthersAlwaysKept == Spec => []OthersKept
BY DeliveryInvariant, PTL DEF IInv, DiskInv

(* Removals go first: an update is only refused where paths are in conflict. *)
THEOREM OnlyConflictsBlock == Spec => []BlockedByConflict
BY DeliveryInvariant, PTL DEF IInv, DiskInv

(* With checksums and check_integrity, an altered archive is refused before   *)
(* the game directory is touched.                                           *)
THEOREM AlwaysCheckedFirst == Spec => []CheckedBeforeTouched
BY DeliveryInvariant, PTL DEF IInv

(* The step that ends an attempt changes no file.                            *)
LEMMA EndStep ==
  ASSUME IInv, [Next]_vars, result = "running", result' # "running",
         NEW p \in DOMAIN disk, IsFile(disk[p]) \/ IsFile(disk'[p])
  PROVE  disk'[p] = disk[p]
<1>0. DiskTypeOK /\ Progress /\ DOMAIN disk = Path
  BY PathFacts DEF IInv, DiskInv
<1>1. ApplyNext
  BY DEF Next, Make, Download, Try, Apply, vars, diskVars
<1>2. CASE \E q \in todo : OpenFails(q)
  <2>1. PICK q \in todo : OpenFails(q)
    BY <1>2
  <2>2. q \in Path
    BY <1>0 DEF DiskTypeOK
  <2>3. CASE UNCHANGED disk
    BY <2>3
  <2>4. CASE ~Blocked(q) /\ disk' = WithParents(q)
    BY <1>0, <2>2, <2>4, ParentsFacts, NodeFacts
  <2> QED
    BY <2>1, <2>3, <2>4 DEF OpenFails
<1>3. CASE WriteFails \/ Finish \/ Crash
  BY <1>3 DEF WriteFails, Finish, Crash
<1>4. CASE \E q \in todo : Remove(q) \/ OpenFile(q) \/ WriteFile(q)
  BY <1>4 DEF Remove, OpenFile, WriteFile
<1> QED
  BY <1>1, <1>2, <1>3, <1>4 DEF ApplyNext

THEOREM EndsKeepFiles == Spec => EndKeepsFiles
<1>1. IInv /\ [Next]_vars =>
        [result = "running" /\ result' # "running" =>
           \A p \in DOMAIN disk :
             IsFile(disk[p]) \/ IsFile(disk'[p]) => disk'[p] = disk[p]]_diskVars
  BY EndStep
<1> QED
  BY <1>1, DeliveryInvariant, PTL DEF Spec, EndKeepsFiles

-----------------------------------------------------------------------------
(* What a definition comes to, one entry more. *)
LEMMA DefinedFirst == Defined(0) = NoTable
<1>1. UNION {DOMAIN Named(job.entries[i]) : i \in 1 .. 0} = {}
  OBVIOUS
<1> QED
  BY <1>1 DEF Defined, NoTable

LEMMA LatestFacts ==
  ASSUME NEW k \in Nat, NEW p
  PROVE  /\ p \in DOMAIN Named(job.entries[k + 1]) => Latest(Naming(p, k + 1)) = k + 1
         /\ p \notin DOMAIN Named(job.entries[k + 1]) => Naming(p, k + 1) = Naming(p, k)
<1> DEFINE S == Naming(p, k + 1)
<1>1. ASSUME p \in DOMAIN Named(job.entries[k + 1]) PROVE Latest(S) = k + 1
  <2>1. k + 1 \in S /\ \A j \in S : j \in Nat /\ j <= k + 1
    BY <1>1 DEF Naming
  <2> HIDE DEF S
  <2>2. \A i \in S : (\A j \in S : j <= i) => i = k + 1
    BY <2>1
  <2> QED
    BY <2>1, <2>2 DEF Latest
<1>2. ASSUME p \notin DOMAIN Named(job.entries[k + 1]) PROVE Naming(p, k + 1) = Naming(p, k)
  <2>1. \A i : i \in 1 .. k + 1 /\ p \in DOMAIN Named(job.entries[i]) =>
               i \in 1 .. k
    BY <1>2
  <2>2. \A i : i \in 1 .. k => i \in 1 .. k + 1
    OBVIOUS
  <2> QED
    BY <2>1, <2>2 DEF Naming
<1> QED
  BY <1>1, <1>2

LEMMA DefinedNext ==
  ASSUME NEW k \in Nat
  PROVE  Defined(k + 1) = Over(Defined(k), Named(job.entries[k + 1]))
<1> DEFINE D(i) == UNION {DOMAIN Named(job.entries[j]) : j \in 1 .. i}
           g    == Named(job.entries[k + 1])
           At(p, i) == Named(job.entries[Latest(Naming(p, i))])[p]
<1>1. D(k + 1) = D(k) \cup DOMAIN g
  <2>1. 1 .. k + 1 = 1 .. k \cup {k + 1}
    OBVIOUS
  <2> QED
    BY <2>1
<1>2. Defined(k + 1) = [p \in D(k + 1) |-> At(p, k + 1)] /\ Defined(k) = [p \in D(k) |-> At(p, k)]
  BY DEF Defined
<1>3. \A p \in DOMAIN g : At(p, k + 1) = g[p]
  BY LatestFacts
<1>4. \A p : p \notin DOMAIN g => At(p, k + 1) = At(p, k)
  BY LatestFacts
<1> HIDE DEF D, g, At
<1>5. DOMAIN Defined(k) = D(k) /\ \A p \in D(k) : Defined(k)[p] = At(p, k)
  BY <1>2
<1>6. Over(Defined(k), g) = [p \in D(k + 1) |-> At(p, k + 1)]
  BY <1>1, <1>3, <1>4, <1>5 DEF Over
<1> QED
  BY <1>2, <1>6 DEF g

(* What is entered, one path more. *)
LEMMA EnteredWith ==
  ASSUME EntriesPoint, entries \in Tables, Integrity \notin DOMAIN entries, NEW x \in Path, NEW n \in Nat,
         entries' = With(entries, x, n), NEW v,
         v = IF n = Removed THEN Gone ELSE output'.body[n],
         \A i \in 1 .. Len(output.body) : output'.body[i] = output.body[i]
  PROVE  /\ Entered' = Over(Entered, [q \in {x} |-> v])
         /\ Integrity \notin DOMAIN entries'
<1>1. /\ DOMAIN entries' = DOMAIN entries \cup {x}
      /\ entries'[x] = n
      /\ \A q \in DOMAIN entries \ {x} : entries'[q] = entries[q]
  <2>1. x \in Path \cup {Integrity}
    OBVIOUS
  <2>2. /\ DOMAIN With(entries, x, n) = DOMAIN entries \cup {x}
        /\ With(entries, x, n)[x] = n
        /\ \A q \in DOMAIN entries \ {x} : With(entries, x, n)[q] = entries[q]
    BY <2>1, WithTable
  <2> QED
    BY <2>2
<1>2. Integrity \notin DOMAIN entries' /\ x # Integrity
  BY <1>1, NameAssumption
<1> DEFINE T == entries'
           w == [q \in {x} |-> v]
           C(q) == IF entries[q] = Removed THEN Gone ELSE output.body[entries[q]]
           C1(q) == IF T[q] = Removed THEN Gone ELSE output'.body[T[q]]
<1>3. DOMAIN Entered = DOMAIN entries /\ \A q \in DOMAIN entries : Entered[q] = C(q)
  BY DEF Entered, ViewOf
<1>4. Entered' = [q \in DOMAIN T |-> C1(q)]
  BY <1>2 DEF Entered, ViewOf
<1>5. ASSUME NEW q \in DOMAIN T PROVE C1(q) = IF q = x THEN v ELSE Entered[q]
  <2>1. CASE q = x
    BY <1>1, <2>1
  <2>2. CASE q # x
    <3>1. q \in DOMAIN entries /\ T[q] = entries[q] /\ Entered[q] = C(q)
      BY <1>1, <1>3, <2>2
    <3>2. entries[q] \in 0 .. Len(output.body)
      BY <3>1 DEF EntriesPoint, PointsInto
    <3>3. entries[q] # 0 => entries[q] \in 1 .. Len(output.body)
      BY <3>2
    <3> QED
      BY <2>2, <3>1, <3>3 DEF Removed
  <2> QED
    BY <2>1, <2>2
<1>6. Over(Entered, w) = [q \in DOMAIN T |-> IF q = x THEN v ELSE Entered[q]]
  BY <1>1, <1>3 DEF Over
<1> HIDE DEF T, C1
<1>7. [q \in DOMAIN T |-> C1(q)] = [q \in DOMAIN T |-> IF q = x THEN v ELSE Entered[q]]
  BY <1>5
<1> QED
  BY <1>2, <1>4, <1>6, <1>7

(* The definition and the data directory stay as they are. *)
LEMMA DefinedSame ==
  ASSUME UNCHANGED <<job, source>>
  PROVE  /\ \A dir : FilesIn(dir)' = FilesIn(dir)
         /\ \A e : Named(e)' = Named(e)
         /\ \A k : Defined(k)' = Defined(k)
<1>1. ASSUME NEW dir PROVE FilesIn(dir)' = FilesIn(dir)
  BY DEF FilesIn
<1>2. ASSUME NEW e PROVE Named(e)' = Named(e)
  BY <1>1 DEF Named
<1>3. ASSUME NEW p, NEW k PROVE Naming(p, k)' = Naming(p, k)
  BY <1>2 DEF Naming
<1>4. ASSUME NEW k PROVE Defined(k)' = Defined(k)
  BY <1>2, <1>3 DEF Defined
<1> QED
  BY <1>1, <1>2, <1>4

(* mkpatch enters the entries of the definition one by one. *)
LEMMA BuiltInit == MakeInit => BuiltSoFar
<1> SUFFICES ASSUME MakeInit PROVE BuiltSoFar
  OBVIOUS
<1>1. DOMAIN entries = {} /\ entries = NoTable /\ at = 1 /\ stage = "new" /\ exit = "ok" /\ ~Opens(output)
  BY TableFacts, EmptyFacts DEF MakeInit
<1>2. Entered = Defined(at - 1)
  BY <1>1, DefinedFirst DEF Entered, ViewOf, NoTable
<1>3. job.entries \in Seq([path : Path, removed : BOOLEAN, target : Path])
  BY MakeInitInv DEF MakeInv, MakeTypeOK
<1>4. at <= Len(job.entries) + 1
  BY <1>1, <1>3
<1> QED
  BY <1>1, <1>2, <1>4 DEF BuiltSoFar

(* A step that ends mkpatch before the header is whole. *)
LEMMA BuiltEnds ==
  ASSUME stage' \in {"exited", "killed"}, ~Opens(output)'
  PROVE  BuiltSoFar'
BY DEF BuiltSoFar

LEMMA BuiltNew == MakeInv /\ BuiltSoFar /\ NewArchive => BuiltSoFar'
<1> SUFFICES ASSUME MakeInv, BuiltSoFar, NewArchive PROVE BuiltSoFar'
  OBVIOUS
<1>1. ~Opens(output)'
  BY NotYetWritten DEF NewArchive, Opens, Early
<1>2. CASE stage' = "append" /\ UNCHANGED exit
  <2>1. Defined(at - 1)' = Defined(at - 1)
    BY DefinedSame DEF NewArchive
  <2>2. Entered' = Entered
    BY DEF NewArchive, Entered, ViewOf
  <2> QED
    BY <1>1, <1>2, <2>1, <2>2 DEF NewArchive, BuiltSoFar
<1>3. CASE stage' = "exited"
  BY <1>1, <1>3, BuiltEnds
<1> QED
  BY <1>2, <1>3 DEF NewArchive

(* One entry more of the definition has been entered. *)
LEMMA BuiltEntry ==
  ASSUME MakeInv, stage \in {"append", "walk"}, at <= Len(job.entries),
         output'.header = output.header, output'.table = output.table,
         UNCHANGED <<job, source, exit>>, exit = "ok",
         at' = at + 1, stage' = "append", Integrity \notin DOMAIN entries',
         Entered' = Over(Defined(at - 1), Named(Entry))
  PROVE  BuiltSoFar'
<1>1. at \in Nat /\ at - 1 \in Nat /\ (at - 1) + 1 = at /\ at' - 1 = at
  BY DEF MakeInv, MakeTypeOK
<1>2. Len(job.entries) \in Nat
  <2>1. job.entries \in Seq([path : Path, removed : BOOLEAN, target : Path])
    BY DEF MakeInv, MakeTypeOK
  <2> QED
    BY <2>1
<1>3. Defined(at) = Over(Defined(at - 1), Named(Entry))
  <2> DEFINE k == at - 1
  <2>1. k \in Nat /\ k + 1 = at
    BY <1>1
  <2> HIDE DEF k
  <2>2. Defined(k + 1) = Over(Defined(k), Named(job.entries[k + 1]))
    BY <2>1, DefinedNext
  <2> QED
    BY <2>1, <2>2 DEF k, Entry
<1>4. (Defined(at - 1))' = Defined(at)
  BY <1>1, DefinedSame
<1>5. at' <= Len(job'.entries) + 1 /\ ~Opens(output)'
  BY <1>1, <1>2, NotYetWritten DEF Early, Opens
<1> QED
  BY <1>3, <1>4, <1>5 DEF BuiltSoFar

LEMMA BuiltRemoval == MakeInv /\ BuiltSoFar /\ AppendRemoval => BuiltSoFar'
<1> SUFFICES ASSUME MakeInv, BuiltSoFar, AppendRemoval PROVE BuiltSoFar'
  OBVIOUS
<1>0. MakeTypeOK /\ EntriesPoint /\ entries \in Tables /\ output \in Archives
  BY DEF MakeInv, MakeTypeOK
<1>10. Entry.path \in Path
  BY <1>0, EntryFacts DEF AppendRemoval
<1>1. Entered = Defined(at - 1) /\ exit = "ok" /\ Integrity \notin DOMAIN entries
  BY DEF BuiltSoFar, AppendRemoval
<1>2. entries' = With(entries, Entry.path, Removed) /\ output' = output
  BY DEF AppendRemoval
<1>3. Entered' = Over(Entered, [q \in {Entry.path} |-> Gone]) /\ Integrity \notin DOMAIN entries'
  <2> DEFINE x == Entry.path
  <2>1. x \in Path /\ entries' = With(entries, x, Removed) /\ Removed \in Nat
    BY <1>10, <1>2 DEF Removed
  <2> HIDE DEF x
  <2>2. /\ Entered' = Over(Entered, [q \in {x} |-> Gone])
        /\ Integrity \notin DOMAIN entries'
    BY <1>0, <1>1, <1>2, <2>1, EnteredWith
  <2> QED
    BY <2>2 DEF x
<1>4. Named(Entry) = [q \in {Entry.path} |-> Gone]
  BY DEF Named, AppendRemoval
<1>5. /\ stage = "append" /\ stage' = "append" /\ at <= Len(job.entries) /\ at' = at + 1
      /\ output'.header = output.header /\ output'.table = output.table
      /\ UNCHANGED <<job, source, exit>>
  BY DEF AppendRemoval
<1>6. Entered' = Over(Defined(at - 1), Named(Entry))
  BY <1>1, <1>3, <1>4
<1> QED
  BY <1>1, <1>3, <1>5, <1>6, BuiltEntry

(* A blob and its entry. *)
LEMMA EnteredBlob ==
  ASSUME MakeInv, Integrity \notin DOMAIN entries, NEW p \in Path, NEW c \in Path, AppendBlob(p, c)
  PROVE  /\ Entered' = Over(Entered, [q \in {p} |-> Data(c)])
         /\ Integrity \notin DOMAIN entries'
         /\ output'.header = output.header /\ output'.table = output.table
<1> DEFINE n == Len(output.body) + 1
<1>0. EntriesPoint /\ entries \in Tables /\ output \in Archives
  BY DEF MakeInv, MakeTypeOK
<1>1. n \in Nat /\ n # Removed
  <2>1. output.body \in Seq(Contents)
    BY <1>0 DEF Archives
  <2> QED
    BY <2>1 DEF Removed
<1>2. Data(c) \in Contents /\ Write(Data(c)) /\ entries' = With(entries, p, n)
  BY ContentFacts DEF AppendBlob
<1>3. /\ output'.header = output.header /\ output'.table = output.table
      /\ output'.body[n] = Data(c)
      /\ \A i \in 1 .. Len(output.body) : output'.body[i] = output.body[i]
  BY <1>0, <1>2, WriteFacts
<1> HIDE DEF n
<1> QED
  BY <1>0, <1>1, <1>2, <1>3, EnteredWith

LEMMA BuiltFile == MakeInv /\ BuiltSoFar /\ AppendFile => BuiltSoFar'
<1> SUFFICES ASSUME MakeInv, BuiltSoFar, AppendFile PROVE BuiltSoFar'
  OBVIOUS
<1>0. Entry.path \in Path /\ Entry.target \in Path
  BY EntryFacts DEF MakeInv, AppendFile
<1>1. Entered = Defined(at - 1) /\ exit = "ok" /\ Integrity \notin DOMAIN entries
  BY DEF BuiltSoFar, AppendFile
<1>2. /\ Entered' = Over(Entered, [q \in {Entry.target} |-> Data(Entry.path)])
      /\ Integrity \notin DOMAIN entries'
      /\ output'.header = output.header /\ output'.table = output.table
  BY <1>0, <1>1, EnteredBlob DEF AppendFile
<1>3. Named(Entry) = [q \in {Entry.target} |-> Data(Entry.path)]
  BY DEF Named, AppendFile
<1> QED
  BY <1>1, <1>2, <1>3, BuiltEntry DEF AppendFile

LEMMA BuiltWalk == MakeInv /\ BuiltSoFar /\ (WalkDirectory \/ EndWalk) => BuiltSoFar'
<1> SUFFICES ASSUME MakeInv, BuiltSoFar, WalkDirectory \/ EndWalk PROVE BuiltSoFar'
  OBVIOUS
<1>2. CASE WalkDirectory
  <2>1. /\ Entered = Defined(at - 1) /\ exit = "ok" /\ Integrity \notin DOMAIN entries
        /\ stage' = "walk" /\ UNCHANGED <<job, source, output, at, entries, exit>>
    BY <1>2 DEF BuiltSoFar, WalkDirectory
  <2>2. ~Opens(output)' /\ Entered' = Entered /\ Entry' = Entry
    BY <1>2, NotYetWritten DEF WalkDirectory, Opens, Early, Entry, Entered, ViewOf
  <2>3. (Defined(at - 1))' = Defined(at - 1) /\ FilesIn(Entry.path)' = FilesIn(Entry.path)
    BY <2>1, <2>2, DefinedSame
  <2>4. walk' = FilesIn(Entry.path)
    BY <1>2 DEF WalkDirectory
  <2>5. DOMAIN Walked' = {}
    BY <2>3, <2>4 DEF Walked
  <2>6. Over(Defined(at - 1), Walked') = Defined(at - 1)
    BY <2>5 DEF Over, Defined
  <2>7. Over(Defined(at - 1), Walked)' = Over(Defined(at - 1), Walked')
    BY <2>3 DEF Over
  <2> QED
    BY <1>2, <2>1, <2>2, <2>3, <2>4, <2>6, <2>7 DEF BuiltSoFar, WalkDirectory
<1>3. CASE EndWalk
  <2>1. /\ Entered = Over(Defined(at - 1), Walked) /\ exit = "ok" /\ Integrity \notin DOMAIN entries
        /\ ~Entry.removed /\ source[Entry.path] = "dir" /\ at <= Len(job.entries)
        /\ walk = {}
    BY <1>3 DEF BuiltSoFar, EndWalk
  <2>2. Walked = Named(Entry)
    BY <2>1 DEF Walked, Named
  <2>3. Entered' = Entered
    BY <1>3 DEF EndWalk, Entered, ViewOf
  <2> QED
    BY <1>3, <2>1, <2>2, <2>3, BuiltEntry DEF EndWalk
<1> QED
  BY <1>2, <1>3

LEMMA BuiltWalked == ASSUME MakeInv, BuiltSoFar, NEW p \in walk, AppendWalked(p) PROVE BuiltSoFar'
<1> DEFINE D == Defined(at - 1)
           F == FilesIn(Entry.path)
<1>1. /\ Entered = Over(D, Walked) /\ exit = "ok" /\ Integrity \notin DOMAIN entries
      /\ at <= Len(job.entries) /\ walk \subseteq F
      /\ ~Entry.removed /\ source[Entry.path] = "dir"
      /\ stage' = "walk" /\ walk' = walk \ {p} /\ UNCHANGED <<job, source, at, exit>>
  BY DEF BuiltSoFar, AppendWalked
<1>2. p \in Path /\ p \in F
  BY <1>1 DEF MakeInv, MakeTypeOK
<1>3. /\ Entered' = Over(Entered, [q \in {p} |-> Data(p)])
      /\ Integrity \notin DOMAIN entries'
      /\ output'.header = output.header /\ output'.table = output.table
  BY <1>1, <1>2, EnteredBlob DEF AppendWalked
<1>4. Entry' = Entry
  BY <1>1 DEF Entry
<1>5. (Defined(at - 1))' = D /\ FilesIn(Entry.path)' = F
  BY <1>1, <1>4, DefinedSame
<1>6. Walked = [q \in F \ walk |-> Data(q)] /\ Walked' = [q \in F \ walk' |-> Data(q)]
  BY <1>5 DEF Walked
<1>7. F \ walk' = (F \ walk) \cup {p}
  BY <1>1, <1>2
<1> HIDE DEF D, F
<1>8. Over(Over(D, Walked), [q \in {p} |-> Data(p)]) = Over(D, Walked')
  BY <1>6, <1>7 DEF Over
<1>9. Over(Defined(at - 1), Walked)' = Over(D, Walked')
  BY <1>5 DEF Over
<1>10. ~Opens(output)'
  BY <1>3, NotYetWritten DEF AppendWalked, Opens, Early
<1>11. walk' \subseteq FilesIn(Entry.path)'
  BY <1>1, <1>5
<1> QED
  BY <1>1, <1>3, <1>4, <1>8, <1>9, <1>10, <1>11 DEF BuiltSoFar

(* What is_valid and a reader see is the table and the body. *)
LEMMA SeenFacts ==
  ASSUME NEW a \in Archives, NEW t
  PROVE  /\ [a EXCEPT !.table = t].table = t
         /\ [a EXCEPT !.table = t].body = a.body
BY DEF Archives

LEMMA ValidSame ==
  ASSUME NEW a, NEW b, a.table = b.table, a.body = b.body
  PROVE  IsValid(a) <=> IsValid(b)
<1>1. \A p : Blob(a, p) = Blob(b, p) /\ (Readable(a, p) <=> Readable(b, p))
  BY DEF Blob, Readable
<1> QED
  BY <1>1 DEF IsValid

LEMMA BetweenSame ==
  ASSUME UNCHANGED <<job, source>>
  PROVE  \A v, k : Between(v, k)' <=> Between(v, k)
<1>1. \A j : Defined(j)' = Defined(j)
  BY DefinedSame
<1>2. ASSUME NEW v, NEW k PROVE Between(v, k)' <=> Between(v, k)
  BY <1>1 DEF Between
<1> QED
  BY <1>2

(* The builder is dropped, on success and on an error. *)
LEMMA BuiltDropped ==
  ASSUME MakeInv, BuiltSoFar, output' \in Archives,
         stage \in {"append", "walk"}, stage' \in {"sums", "table"},
         UNCHANGED <<job, source, entries>>, Entered' = Entered,
         \E k \in Reached' : Between(Entered, k)
  PROVE  BuiltSoFar'
<1>1. Integrity \notin DOMAIN entries
  BY DEF BuiltSoFar
<1>2. IsValid([output EXCEPT !.table = entries])'
  <2> DEFINE a == [output' EXCEPT !.table = entries']
  <2>1. a.table = entries
    BY SeenFacts
  <2> HIDE DEF a
  <2>2. IsValid(a)
    BY <1>1, <2>1 DEF IsValid
  <2> QED
    BY <2>2 DEF a
<1>3. \E k \in Reached' : Between(Entered, k)'
  BY BetweenSame
<1> QED
  BY <1>1, <1>2, <1>3 DEF BuiltSoFar

LEMMA BuiltEndAppend == MakeInv /\ BuiltSoFar /\ EndAppend => BuiltSoFar'
<1> SUFFICES ASSUME MakeInv, BuiltSoFar, EndAppend PROVE BuiltSoFar'
  OBVIOUS
<1>1. exit = "ok" /\ Entered = Defined(at - 1) /\ at - 1 = Len(job.entries)
  <2>1. job.entries \in Seq([path : Path, removed : BOOLEAN, target : Path]) /\ at \in Nat
    BY DEF MakeInv, MakeTypeOK
  <2>2. Len(job.entries) \in Nat
    BY <2>1
  <2> QED
    BY <2>1, <2>2 DEF BuiltSoFar, EndAppend
<1>2. Between(Entered, Len(job.entries))
  BY <1>1 DEF Between
<1>3. Len(job.entries) \in Reached'
  BY <1>1 DEF Reached, EndAppend
<1>4. Entered' = Entered /\ output' \in Archives
  BY DEF EndAppend, Entered, ViewOf, MakeInv, MakeTypeOK
<1> QED
  BY <1>2, <1>3, <1>4, BuiltDropped DEF EndAppend, Drop

LEMMA BuiltAppendFails == MakeInv /\ BuiltSoFar /\ AppendFails => BuiltSoFar'
<1> SUFFICES ASSUME MakeInv, BuiltSoFar, AppendFails PROVE BuiltSoFar'
  OBVIOUS
<1> DEFINE k == at - 1
<1>0. /\ k \in Nat /\ k + 1 = at /\ k < Len(job.entries) /\ k \in 0 .. Len(job.entries)
      /\ exit' = "error" /\ UNCHANGED <<job, source, entries>>
      /\ stage \in {"append", "walk"} /\ stage' \in {"sums", "table"}
  <2>1. job.entries \in Seq([path : Path, removed : BOOLEAN, target : Path]) /\ at \in Nat \ {0}
    BY DEF MakeInv, MakeTypeOK
  <2>2. Len(job.entries) \in Nat
    BY <2>1
  <2> QED
    BY <2>1, <2>2 DEF AppendFails, Drop
<1>1. Defined(k + 1) = Over(Defined(k), Named(Entry))
  <2> HIDE DEF k
  <2>1. Defined(k + 1) = Over(Defined(k), Named(job.entries[k + 1]))
    BY <1>0, DefinedNext
  <2> QED
    BY <1>0, <2>1 DEF Entry
<1>2. Between(Entered, k)
  <2>1. CASE stage = "append"
    <3>1. Entered = Defined(k)
      BY <2>1 DEF BuiltSoFar
    <3> HIDE DEF k
    <3> QED
      BY <3>1 DEF Between
  <2>2. CASE stage = "walk"
    <3>1. Entered = Over(Defined(k), Walked) /\ ~Entry.removed /\ source[Entry.path] = "dir"
      BY <2>2 DEF BuiltSoFar
    <3>2. DOMAIN Walked \subseteq DOMAIN Named(Entry)
          /\ \A p \in DOMAIN Walked : Walked[p] = Named(Entry)[p]
      BY <3>1 DEF Walked, Named
    <3> DEFINE D == Defined(k)
               N == Defined(k + 1)
    <3>3. N = Over(D, Named(Entry)) /\ Entered = Over(D, Walked)
      BY <1>1, <3>1
    <3>4. Between(Entered, k) <=>
            /\ DOMAIN D \subseteq DOMAIN Entered
            /\ \A p \in DOMAIN Entered :
                 \/ p \in DOMAIN D /\ Entered[p] = D[p]
                 \/ p \in DOMAIN N /\ Entered[p] = N[p]
      BY <1>0 DEF Between
    <3> HIDE DEF D, N
    <3> QED
      BY <3>2, <3>3, <3>4 DEF Over
  <2> QED
    BY <1>0, <2>1, <2>2
<1>3. k \in Reached'
  BY <1>0 DEF Reached
<1>4. output' \in Archives /\ Entered' = Entered
  <2>0. output \in Archives
    BY DEF MakeInv, MakeTypeOK
  <2>1. CASE UNCHANGED output
    BY <1>0, <2>0, <2>1 DEF Entered, ViewOf
  <2>2. CASE Write(Junk)
    <3>1. /\ output' \in Archives
          /\ \A i \in 1 .. Len(output.body) : output'.body[i] = output.body[i]
      BY <2>0, <2>2, WriteFacts, ContentFacts
    <3>2. \A p \in DOMAIN entries : entries[p] # Removed => entries[p] \in 1 .. Len(output.body)
      BY DEF MakeInv, EntriesPoint, PointsInto, Removed
    <3> QED
      BY <1>0, <3>1, <3>2 DEF Entered, ViewOf
  <2> QED
    BY <2>1, <2>2 DEF AppendFails
<1> QED
  BY <1>0, <1>2, <1>3, <1>4, BuiltDropped

(* data.integrity has the checksums of what is entered, and covers no path of *)
(* the definition.                                                          *)
LEMMA BuiltSums == MakeInv /\ BuiltSoFar /\ AppendSums => BuiltSoFar'
<1> SUFFICES ASSUME MakeInv, BuiltSoFar, AppendSums PROVE BuiltSoFar'
  OBVIOUS
<1> DEFINE n == Len(output.body) + 1
<1>0. /\ output \in Archives /\ entries \in Tables /\ EntriesPoint
      /\ stage = "sums" /\ stage' = "table" /\ UNCHANGED <<job, source, exit>>
      /\ Integrity \notin DOMAIN entries
  BY DEF MakeInv, MakeTypeOK, AppendSums, BuiltSoFar
<1>1. n \in Nat /\ n # Removed
  <2>1. output.body \in Seq(Contents)
    BY <1>0 DEF Archives
  <2> QED
    BY <2>1 DEF Removed
<1>2. Sums(Checksums) \in Contents /\ Write(Sums(Checksums)) /\ entries' = With(entries, Integrity, n)
  BY ChecksumFacts DEF AppendSums
<1>3. /\ output' \in Archives /\ output'.body[n] = Sums(Checksums)
      /\ \A i \in 1 .. Len(output.body) : output'.body[i] = output.body[i]
  BY <1>0, <1>2, WriteFacts
<1> HIDE DEF n
<1>4. /\ DOMAIN entries' = DOMAIN entries \cup {Integrity}
      /\ entries'[Integrity] = n
      /\ \A q \in DOMAIN entries \ {Integrity} : entries'[q] = entries[q]
  <2>1. Integrity \in Path \cup {Integrity}
    OBVIOUS
  <2>2. /\ DOMAIN With(entries, Integrity, n) = DOMAIN entries \cup {Integrity}
        /\ With(entries, Integrity, n)[Integrity] = n
        /\ \A q \in DOMAIN entries \ {Integrity} : With(entries, Integrity, n)[q] = entries[q]
    BY <1>0, <1>1, <2>1, WithTable
  <2> QED
    BY <1>2, <2>2
<1>5. \A q \in DOMAIN entries : entries[q] # Removed =>
        /\ entries[q] \in 1 .. Len(output.body)
        /\ output.body[entries[q]].kind = "data"
  BY <1>0 DEF EntriesPoint, PointsInto, Removed
<1>6. Entered' = Entered
  <2>1. DOMAIN entries' \ {Integrity} = DOMAIN entries \ {Integrity}
    BY <1>4
  <2>2. \A q \in DOMAIN entries \ {Integrity} :
          (IF entries'[q] = Removed THEN Gone ELSE output'.body[entries'[q]])
            = IF entries[q] = Removed THEN Gone ELSE output.body[entries[q]]
    BY <1>3, <1>4, <1>5
  <2> QED
    BY <2>1, <2>2 DEF Entered, ViewOf
<1>7. \E k \in Reached' : Between(Entered, k)'
  <2>1. \E k \in Reached : Between(Entered, k)
    BY <1>0 DEF BuiltSoFar
  <2>2. Reached' = Reached
    BY <1>0 DEF Reached
  <2> QED
    BY <1>0, <1>6, <2>1, <2>2, BetweenSame
<1>8. IsValid([output EXCEPT !.table = entries])'
  <2> DEFINE a == [output' EXCEPT !.table = entries']
             s == Checksums
  <2>1. a.table = entries' /\ a.body = output'.body
    BY <1>3, SeenFacts
  <2>2. DOMAIN s = {q \in DOMAIN entries : entries[q] # Removed}
        /\ \A q \in DOMAIN s : s[q] = output.body[entries[q]].data
    BY DEF Checksums
  <2>3. a.body[n] = Sums(s) /\ a.table[Integrity] = n
    BY <1>3, <1>4, <2>1
  <2>4. \A q \in DOMAIN s : output.body[entries[q]] = Data(s[q])
    <3>1. TAKE q \in DOMAIN s
    <3>2. output.body[entries[q]].kind = "data" /\ entries[q] \in 1 .. Len(output.body)
      BY <1>5, <2>2
    <3>3. output.body \in Seq(Contents)
      BY <1>0 DEF Archives
    <3>4. output.body[entries[q]] \in Contents
      BY <3>2, <3>3
    <3> QED
      BY <2>2, <3>2, <3>4 DEF Contents, Junk, Data
  <2> HIDE DEF a, s
  <2>5. \A q \in DOMAIN s : q \in DOMAIN a.table /\ Blob(a, q) = Data(s[q])
    BY <1>0, <1>3, <1>4, <1>5, <2>1, <2>2, <2>4 DEF Blob
  <2>6. Blob(a, Integrity).data = s /\ Blob(a, Integrity) # Junk /\ Integrity \in DOMAIN a.table
    BY <1>4, <2>1, <2>3 DEF Blob, Sums, Junk
  <2>7. \A q : Data(q) # Junk
    BY DEF Data, Junk
  <2>8. IsValid(a)
    BY <2>5, <2>6, <2>7 DEF IsValid, Readable
  <2> QED
    BY <2>8 DEF a
<1> QED
  BY <1>0, <1>7, <1>8 DEF BuiltSoFar

(* Table and header leave what is entered as it is. *)
LEMMA BuiltWritten ==
  ASSUME MakeInv, BuiltSoFar, output' \in Archives, stage \in {"table", "header"},
         UNCHANGED <<job, source, entries, exit>>, output'.body = output.body,
         stage' \in {"header", "exited"}
  PROVE  BuiltSoFar'
<1>0. output \in Archives
  BY DEF MakeInv, MakeTypeOK
<1>1. Entered' = Entered /\ Reached' = Reached
  BY DEF Entered, ViewOf, Reached
<1>2. \E k \in Reached' : Between(Entered, k)'
  BY <1>1, BetweenSame DEF BuiltSoFar
<1>3. IsValid([output EXCEPT !.table = entries])'
  <2> DEFINE a == [output EXCEPT !.table = entries]
             b == [output' EXCEPT !.table = entries']
  <2>1. a.table = b.table /\ a.body = b.body
    BY <1>0, SeenFacts
  <2>2. IsValid(a)
    BY DEF BuiltSoFar
  <2> HIDE DEF a, b
  <2>3. IsValid(b)
    BY <2>1, <2>2, ValidSame
  <2> QED
    BY <2>3 DEF b
<1> QED
  BY <1>2, <1>3 DEF BuiltSoFar

LEMMA BuiltStep == MakeInv /\ BuiltSoFar /\ [MakeNext]_makeVars => BuiltSoFar'
<1> SUFFICES ASSUME MakeInv, BuiltSoFar, [MakeNext]_makeVars PROVE BuiltSoFar'
  OBVIOUS
<1>0. output \in Archives /\ entries \in Tables /\ output' \in Archives
  BY MakeStepInv DEF MakeInv, MakeTypeOK
<1>1. CASE NewArchive BY <1>1, BuiltNew
<1>2. CASE AppendRemoval BY <1>2, BuiltRemoval
<1>3. CASE AppendFile BY <1>3, BuiltFile
<1>4. CASE WalkDirectory \/ EndWalk BY <1>4, BuiltWalk
<1>5. CASE \E p \in walk : AppendWalked(p) BY <1>5, BuiltWalked
<1>6. CASE EndAppend BY <1>6, BuiltEndAppend
<1>7. CASE AppendFails BY <1>7, BuiltAppendFails
<1>8. CASE AppendSums BY <1>8, BuiltSums
<1>9. CASE WriteTable
  <2>1. output'.body = output.body
    BY <1>0, <1>9, OutputFacts DEF WriteTable
  <2> QED
    BY <1>0, <1>9, <2>1, BuiltWritten DEF WriteTable
<1>10. CASE WriteHeader
  <2>1. output'.body = output.body
    BY <1>0, <1>10, OutputFacts DEF WriteHeader
  <2> QED
    BY <1>0, <1>10, <2>1, BuiltWritten DEF WriteHeader
<1>11. CASE FinishFails \/ Kill
  <2>1. ~Opens(output) /\ stage' \in {"exited", "killed"}
    BY <1>11 DEF MakeInv, TableWritten, FinishFails, Kill
  <2>2. ~Opens(output)'
    <3>1. CASE UNCHANGED output
      BY <2>1, <3>1 DEF Opens
    <3>2. CASE Write(Junk)
      BY <1>0, <2>1, <3>2, WriteFacts, ContentFacts DEF Opens
    <3>3. CASE output' = [output EXCEPT !.header = "torn"]
      BY <1>0, <3>3, OutputFacts DEF Opens
    <3> QED
      BY <1>11, <3>1, <3>2, <3>3 DEF FinishFails, Kill
  <2> QED
    BY <2>1, <2>2, BuiltEnds
<1>12. CASE UNCHANGED makeVars
  <2>1. /\ UNCHANGED <<job, source, exit, at, stage, output, entries, walk>>
        /\ Entered' = Entered /\ Reached' = Reached /\ Entry' = Entry
    BY <1>12 DEF makeVars, Entered, ViewOf, Reached, Entry
  <2>2. (Defined(at - 1))' = Defined(at - 1) /\ FilesIn(Entry.path)' = FilesIn(Entry.path)
    BY <2>1, DefinedSame
  <2>3. Over(Defined(at - 1), Walked)' = Over(Defined(at - 1), Walked)
    BY <2>1, <2>2 DEF Over, Walked
  <2>4. (\E k \in Reached : Between(Entered, k))' <=> \E k \in Reached : Between(Entered, k)
    BY <2>1, BetweenSame
  <2>5. IsValid([output EXCEPT !.table = entries])' <=> IsValid([output EXCEPT !.table = entries])
    <3> DEFINE a == [output EXCEPT !.table = entries]
               b == [output' EXCEPT !.table = entries']
    <3>1. a = b
      BY <2>1
    <3> QED
      BY <3>1
  <2> QED
    BY <2>1, <2>2, <2>3, <2>4, <2>5 DEF BuiltSoFar, Opens
<1> QED
  BY <1>1, <1>2, <1>3, <1>4, <1>5, <1>6, <1>7, <1>8, <1>9, <1>10, <1>11, <1>12
  DEF MakeNext

(* What opens is what mkpatch has entered. *)
LEMMA BuiltOpens == MakeInv /\ BuiltSoFar => OpensMeansBuilt
<1> SUFFICES ASSUME MakeInv, BuiltSoFar, Opens(output)
             PROVE  IsValid(output) /\ \E k \in Reached : Between(View(output), k)
  BY DEF OpensMeansBuilt
<1>1. output.table = entries /\ output \in Archives
  BY DEF MakeInv, MakeTypeOK, TableWritten
<1>2. View(output) = Entered
  BY <1>1 DEF View, Entered
<1>3. IsValid(output)
  <2> DEFINE a == [output EXCEPT !.table = entries]
  <2>1. a.table = output.table /\ a.body = output.body
    BY <1>1, SeenFacts
  <2>2. IsValid(a)
    BY DEF BuiltSoFar
  <2> HIDE DEF a
  <2> QED
    BY <2>1, <2>2, ValidSame
<1> QED
  BY <1>2, <1>3 DEF BuiltSoFar

-----------------------------------------------------------------------------
(* What the attempts read is what mkpatch wrote. *)
LEMMA DeliveredTry ==
  ASSUME IInv, Delivered, NEW a,
         a = output \/ \E i \in DOMAIN output.body : a = Altered(output, i),
         Try(a, ensure), UNCHANGED makeVars
  PROVE  Delivered'
<1>1. /\ a.header = output.header
      /\ \A i \in DOMAIN output.body : a.body[i] = output.body[i] \/ a.body[i] = Junk
  BY DownloadedFacts DEF IInv
<1>2. patch' = a /\ open' = {} /\ output' = output
  BY DEF Try, IInv, DiskInv, Progress, makeVars
<1>3. \/ result' = "refused"
      \/ result' = "running" /\ Opens(a) /\ todo' = DOMAIN a.table \ {Integrity}
  BY DEF Try
<1>4. UpdatedPaths(a) \subseteq DOMAIN a.table \ {Integrity}
  BY DEF UpdatedPaths
<1> QED
  BY <1>1, <1>2, <1>3, <1>4 DEF Delivered, Opens

LEMMA DeliveredApply ==
  ASSUME IInv, Delivered, ApplyNext, UNCHANGED makeVars
  PROVE  Delivered'
<1>0. DiskTypeOK /\ Progress
  BY DEF IInv, DiskInv
<1>1. patch' = patch /\ output' = output /\ result = "running"
  BY <1>0
  DEF ApplyNext, Remove, OpenFile, OpenFails, WriteFile, WriteFails, Finish, Crash, Extracts,
      IsNext, End, Progress, makeVars
<1>2. UpdatedPaths(patch)' = UpdatedPaths(patch) /\ \A p : Readable(patch, p)' <=> Readable(patch, p)
  BY <1>1 DEF UpdatedPaths, Readable, Blob
<1>3. CASE result' \notin {"running", "ok"}
  BY <1>1, <1>3 DEF Delivered
<1>4. CASE \E p \in todo : Remove(p)
  <2>1. PICK p \in todo : Remove(p)
    BY <1>4
  <2>2. p \notin UpdatedPaths(patch)
    BY <1>0, <2>1, PathFacts DEF Remove, Progress
  <2>3. todo' = todo \ {p} /\ open' = open /\ result' = result
    BY <2>1 DEF Remove
  <2> QED
    BY <1>1, <1>2, <2>2, <2>3 DEF Delivered, Opens
<1>5. CASE \E p \in todo : OpenFile(p)
  BY <1>1, <1>2, <1>5 DEF Delivered, OpenFile, Opens
<1>6. CASE \E p \in todo : WriteFile(p)
  BY <1>1, <1>2, <1>6 DEF Delivered, WriteFile, Opens
<1>7. CASE Finish
  <2>1. todo' = {} /\ todo = {} /\ result' = "ok"
    BY <1>7 DEF Finish, End
  <2> QED
    BY <1>1, <1>2, <2>1 DEF Delivered, Opens
<1> QED
  BY <1>3, <1>4, <1>5, <1>6, <1>7 DEF ApplyNext, OpenFails, WriteFails, Crash, End

Reaches == IInv /\ BuiltSoFar /\ Delivered

LEMMA ReachesInit == Init => Reaches
<1> SUFFICES ASSUME Init PROVE Reaches
  OBVIOUS
<1>1. IInv /\ BuiltSoFar
  BY InitInv, BuiltInit DEF Init
<1>2. Delivered
  BY DEF Init, DiskInit, Delivered
<1> QED
  BY <1>1, <1>2 DEF Reaches

LEMMA ReachesStep == Reaches /\ [Next]_vars => Reaches'
<1> SUFFICES ASSUME Reaches, [Next]_vars PROVE Reaches'
  OBVIOUS
<1>0. IInv /\ BuiltSoFar /\ Delivered /\ MakeInv /\ IInv'
  BY StepInv DEF Reaches, IInv
<1>1. BuiltSoFar'
  <2>1. [MakeNext]_makeVars
    BY DEF Next, Make, Download, Apply, vars
  <2> QED
    BY <1>0, <2>1, BuiltStep
<1>2. Delivered'
  <2>1. CASE Make
    <3>1. result = "none" /\ result' = "none"
      BY <1>0, <2>1, MakeEnded DEF IInv, Fetched, Make, diskVars
    <3> QED
      BY <3>1 DEF Delivered
  <2>2. CASE Download
    BY <1>0, <2>2, DeliveredTry DEF Download
  <2>3. CASE Apply
    BY <1>0, <2>3, DeliveredApply DEF Apply
  <2>4. CASE UNCHANGED vars
    BY <1>0, <2>4
    DEF vars, makeVars, diskVars, Delivered, Opens, UpdatedPaths, Readable, Blob
  <2> QED
    BY <2>1, <2>2, <2>3, <2>4 DEF Next
<1> QED
  BY <1>0, <1>1, <1>2 DEF Reaches

(* What is defined is on disk once both ends report success. *)
LEMMA ReachesDisk == Reaches => DefinedOnDisk
<1> SUFFICES ASSUME Reaches, exit = "ok", result = "ok", NEW p \in DOMAIN WholePatch
             PROVE  IF WholePatch[p] = Gone
                    THEN IsFile(disk[p]) => p \in stuck
                    ELSE disk[p] = WholePatch[p]
  BY DEF DefinedOnDisk
<1>0. /\ MakeInv /\ BuiltSoFar /\ Delivered /\ DiskTypeOK /\ OkMeansPatched
      /\ patch.table = output.table /\ output \in Archives
  BY DEF Reaches, IInv, MakeInv, MakeTypeOK, DiskInv, Fetched
<1>1. Opens(output) /\ todo = {}
  BY <1>0 DEF Delivered
<1>2. p \in DOMAIN View(output) /\ View(output)[p] = WholePatch[p]
  <2> DEFINE v == View(output)
             n == Len(job.entries)
  <2>1. Between(v, n)
    BY <1>0, <1>1, BuiltOpens DEF OpensMeansBuilt, Reached
  <2>2. /\ DOMAIN Defined(n) \subseteq DOMAIN v
        /\ \A q \in DOMAIN v : q \in DOMAIN Defined(n) /\ v[q] = Defined(n)[q]
    BY <2>1 DEF Between
  <2> HIDE DEF v
  <2>3. p \in DOMAIN v /\ v[p] = WholePatch[p]
    BY <2>2 DEF WholePatch
  <2> QED
    BY <2>3 DEF v
<1>3. p \in DOMAIN output.table \ {Integrity}
      /\ WholePatch[p] = IF output.table[p] = Removed THEN Gone ELSE output.body[output.table[p]]
  BY <1>2 DEF View, ViewOf
<1>4. CASE output.table[p] = Removed
  BY <1>0, <1>3, <1>4 DEF OkMeansPatched, RemovedPaths
<1>5. CASE output.table[p] # Removed
  <2> DEFINE i == output.table[p]
  <2>1. output.table = entries /\ i \in 0 .. Len(output.body) /\ i # 0
    BY <1>0, <1>1, <1>3, <1>5 DEF MakeInv, TableWritten, EntriesPoint, PointsInto, Removed
  <2>2. output.body \in Seq(Contents)
    BY <1>0 DEF Archives
  <2>3. i \in DOMAIN output.body /\ output.body[i] \in Contents
    BY <2>1, <2>2
  <2>4. output.body[i] # Gone
    BY <2>3, ContentFacts DEF Gone
  <2>5. p \in UpdatedPaths(patch)
    BY <1>0, <1>3, <1>5 DEF UpdatedPaths
  <2>6. disk[p] = Blob(patch, p) /\ Blob(patch, p) = patch.body[i]
    BY <1>0, <2>5 DEF OkMeansPatched, Blob
  <2>7. patch.body[i] = output.body[i]
    <3>1. patch.body[i] \in {output.body[i], Junk}
      BY <1>0, <2>3 DEF Delivered
    <3>2. Readable(patch, p)
      BY <1>0, <1>1, <2>5 DEF Delivered
    <3> QED
      BY <1>0, <1>5, <2>6, <3>1, <3>2 DEF Readable
  <2> QED
    BY <1>3, <1>5, <2>4, <2>6, <2>7
<1> QED
  BY <1>4, <1>5

(* The second half of the inductive invariant: what is entered is what the    *)
(* definition comes to so far, and what is read is what was written.         *)
THEOREM BuiltInvariant == Spec => []Reaches
BY ReachesInit, ReachesStep, PTL DEF Spec

(* An archive that opens is the whole definition, or after an error what it   *)
(* comes to at some entry, and it passes the integrity check: also after a    *)
(* kill or a failure of finish() at any step.                               *)
THEOREM OpensAlwaysMeansBuilt == Spec => []OpensMeansBuilt
<1>1. Reaches => OpensMeansBuilt
  BY BuiltOpens DEF Reaches, IInv
<1> QED
  BY <1>1, BuiltInvariant, PTL

(* From the definition to the game directory: when mkpatch and the patcher    *)
(* report success, what the definition says is on disk.                     *)
THEOREM DefinedReachesDisk == Spec => []DefinedOnDisk
BY ReachesDisk, BuiltInvariant, PTL
=============================================================================
