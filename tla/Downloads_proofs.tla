-------------------------- MODULE Downloads_proofs --------------------------
(***************************************************************************)
(* Concurrent downloads hand over whole files, or nothing: for every list,  *)
(* window, number of chunks and order of the futures, also when lines of    *)
(* the list share a temporary file.                                        *)
(***************************************************************************)
EXTENDS Downloads, FiniteSetTheorems, SequenceTheorems, TLAPS

(* What the list is, and that its finished lines can be counted. *)
LEMMA ListFacts ==
  ASSUME TypeOK
  PROVE  /\ Len(list) \in Nat
         /\ DOMAIN list = 1 .. Len(list)
         /\ \A i \in DOMAIN list : list[i].file \in File
<1>1. list \in Seq([index : Nat, file : File])
  BY DownloadsAssumption DEF TypeOK
<1>2. Len(list) \in Nat /\ DOMAIN list = 1 .. Len(list)
  BY <1>1
<1>3. ASSUME NEW i \in DOMAIN list PROVE list[i].file \in File
  <2>1. list[i] \in [index : Nat, file : File]
    BY <1>1, <1>2, ElementOfSeq, Zenon
  <2> QED
    BY <2>1
<1> QED
  BY <1>2, <1>3

LEMMA DoneFacts ==
  ASSUME TypeOK
  PROVE  /\ IsFiniteSet(Done)
         /\ Cardinality(Done) \in 0 .. Len(list)
         /\ \A i \in DOMAIN list \ Done :
              /\ Cardinality(Done \cup {i}) = Cardinality(Done) + 1
              /\ Cardinality(Done) + 1 \in 0 .. Len(list)
<1>1. Len(list) \in Nat /\ DOMAIN list = 1 .. Len(list)
  BY ListFacts
<1>2. IsFiniteSet(1 .. Len(list)) /\ Cardinality(1 .. Len(list)) = Len(list)
  <2>1. 1 \in Int /\ Len(list) \in Int
    BY <1>1
  <2>2. IsFiniteSet(1 .. Len(list))
    BY <2>1, FS_Interval
  <2>3. Cardinality(1 .. Len(list)) = IF 1 > Len(list) THEN 0 ELSE Len(list) - 1 + 1
    BY <2>1, FS_Interval, Zenon
  <2> QED
    BY <1>1, <2>2, <2>3
<1>3. ASSUME NEW S \in SUBSET DOMAIN list
      PROVE  IsFiniteSet(S) /\ Cardinality(S) \in 0 .. Len(list)
  BY <1>1, <1>2, <1>3, FS_Subset, FS_CardinalityType
<1>4. Done \in SUBSET DOMAIN list
  BY DEF Done
<1>5. ASSUME NEW i \in DOMAIN list \ Done
      PROVE  /\ Cardinality(Done \cup {i}) = Cardinality(Done) + 1
             /\ Cardinality(Done) + 1 \in 0 .. Len(list)
  <2>1. Cardinality(Done \cup {i}) = Cardinality(Done) + 1
    BY <1>3, <1>4, FS_AddElement
  <2>2. Done \cup {i} \in SUBSET DOMAIN list
    BY <1>4
  <2> QED
    BY <2>1, <2>2, <1>3
<1> QED
  BY <1>3, <1>4, <1>5

-----------------------------------------------------------------------------
(* Every step that leaves the files and the lines alone. *)
LEMMA EndKeepsIInv ==
  ASSUME IInv, result = "running",
         UNCHANGED <<list, ensure, remote, phase, got, tmp, number, shown, queue>>,
         result' \in {"cancelled", "failed", "not found"}
  PROVE  IInv'
<1>1. TypeOK'
  BY DEF IInv, TypeOK, WholeFile
<1>2. Counted' /\ Positions' /\ LastWriterWhole' /\ OwnFile'
  BY DEF IInv, Counted, Done, Positions, LastWriterWhole, OwnFile, Started, DistinctFiles
<1>3. Ended' /\ NoFalseAlarm'
  BY DEF Ended, NoFalseAlarm
<1> QED
  BY <1>1, <1>2, <1>3 DEF IInv

LEMMA NothingToDoKeepsIInv ==
  ASSUME IInv, NothingToDo
  PROVE  IInv'
<1> USE DEF NothingToDo
<1>1. TypeOK'
  BY DEF IInv, TypeOK, WholeFile
<1>2. Counted' /\ Positions' /\ LastWriterWhole' /\ OwnFile'
  BY DEF IInv, Counted, Done, Positions, LastWriterWhole, OwnFile, Started, DistinctFiles
<1>3. Ended' /\ NoFalseAlarm'
  <2>1. DOMAIN list = {}
    OBVIOUS
  <2>2. queue = <<>>
    BY <2>1 DEF IInv, TypeOK
  <2>3. Done' = DOMAIN list'
    BY <2>1 DEF Done
  <2>4. queue' \in Orders'
    BY <2>1, <2>2 DEF Orders
  <2> QED
    BY <2>3, <2>4 DEF Ended, NoFalseAlarm
<1> QED
  BY <1>1, <1>2, <1>3 DEF IInv

-----------------------------------------------------------------------------
(* File::create empties the file of the line and of all that share it; the   *)
(* line is now the last that created it.                                    *)
LEMMA CreateKeepsIInv ==
  ASSUME IInv, NEW i \in DOMAIN list, Create(i)
  PROVE  IInv'
<1> USE DEF Create, Runs, Enter
<1>0. TypeOK /\ list[i].file \in File /\ got[i] = 0
  BY ListFacts DEF IInv, Positions
<1>1. TypeOK'
  BY <1>0 DEF TypeOK, WholeFile
<1>2. Done' = Done
  BY <1>0 DEF Done, TypeOK
<1>3. Counted'
  BY <1>2 DEF IInv, Counted
<1>4. Positions'
  BY <1>0 DEF IInv, Positions, TypeOK
<1>5. LastWriterWhole'
  <2> SUFFICES ASSUME NEW k \in DOMAIN list, Started(k)'
               PROVE  \E j \in DOMAIN list :
                        list[j].file = list[k].file /\ Started(j)' /\ 1 .. got[j] \subseteq tmp'[list[j].file]
    BY DEF LastWriterWhole
  <2>1. CASE list[k].file = list[i].file
    <3>1. Started(i)'
      BY <1>0 DEF Started, TypeOK
    <3>2. 1 .. got[i] \subseteq tmp'[list[i].file]
      BY <1>0
    <3> QED
      BY <2>1, <3>1, <3>2
  <2>2. CASE list[k].file # list[i].file
    <3>1. Started(k)
      BY <1>0, <2>2 DEF Started, TypeOK
    <3>2. PICK j \in DOMAIN list :
            list[j].file = list[k].file /\ Started(j) /\ 1 .. got[j] \subseteq tmp[list[j].file]
      BY <3>1 DEF IInv, LastWriterWhole
    <3>3. j # i /\ tmp'[list[j].file] = tmp[list[j].file] /\ Started(j)'
      BY <1>0, <2>2, <3>2, ListFacts DEF Started, TypeOK
    <3> QED
      BY <3>2, <3>3
  <2> QED
    BY <2>1, <2>2
<1>6. OwnFile'
  <2> SUFFICES ASSUME DistinctFiles, NEW k \in DOMAIN list, Started(k)'
               PROVE  tmp'[list[k].file] = 1 .. got[k]
    BY DEF OwnFile, DistinctFiles
  <2>1. CASE k = i
    BY <1>0, <2>1 DEF TypeOK
  <2>2. CASE k # i
    <3>1. Started(k) /\ list[k].file # list[i].file
      BY <1>0, <2>2 DEF Started, TypeOK, DistinctFiles
    <3>2. tmp'[list[k].file] = tmp[list[k].file]
      BY <1>0, <3>1, ListFacts DEF TypeOK
    <3> QED
      BY <3>1, <3>2 DEF IInv, OwnFile
  <2> QED
    BY <2>1, <2>2
<1>7. Ended' /\ NoFalseAlarm'
  BY DEF Ended, NoFalseAlarm
<1> QED
  BY <1>1, <1>3, <1>4, <1>5, <1>6, <1>7 DEF IInv

LEMMA AnswerKeepsIInv ==
  ASSUME IInv, NEW i \in DOMAIN list, Answer(i)
  PROVE  IInv'
<1> USE DEF Answer, Runs, Enter
<1>a. CASE remote[list[i].file] = "missing"
  BY <1>a, EndKeepsIInv
<1>b. CASE remote[list[i].file] # "missing"
  <2>0. TypeOK
    BY DEF IInv
  <2>1. TypeOK'
    BY <1>b, <2>0 DEF TypeOK, WholeFile
  <2>2. Done' = Done
    BY <1>b, <2>0 DEF Done, TypeOK
  <2>3. \A k \in DOMAIN list : Started(k)' = Started(k)
    BY <1>b, <2>0 DEF Started, TypeOK
  <2>4. Counted'
    BY <1>b, <2>2 DEF IInv, Counted
  <2>5. Positions'
    BY <1>b, <2>0 DEF IInv, Positions, TypeOK
  <2>6. LastWriterWhole' /\ OwnFile'
    BY <1>b, <2>3 DEF IInv, LastWriterWhole, OwnFile, DistinctFiles
  <2>7. Ended' /\ NoFalseAlarm'
    BY <1>b DEF Ended, NoFalseAlarm
  <2> QED
    BY <2>1, <2>4, <2>5, <2>6, <2>7 DEF IInv
<1> QED
  BY <1>a, <1>b

(* A chunk only adds to a file, at the position of its handle. *)
LEMMA ChunkKeepsIInv ==
  ASSUME IInv, NEW i \in DOMAIN list, Chunk(i)
  PROVE  IInv'
<1> USE DEF Chunk, Runs
<1>0. /\ TypeOK /\ list[i].file \in File /\ Chunks \in Nat
      /\ got[i] \in Nat /\ got' = [got EXCEPT ![i] = got[i] + 1] /\ got'[i] = got[i] + 1
      /\ tmp' = [tmp EXCEPT ![list[i].file] = @ \cup {got[i] + 1}]
  BY ListFacts, DownloadsAssumption DEF IInv, TypeOK
<1>1. TypeOK'
  <2>1. got' \in [DOMAIN list -> 0 .. Chunks]
    BY <1>0 DEF TypeOK
  <2>2. tmp' \in [File -> SUBSET WholeFile]
    BY <1>0 DEF TypeOK, WholeFile
  <2> QED
    BY <1>0, <2>1, <2>2 DEF TypeOK, WholeFile
<1>2. Counted'
  <2>1. Done' = Done
    BY DEF Done
  <2>2. number <= number
    BY <1>0, ListFacts DEF TypeOK
  <2> QED
    BY <2>1, <2>2 DEF IInv, Counted
<1>3. Positions'
  BY <1>0 DEF IInv, Positions, TypeOK
<1>4. LastWriterWhole'
  <2> SUFFICES ASSUME NEW k \in DOMAIN list, Started(k)
               PROVE  \E j \in DOMAIN list :
                        list[j].file = list[k].file /\ Started(j) /\ 1 .. got'[j] \subseteq tmp'[list[j].file]
    BY DEF LastWriterWhole, Started
  <2>1. PICK j \in DOMAIN list :
          list[j].file = list[k].file /\ Started(j) /\ 1 .. got[j] \subseteq tmp[list[j].file]
    BY DEF IInv, LastWriterWhole
  <2>2. list[j].file \in File
    BY <1>0, ListFacts
  <2>3. tmp[list[j].file] \subseteq tmp'[list[j].file]
    BY <1>0, <2>2 DEF TypeOK
  <2>4. CASE j = i
    <3>1. got[i] + 1 \in tmp'[list[j].file]
      BY <1>0, <2>2, <2>4 DEF TypeOK
    <3>2. 1 .. got'[j] = 1 .. got[j] \cup {got[i] + 1}
      BY <1>0, <2>4
    <3> QED
      BY <2>1, <2>3, <3>1, <3>2
  <2>5. CASE j # i
    BY <1>0, <2>1, <2>3, <2>5 DEF TypeOK
  <2> QED
    BY <2>4, <2>5
<1>5. OwnFile'
  <2> SUFFICES ASSUME DistinctFiles, NEW k \in DOMAIN list, Started(k)
               PROVE  tmp'[list[k].file] = 1 .. got'[k]
    BY DEF OwnFile, DistinctFiles, Started
  <2>1. tmp[list[k].file] = 1 .. got[k] /\ list[k].file \in File
    BY <1>0, ListFacts DEF IInv, OwnFile
  <2>2. CASE k = i
    <3>1. tmp'[list[k].file] = tmp[list[k].file] \cup {got[i] + 1}
      BY <1>0, <2>1, <2>2 DEF TypeOK
    <3>2. 1 .. got'[k] = 1 .. got[k] \cup {got[i] + 1}
      BY <1>0, <2>2
    <3> QED
      BY <2>1, <3>1, <3>2
  <2>3. CASE k # i
    BY <1>0, <2>1, <2>3 DEF TypeOK, DistinctFiles
  <2> QED
    BY <2>2, <2>3
<1>6. Ended' /\ NoFalseAlarm'
  BY DEF Ended, NoFalseAlarm
<1> QED
  BY <1>1, <1>2, <1>3, <1>4, <1>5, <1>6 DEF IInv

-----------------------------------------------------------------------------
(* A line is finished when it has written all its chunks; with checks, only  *)
(* when its file was found right.                                           *)
LEMMA CollectKeepsIInv ==
  ASSUME IInv, NEW i \in DOMAIN list, Runs(i, "loading"), got[i] = Chunks,
         ensure => TRUE \in Valid(list[i].file), Collect(i),
         UNCHANGED <<list, ensure, remote, got, tmp, shown>>
  PROVE  IInv'
<1> USE DEF Collect, Runs, Enter
<1>0. TypeOK /\ i \notin Done /\ phase[i] = "loading"
  BY DEF IInv, Done
<1>1. /\ Done' = Done \cup {i}
      /\ \A k \in DOMAIN list : Started(k)' = Started(k)
  BY <1>0 DEF Done, Started, TypeOK
<1>2. Counted' /\ number' \in 0 .. Len(list)
  <2>1. number = Cardinality(Done) /\ shown <= number
    BY DEF IInv, Counted
  <2>2. Cardinality(Done \cup {i}) = number + 1 /\ number + 1 \in 0 .. Len(list)
    BY <1>0, <2>1, DoneFacts
  <2>3. shown \in Nat /\ number \in Nat
    BY <1>0, ListFacts DEF TypeOK
  <2> QED
    BY <1>1, <2>1, <2>2, <2>3 DEF Counted
<1>3. Ended' /\ queue' \in Seq(DOMAIN list)
  <2>1. CASE Done \cup {i} = DOMAIN list
    <3>1. queue' \in Orders /\ Orders' = Orders
      BY <2>1 DEF Orders
    <3>2. queue' \in Seq(DOMAIN list)
      <4>1. queue' \in [1 .. Len(list) -> DOMAIN list]
        BY <3>1, <1>0, ListFacts DEF Orders
      <4>2. Len(list) \in Nat
        BY <1>0, ListFacts
      <4> HIDE DEF Collect
      <4> QED
        BY <4>1, <4>2
    <3> QED
      BY <1>1, <2>1, <3>1, <3>2 DEF Ended
  <2>2. CASE Done \cup {i} # DOMAIN list
    <3>1. queue \in Seq(DOMAIN list)
      BY <1>0 DEF TypeOK
    <3>2. Append(queue, i) \in Seq(DOMAIN list)
      BY <3>1
    <3> QED
      BY <2>2, <3>2 DEF Ended
  <2> QED
    BY <2>1, <2>2
<1>4. TypeOK'
  <2>1. result' \in {"running", "ok"}
    OBVIOUS
  <2>2. phase' \in [DOMAIN list -> {"new", "created", "loading", "done"}]
    BY <1>0 DEF TypeOK
  <2> QED
    BY <1>0, <1>2, <1>3, <2>1, <2>2 DEF TypeOK, WholeFile
<1>5. Positions'
  <2>1. ensure => remote[list[i].file] # "corrupt"
    BY DEF Valid
  <2> QED
    BY <1>0, <2>1 DEF IInv, Positions, TypeOK
<1>6. LastWriterWhole' /\ OwnFile'
  BY <1>1 DEF IInv, LastWriterWhole, OwnFile, DistinctFiles
<1>7. NoFalseAlarm'
  BY DEF NoFalseAlarm
<1> QED
  BY <1>2, <1>3, <1>4, <1>5, <1>6, <1>7 DEF IInv

(* A file no other line writes is whole at the end of its body: only a       *)
(* corrupt one is refused.                                                  *)
LEMMA RefusedKeepsIInv ==
  ASSUME IInv, NEW i \in DOMAIN list, Runs(i, "loading"), got[i] = Chunks,
         FALSE \in Valid(list[i].file), result' = "corrupt",
         UNCHANGED <<list, ensure, remote, phase, got, tmp, number, shown, queue>>
  PROVE  IInv'
<1>0. TypeOK /\ list[i].file \in File
  BY ListFacts DEF IInv
<1>1. TypeOK'
  BY <1>0 DEF TypeOK, WholeFile
<1>2. Counted' /\ Positions' /\ LastWriterWhole' /\ OwnFile' /\ Ended'
  BY DEF IInv, Counted, Done, Positions, LastWriterWhole, OwnFile, Started, DistinctFiles, Ended
<1>3. NoFalseAlarm'
  <2>1. DistinctFiles => tmp[list[i].file] = WholeFile
    BY DEF IInv, OwnFile, Started, Runs, WholeFile
  <2>2. remote[list[i].file] \in Remote \ {"missing"}
    BY <1>0 DEF IInv, Positions, Runs, TypeOK
  <2>3. DistinctFiles => remote[list[i].file] = "corrupt"
    BY <2>1, <2>2 DEF Valid, Remote
  <2> QED
    BY <2>3 DEF NoFalseAlarm, DistinctFiles
<1> QED
  BY <1>1, <1>2, <1>3 DEF IInv

LEMMA FinishKeepsIInv ==
  ASSUME IInv, NEW i \in DOMAIN list, Finish(i)
  PROVE  IInv'
<1>1. CASE (ensure => TRUE \in Valid(list[i].file)) /\ Collect(i)
  BY <1>1, CollectKeepsIInv DEF Finish
<1>2. CASE /\ ensure /\ FALSE \in Valid(list[i].file)
           /\ result' = "corrupt" /\ UNCHANGED <<phase, number, queue>>
  BY <1>2, RefusedKeepsIInv DEF Finish
<1> QED
  BY <1>1, <1>2 DEF Finish

LEMMA FailKeepsIInv ==
  ASSUME IInv, NEW i \in DOMAIN list, Fail(i) \/ Cancel
  PROVE  IInv'
<1>1. /\ result = "running" /\ result' \in {"cancelled", "failed"}
      /\ UNCHANGED <<list, ensure, remote, phase, got, tmp, number, shown, queue>>
  BY DEF Fail, Cancel, Runs
<1> QED
  BY <1>1, EndKeepsIInv

-----------------------------------------------------------------------------
LEMMA InitIInv ==
  ASSUME Init PROVE IInv
<1> USE DEF Init
<1>0. list \in Seq([index : Nat, file : File])
  BY DownloadsAssumption
<1>1. Len(list) \in Nat /\ 0 \in 0 .. Len(list) /\ Chunks \in Nat /\ 0 \in 0 .. Chunks
  BY <1>0, DownloadsAssumption
<1>2. TypeOK
  BY <1>1 DEF TypeOK
<1>3. Counted
  <2>1. Done = {}
    BY DEF Done
  <2> QED
    BY <2>1, FS_EmptySet DEF Counted
<1>4. Positions /\ LastWriterWhole /\ OwnFile /\ Ended /\ NoFalseAlarm
  BY DEF Positions, LastWriterWhole, OwnFile, Started, Ended, NoFalseAlarm
<1> QED
  BY <1>2, <1>3, <1>4 DEF IInv

LEMMA NextKeepsIInv ==
  ASSUME IInv, [Next]_vars PROVE IInv'
<1>1. CASE NothingToDo
  BY <1>1, NothingToDoKeepsIInv
<1>2. ASSUME NEW i \in DOMAIN list, Create(i) PROVE IInv'
  BY <1>2, CreateKeepsIInv
<1>3. ASSUME NEW i \in DOMAIN list, Answer(i) PROVE IInv'
  BY <1>3, AnswerKeepsIInv
<1>4. ASSUME NEW i \in DOMAIN list, Chunk(i) PROVE IInv'
  BY <1>4, ChunkKeepsIInv
<1>5. ASSUME NEW i \in DOMAIN list, Finish(i) PROVE IInv'
  BY <1>5, FinishKeepsIInv
<1>6. ASSUME NEW i \in DOMAIN list, Fail(i) PROVE IInv'
  BY <1>6, FailKeepsIInv
<1>7. CASE Cancel
  BY <1>7, EndKeepsIInv DEF Cancel
<1>8. CASE UNCHANGED vars
  <2> USE <1>8 DEF vars
  <2>1. TypeOK'
    BY DEF IInv, TypeOK
  <2>2. Counted' /\ Ended'
    BY DEF IInv, Counted, Ended, Done, Orders
  <2>3. Positions' /\ NoFalseAlarm'
    BY DEF IInv, Positions, Started, NoFalseAlarm, DistinctFiles
  <2>4. LastWriterWhole' /\ OwnFile'
    BY DEF IInv, LastWriterWhole, OwnFile, Started, WholeFile, DistinctFiles
  <2> QED
    BY <2>1, <2>2, <2>3, <2>4 DEF IInv
<1> QED
  BY <1>1, <1>2, <1>3, <1>4, <1>5, <1>6, <1>7, <1>8 DEF Next, Progress

(* The invariant of concurrent downloads, for every list and window. *)
THEOREM DownloadsInvariant == Spec => []IInv
<1>1. Init => IInv
  BY InitIInv
<1>2. IInv /\ [Next]_vars => IInv'
  BY NextKeepsIInv
<1> QED
  BY <1>1, <1>2, PTL DEF Spec

(* The variables of a download have their types. *)
THEOREM DownloadsTypeOK == Spec => []TypeOK
<1>1. IInv => TypeOK
  BY DEF IInv
<1> QED
  BY <1>1, DownloadsInvariant, PTL

(* Success means that every file is whole, whoever else wrote it, and that   *)
(* none is corrupt when integrity is ensured.                               *)
LEMMA IInvGivesWhole ==
  ASSUME IInv PROVE OkMeansWhole
<1> SUFFICES ASSUME result = "ok", NEW i \in DOMAIN list
             PROVE  /\ tmp[list[i].file] = WholeFile
                    /\ ensure => remote[list[i].file] # "corrupt"
  BY DEF OkMeansWhole
<1>1. \A k \in DOMAIN list : phase[k] = "done" /\ got[k] = Chunks
  BY DEF IInv, Ended, Done, Positions
<1>2. PICK j \in DOMAIN list : list[j].file = list[i].file /\ 1 .. got[j] \subseteq tmp[list[j].file]
  BY <1>1 DEF IInv, LastWriterWhole, Started
<1>3. tmp[list[i].file] \subseteq WholeFile
  BY ListFacts DEF IInv, TypeOK
<1> QED
  BY <1>1, <1>2, <1>3 DEF WholeFile, IInv, Positions

THEOREM DownloadedIsWhole == Spec => []OkMeansWhole
BY IInvGivesWhole, DownloadsInvariant, PTL

(* A whole patch under a name of its own is never called corrupt. *)
THEOREM NeverFalseAlarm == Spec => []NoFalseAlarm
<1>1. IInv => NoFalseAlarm
  BY DEF IInv
<1> QED
  BY <1>1, DownloadsInvariant, PTL

(* The page's number of patches only goes up, to no more than are complete.  *)
LEMMA StepShows ==
  ASSUME IInv, [Next]_vars
  PROVE  [shown <= shown' /\ shown' <= Cardinality(Done)]_vars
<1>1. number = Cardinality(Done) /\ shown <= number /\ shown \in Int /\ number \in Int
  <2>1. TypeOK
    BY DEF IInv
  <2>2. {number, shown} \subseteq 0 .. Len(list) /\ Len(list) \in Nat
    BY <2>1, ListFacts DEF TypeOK
  <2> QED
    BY <2>2 DEF IInv, Counted
<1>2. shown' \in {shown, number} \/ UNCHANGED vars
  BY DEF Next, Progress, NothingToDo, Create, Answer, Chunk, Finish, Collect, Fail, Cancel, vars
<1> QED
  BY <1>1, <1>2

THEOREM ShownAlwaysAdvances == Spec => ShownAdvances
<1>1. IInv /\ [Next]_vars => [shown <= shown' /\ shown' <= Cardinality(Done)]_vars
  BY StepShows
<1> QED
  BY <1>1, DownloadsInvariant, PTL DEF Spec, ShownAdvances

-----------------------------------------------------------------------------
(* Refinement: the download is one step of the update routine. *)
LEMMA StepInit ==
  ASSUME Init PROVE Step!Init
BY DEF Init, Step!Init

(* What ends the download well hands over the queue in order and all files   *)
(* whole.                                                                   *)
LEMMA OkIsHandOver ==
  ASSUME IInv', OkMeansWhole', [Next]_vars, result = "running", result' = "ok"
  PROVE  Step!HandOver
<1>1. UNCHANGED list
  BY DEF Next, Progress, NothingToDo, Create, Answer, Chunk, Finish, Collect, Fail, Cancel, vars
<1>2. queue' \in Orders
  BY <1>1 DEF IInv, Ended, Orders
<1>3. {f \in Named : Usable(f)}' = Named
  BY <1>1 DEF OkMeansWhole, Named, Usable
<1> QED
  BY <1>1, <1>2, <1>3 DEF Step!HandOver, Step!Orders, Step!Named, Orders, Named

LEMMA StepNext ==
  ASSUME IInv', OkMeansWhole', [Next]_vars
  PROVE  [Step!HandOver \/ Step!Stop]_(Step!stepVars)
<1>1. UNCHANGED vars \/ (result = "running" /\ UNCHANGED list)
  BY DEF Next, Progress, NothingToDo, Create, Answer, Chunk, Finish, Collect, Fail, Cancel, vars, Runs
<1>2. CASE UNCHANGED vars
  BY <1>2 DEF vars, Step!stepVars, Named, Usable, WholeFile
<1>3. CASE result = "running" /\ UNCHANGED list /\ result' = "running"
  BY <1>3 DEF Step!stepVars
<1>4. CASE result = "running" /\ UNCHANGED list /\ result' = "ok"
  BY <1>4, OkIsHandOver
<1>5. CASE result = "running" /\ UNCHANGED list /\ result' \notin {"running", "ok"}
  BY <1>5 DEF Step!Stop
<1> QED
  BY <1>1, <1>2, <1>3, <1>4, <1>5

(* To the update routine a download is one step: it hands over every patch,  *)
(* whole and in order, or it stops.                                         *)
THEOREM DownloadIsOneStep == Spec => StepSpec
<1>1. Init => Step!Init
  BY StepInit
<1>2. IInv' /\ OkMeansWhole' /\ [Next]_vars => [Step!HandOver \/ Step!Stop]_(Step!stepVars)
  BY StepNext
<1> QED
  BY <1>1, <1>2, DownloadsInvariant, DownloadedIsWhole, PTL DEF Spec, StepSpec, Step!Spec
=============================================================================
