--------------------------- MODULE Update_proofs ---------------------------
(***************************************************************************)
(* Updates never leave a stale file: for every number of instances, every  *)
(* set of files and every list of patches, an update that reports Ready    *)
(* leaves no file older than its newest listed patch.                      *)
(***************************************************************************)
EXTENDS Update, TLAPS, WellFoundedInduction

(* A non-empty set of naturals has a least element. *)
LEMMA NatMin ==
  ASSUME NEW S, S \subseteq Nat, S # {}
  PROVE  \E m \in S : \A k \in S : m <= k
<1>1. PICK m \in S : \A k \in S : <<k, m>> \notin OpToRel(<, Nat)
  BY WFMin, NatLessThanWellFounded, Zenon
<1>2. \A k \in S : ~(k < m)
  BY <1>1, Zenon DEF OpToRel
<1> QED
  BY <1>2

(* The patch that is applied next is the one with the least index. *)
LEMMA NextPatchIsFirst ==
  ASSUME TypeOK, NEW i \in Instance, queue[i] # {}
  PROVE  /\ NextPatch(i) \in queue[i]
         /\ \A j \in queue[i] : NextPatch(i) <= j
<1>1. queue[i] \subseteq Nat
  BY DEF TypeOK
<1>2. \E k \in queue[i] : \A j \in queue[i] : k <= j
  BY <1>1, NatMin
<1> QED
  BY <1>2 DEF NextPatch

(* What a patch writes keeps the types, and keeps fresh what older patches  *)
(* wrote.                                                                   *)
LEMMA WriteKeepsTypes ==
  ASSUME TypeOK, NEW k \in 1 .. published, NEW fs, Write(k, fs)
  PROVE  game' \in [File -> 0 .. published]
BY DEF TypeOK, Write

LEMMA WriteKeepsFresh ==
  ASSUME TypeOK, NEW k \in 1 .. published, NEW fs, Write(k, fs),
         NEW ks \in SUBSET (1 .. k), Fresh(ks)
  PROVE  Fresh(ks)'
<1> SUFFICES ASSUME NEW j \in ks, NEW f \in Writes[j]
             PROVE  game'[f] >= j
  BY DEF Fresh
<1>1. j \in Index /\ j <= k /\ j \in Int /\ k \in Int
  <2>1. published \in Nat /\ published <= LastPatch /\ LastPatch \in Nat
    BY UpdateAssumption DEF TypeOK
  <2>2. j \in 1 .. k
    OBVIOUS
  <2>3. k \in Int /\ 1 <= k /\ k <= published
    BY <2>1
  <2>4. j \in Int /\ 1 <= j /\ j <= k
    BY <2>2, <2>3
  <2>5. j <= LastPatch
    BY <2>1, <2>3, <2>4
  <2> QED
    BY <2>1, <2>3, <2>4, <2>5 DEF Index
<1>2. f \in File
  BY <1>1, UpdateAssumption DEF Index
<1>3. game'[f] = IF f \in fs THEN k ELSE game[f]
  BY <1>2 DEF Write
<1>4. game[f] >= j
  BY DEF Fresh
<1> QED
  BY <1>1, <1>3, <1>4

(* The patch that an updating instance starts comes after all it has done    *)
(* and after the cached index.                                               *)
LEMMA NextPatchIsNew ==
  ASSUME TypeOK, QueueIsSuffix, NEW i \in Instance, Filtered(i), queue[i] # {}
  PROVE  /\ NextPatch(i) \in 1 .. published
         /\ list[i] \ queue[i] \in SUBSET (1 .. NextPatch(i))
         /\ Fresh(list[i] \ queue[i])
         /\ cache \in listed => cache < NextPatch(i)
<1>1. NextPatch(i) \in queue[i]
  BY NextPatchIsFirst
<1>2. queue[i] \subseteq 1 .. published /\ list[i] \subseteq 1 .. published
  BY DEF TypeOK
<1>3. published \in Int
  BY UpdateAssumption DEF TypeOK
<1>4. \A j \in list[i] \ queue[i] : j < NextPatch(i)
  BY <1>1 DEF QueueIsSuffix
<1>5. list[i] \ queue[i] \in SUBSET (1 .. NextPatch(i))
  BY <1>1, <1>2, <1>3, <1>4
<1> QED
  BY <1>1, <1>2, <1>5 DEF QueueIsSuffix

(* So a patch that is applied, wholly or in part, leaves sound what the      *)
(* cache says.                                                              *)
LEMMA WriteKeepsCache ==
  ASSUME TypeOK, CacheIsSound, NEW k \in 1 .. published, NEW fs, Write(k, fs),
         cache \in listed => cache < k, UNCHANGED <<cache, listed>>
  PROVE  CacheIsSound'
<1> SUFFICES ASSUME cache \in listed
             PROVE  Fresh({j \in listed : j <= cache})'
  BY DEF CacheIsSound
<1>1. cache < k /\ Fresh({j \in listed : j <= cache})
  BY DEF CacheIsSound
<1>2. ASSUME NEW j \in listed, j <= cache
      PROVE  j \in 1 .. k
  <2>1. /\ listed \subseteq 1 .. published /\ published \in Int
    BY UpdateAssumption DEF TypeOK
  <2>2. cache \in Int
    BY <2>1 DEF TypeOK
  <2> QED
    BY <1>1, <1>2, <2>1, <2>2
<1>3. Fresh({j \in listed : j <= cache}) =>
        \A j \in {m \in listed : m <= cache} :
          \A f \in Writes[j] : game'[f] >= j
  BY <1>2, WriteKeepsFresh DEF Fresh
<1> QED
  BY <1>1, <1>3 DEF Fresh

LEMMA InitInv == Init => IInv
<1> SUFFICES ASSUME Init
             PROVE  IInv
  OBVIOUS
<1>1. published \in 0 .. LastPatch
  BY UpdateAssumption DEF Init
<1>2. game \in [File -> 0 .. published]
  BY DEF Init
<1>3. pc \in [Instance -> {"idle", "fetching", "filtering", "downloading",
                          "patching", "caching", "writing", "ready"}]
  BY DEF Init
<1>4. /\ list \in [Instance -> SUBSET (1 .. published)]
      /\ queue \in [Instance -> SUBSET (1 .. published)]
  BY DEF Init
<1>5. cache \in -1 .. published
  BY DEF Init, None
<1>6. TypeOK
  BY <1>1, <1>2, <1>3, <1>4, <1>5 DEF Init, TypeOK
<1>7. Mutex /\ ReadyIsDone /\ AppliedBeforeCached
  BY DEF Init, Mutex, ReadyIsDone, AppliedBeforeCached
<1>8. ListIsPrefix /\ QueueIsSuffix /\ SkipIsSound
  BY DEF Init, ListIsPrefix, QueueIsSuffix, SkipIsSound, Filtered, Fetched
<1>9. CacheIsSound
  BY DEF Init, CacheIsSound
<1> QED
  BY <1>6, <1>7, <1>8, <1>9 DEF IInv

(* Every step preserves the invariant. *)
LEMMA NextInv ==
  ASSUME TypeOK, Mutex, ListIsPrefix, SkipIsSound, QueueIsSuffix,
         AppliedBeforeCached, ReadyIsDone, CacheIsSound, Next
  PROVE  IInv'
<1> USE UpdateAssumption DEF Index
<1>1. ASSUME Publish
     PROVE  IInv'
  <2>1. TypeOK'
    BY <1>1, SMT DEF TypeOK, Publish, update
  <2>2. Mutex'
    BY <1>1, SMT DEF Mutex, Publish, update
  <2>3. ListIsPrefix'
    BY <1>1, SMT DEF ListIsPrefix, Fetched, TypeOK, Publish, update
  <2>4. SkipIsSound'
    BY <1>1, SMT DEF SkipIsSound, Fresh, Publish, update
  <2>5. QueueIsSuffix'
    BY <1>1, SMT DEF QueueIsSuffix, Filtered, Fetched, Fresh, TypeOK, Publish, update
  <2>6. AppliedBeforeCached'
    BY <1>1, SMT DEF AppliedBeforeCached, NextPatch, Fresh, Publish,
       update
  <2>7. ReadyIsDone'
    BY <1>1, SMT DEF ReadyIsDone, Publish, update
  <2>8. CacheIsSound'
    BY <1>1, SMT DEF CacheIsSound, Fresh, TypeOK, Publish, update
  <2> QED
    BY <2>1, <2>2, <2>3, <2>4, <2>5, <2>6, <2>7, <2>8 DEF IInv
<1>2. ASSUME NEW k \in Index, Withdraw(k)
     PROVE  IInv'
  <2>1. TypeOK'
    BY <1>2, SMT DEF TypeOK, Withdraw, update
  <2>2. Mutex'
    BY <1>2, SMT DEF Mutex, Withdraw, update
  <2>3. ListIsPrefix'
    BY <1>2, SMT DEF ListIsPrefix, Fetched, Withdraw, update
  <2>4. SkipIsSound'
    BY <1>2, SMT DEF SkipIsSound, Fresh, Withdraw, update
  <2>5. QueueIsSuffix'
    BY <1>2, SMT DEF QueueIsSuffix, Filtered, Fetched, Fresh, Withdraw,
       update
  <2>6. AppliedBeforeCached'
    BY <1>2, SMT DEF AppliedBeforeCached, NextPatch, Fresh, Withdraw,
       update
  <2>7. ReadyIsDone'
    BY <1>2, SMT DEF ReadyIsDone, Withdraw, update
  <2>8. CacheIsSound'
    BY <1>2, SMT DEF CacheIsSound, Fresh, Withdraw, update
  <2> QED
    BY <2>1, <2>2, <2>3, <2>4, <2>5, <2>6, <2>7, <2>8 DEF IInv
<1>3. ASSUME ResetCache
     PROVE  IInv'
  <2>1. TypeOK'
    BY <1>3, SMT DEF TypeOK, ResetCache, server, update, None
  <2>2. Mutex'
    BY <1>3, SMT DEF Mutex, ResetCache, server, update, None
  <2>3. ListIsPrefix'
    BY <1>3, SMT DEF ListIsPrefix, Fetched, TypeOK, ResetCache, server,
       update, None
  <2>4. SkipIsSound'
    BY <1>3, SMT DEF SkipIsSound, Fresh, TypeOK, ResetCache, server, update,
       None
  <2>5. QueueIsSuffix'
    BY <1>3, SMT DEF QueueIsSuffix, Filtered, Fetched, Fresh, TypeOK,
       ResetCache, server, update, None
  <2>6. AppliedBeforeCached'
    BY <1>3, SMT DEF AppliedBeforeCached, NextPatch, Fresh, ResetCache,
       server, update, None
  <2>7. ReadyIsDone'
    BY <1>3, SMT DEF ReadyIsDone, ResetCache, server, update, None
  <2>8. CacheIsSound'
    BY <1>3, SMT DEF CacheIsSound, Fresh, TypeOK, ResetCache, server, update,
       None
  <2> QED
    BY <2>1, <2>2, <2>3, <2>4, <2>5, <2>6, <2>7, <2>8 DEF IInv
<1>4. ASSUME NEW i \in Instance, TakeLock(i)
     PROVE  IInv'
  <2>1. TypeOK'
    BY <1>4, SMT DEF TypeOK, TakeLock, Goto, server
  <2>2. Mutex'
    BY <1>4, SMT DEF Mutex, TakeLock, Goto, server
  <2>3. ListIsPrefix'
    BY <1>4, SMT DEF ListIsPrefix, Fetched, TakeLock, Goto, server
  <2>4. SkipIsSound'
    BY <1>4, SMT DEF SkipIsSound, Fresh, TakeLock, Goto, server
  <2>5. QueueIsSuffix'
    BY <1>4, SMT DEF QueueIsSuffix, Filtered, Fetched, Fresh, TakeLock, Goto,
       server
  <2>6. AppliedBeforeCached'
    BY <1>4, SMT DEF AppliedBeforeCached, NextPatch, Fresh, TakeLock, Goto,
       server
  <2>7. ReadyIsDone'
    BY <1>4, SMT DEF ReadyIsDone, TakeLock, Goto, server
  <2>8. CacheIsSound'
    BY <1>4, SMT DEF CacheIsSound, Fresh, TakeLock, Goto, server
  <2> QED
    BY <2>1, <2>2, <2>3, <2>4, <2>5, <2>6, <2>7, <2>8 DEF IInv
<1>5. ASSUME NEW i \in Instance, FetchList(i)
     PROVE  IInv'
  <2>a. \A j \in Instance \ {i} : pc[j] = "idle"
    BY <1>5, SMT DEF Mutex, FetchList
  <2>1. TypeOK'
    BY <1>5, SMT DEF TypeOK, FetchList, Goto, server
  <2>2. Mutex'
    BY <1>5, SMT DEF Mutex, FetchList, Goto, server
  <2>3. ListIsPrefix'
    BY <1>5, SMT DEF ListIsPrefix, Fetched, TypeOK, FetchList, Goto, server
  <2>4. SkipIsSound'
    <3>1. ASSUME cache \in list'[i]
          PROVE  Fresh({k \in list'[i] : k <= cache})
      <4>1. list'[i] = listed
        BY <1>5 DEF FetchList, TypeOK
      <4> QED
        BY <3>1, <4>1 DEF CacheIsSound
    <3> QED
      BY <1>5, <2>a, <3>1
      DEF SkipIsSound, FetchList, Goto, server, Fresh, TypeOK
  <2>5. QueueIsSuffix'
    BY <1>5, SMT DEF QueueIsSuffix, Filtered, Fetched, Fresh, FetchList, Goto,
       server
  <2>6. AppliedBeforeCached'
    BY <1>5, SMT DEF AppliedBeforeCached, NextPatch, Fresh, FetchList, Goto,
       server
  <2>7. ReadyIsDone'
    BY <1>5, SMT DEF ReadyIsDone, FetchList, Goto, server
  <2>8. CacheIsSound'
    BY <1>5, SMT DEF CacheIsSound, Fresh, FetchList, Goto, server
  <2> QED
    BY <2>1, <2>2, <2>3, <2>4, <2>5, <2>6, <2>7, <2>8 DEF IInv
<1>6. ASSUME NEW i \in Instance, FilterList(i)
     PROVE  IInv'
  <2>a. \A j \in Instance \ {i} : pc[j] = "idle"
    BY <1>6, SMT DEF Mutex, FilterList
  <2>1. TypeOK'
    <3>1. queue'[i] \subseteq 1 .. published
      BY <1>6, SMT DEF TypeOK, FilterList, Goto
    <3>2. queue' = [queue EXCEPT ![i] = queue'[i]]
      BY <1>6, SMT DEF TypeOK, FilterList, Goto
    <3>3. queue' \in [Instance -> SUBSET (1 .. published)]
      BY <3>1, <3>2, SMT DEF TypeOK
    <3>4. pc' \in [Instance -> {"idle", "fetching", "filtering",
                               "downloading", "patching", "caching",
                               "writing", "ready"}]
      BY <1>6 DEF TypeOK, FilterList, Goto
    <3> QED
      BY <1>6, <3>3, <3>4 DEF TypeOK, FilterList, server
  <2>2. Mutex'
    BY <1>6, SMT DEF Mutex, FilterList, Goto, server
  <2>3. ListIsPrefix'
    BY <1>6, SMT DEF ListIsPrefix, Fetched, FilterList, Goto, server
  <2>4. SkipIsSound'
    BY <1>6, SMT DEF SkipIsSound, Fresh, FilterList, Goto, server
  <2>5. QueueIsSuffix'
    <3>1. CASE cache \in list[i]
      <4>1. queue'[i] = {k \in list[i] : k > cache}
        BY <1>6, <3>1, SMT DEF TypeOK, FilterList, Goto
      <4>2. list[i] \ queue'[i] \subseteq {k \in list[i] : k <= cache}
        BY <4>1, <3>1, SMT DEF TypeOK
      <4>3. Fresh({k \in list[i] : k <= cache})
        BY <1>6, <3>1 DEF SkipIsSound, FilterList
      <4>4. \A j \in list[i] \ queue'[i] : \A k \in queue'[i] : j < k
        BY <4>1, <3>1, SMT DEF TypeOK
      <4> QED
        BY <1>6, <2>a, <4>1, <4>2, <4>3, <4>4, SMT
        DEF QueueIsSuffix, Filtered, Fetched, Fresh, FilterList, Goto, server,
            TypeOK
    <3>2. CASE cache \notin list[i]
      <4>1. queue'[i] = list[i]
        BY <1>6, <3>2, SMT DEF TypeOK, FilterList, Goto
      <4>2. cache \notin listed
        BY <1>6, <3>2, SMT DEF ListIsPrefix, Fetched, FilterList
      <4> QED
        BY <1>6, <2>a, <4>1, <4>2, SMT
        DEF QueueIsSuffix, Filtered, Fetched, Fresh, FilterList, Goto, server,
            TypeOK
    <3> QED
      BY <3>1, <3>2
  <2>6. AppliedBeforeCached'
    BY <1>6, SMT DEF AppliedBeforeCached, NextPatch, Fresh, FilterList, Goto,
       server
  <2>7. ReadyIsDone'
    BY <1>6, SMT DEF ReadyIsDone, FilterList, Goto, server
  <2>8. CacheIsSound'
    BY <1>6, SMT DEF CacheIsSound, Fresh, FilterList, Goto, server
  <2> QED
    BY <2>1, <2>2, <2>3, <2>4, <2>5, <2>6, <2>7, <2>8 DEF IInv
<1>7. ASSUME NEW i \in Instance, Download(i)
     PROVE  IInv'
  <2>1. TypeOK'
    BY <1>7, SMT DEF TypeOK, Download, Goto, server
  <2>2. Mutex'
    BY <1>7, SMT DEF Mutex, Download, Goto, server
  <2>3. ListIsPrefix'
    BY <1>7, SMT DEF ListIsPrefix, Fetched, Download, Goto, server
  <2>4. SkipIsSound'
    BY <1>7, SMT DEF SkipIsSound, Fresh, Download, Goto, server
  <2>5. QueueIsSuffix'
    BY <1>7, SMT DEF QueueIsSuffix, Filtered, Fetched, Fresh, Download, Goto,
       server
  <2>6. AppliedBeforeCached'
    BY <1>7, SMT DEF AppliedBeforeCached, NextPatch, Fresh, Download, Goto,
       server
  <2>7. ReadyIsDone'
    BY <1>7, SMT DEF ReadyIsDone, Download, Goto, server
  <2>8. CacheIsSound'
    BY <1>7, SMT DEF CacheIsSound, Fresh, TypeOK, Mutex, QueueIsSuffix,
       Filtered, Fetched, Download, Goto, server
  <2> QED
    BY <2>1, <2>2, <2>3, <2>4, <2>5, <2>6, <2>7, <2>8 DEF IInv
<1>8. ASSUME NEW i \in Instance, ApplyPatch(i)
     PROVE  IInv'
  <2>a. \A j \in Instance \ {i} : pc[j] = "idle"
    BY <1>8, SMT DEF Mutex, ApplyPatch
  <2>b. /\ game' \in [File -> 0 .. published]
        /\ Fresh(list[i] \ queue[i])'
        /\ CacheIsSound'
    <3>1. Filtered(i) /\ queue[i] # {} /\ UNCHANGED <<cache, listed, list, queue>>
      BY <1>8 DEF ApplyPatch, Filtered, Fetched, server
    <3>2. Write(NextPatch(i), Writes[NextPatch(i)])
      BY <1>8 DEF ApplyPatch
    <3>3. Fresh(list[i] \ queue[i]) => Fresh(list[i] \ queue[i])'
      BY <3>1, <3>2, NextPatchIsNew, WriteKeepsFresh DEF Fresh
    <3> QED
      BY <3>1, <3>2, <3>3, NextPatchIsNew, WriteKeepsTypes, WriteKeepsCache
  <2>1. TypeOK'
    BY <1>8, <2>b, SMT DEF TypeOK, ApplyPatch, Goto, server
  <2>2. Mutex'
    BY <1>8, SMT DEF Mutex, ApplyPatch, Goto, Write, server
  <2>3. ListIsPrefix'
    BY <1>8, SMT DEF ListIsPrefix, Fetched, ApplyPatch, Goto, Write, server
  <2>4. SkipIsSound'
    BY <1>8, <2>a, SMT DEF SkipIsSound, ApplyPatch, Goto, TypeOK
  <2>5. QueueIsSuffix'
    <3>1. /\ UNCHANGED <<cache, listed, list, queue>>
          /\ \A j \in Instance \ {i} : pc'[j] = "idle"
      BY <1>8, <2>a DEF ApplyPatch, Goto, server, TypeOK
    <3>2. Filtered(i)
      BY <1>8 DEF ApplyPatch, Filtered, Fetched
    <3> SUFFICES ASSUME NEW m \in Instance, Filtered(m)'
                 PROVE  m = i
      BY <2>b, <3>1, <3>2 DEF QueueIsSuffix
    <3> QED
      BY <3>1 DEF Filtered, Fetched
  <2>6. AppliedBeforeCached'
    <3>1. NextPatch(i)' = NextPatch(i)
      BY <1>8 DEF ApplyPatch, NextPatch
    <3>2. NextPatch(i) \in Index
      <4>1. NextPatch(i) \in 1 .. published
        BY <1>8, NextPatchIsNew DEF ApplyPatch, Filtered, Fetched
      <4>2. published \in 0 .. LastPatch
        BY DEF TypeOK
      <4> QED
        BY <4>1, <4>2
    <3>3. Fresh({NextPatch(i)})'
      BY <1>8, <3>1, <3>2, SMT DEF ApplyPatch, Write, Fresh
    <3>4. /\ \A j \in Instance \ {i} : pc'[j] = "idle"
          /\ queue'[i] # {}
      BY <1>8, <2>a DEF ApplyPatch, Goto, TypeOK
    <3> QED
      BY <3>1, <3>3, <3>4 DEF AppliedBeforeCached
  <2>7. ReadyIsDone'
    BY <1>8, SMT DEF ReadyIsDone, ApplyPatch, Goto, Write, server
  <2>8. CacheIsSound'
    BY <2>b
  <2> QED
    BY <2>1, <2>2, <2>3, <2>4, <2>5, <2>6, <2>7, <2>8 DEF IInv
<1>9. ASSUME NEW i \in Instance, ApplyPatchFails(i)
     PROVE  IInv'
  <2>a. \A j \in Instance \ {i} : pc[j] = "idle"
    BY <1>9, SMT DEF Mutex, ApplyPatchFails
  <2>b. /\ game' \in [File -> 0 .. published]
        /\ CacheIsSound'
    <3>1. PICK fs : Write(NextPatch(i), fs)
      BY <1>9 DEF ApplyPatchFails
    <3> DEFINE Done == list[i] \ queue[i]
    <3>2. /\ NextPatch(i) \in 1 .. published
          /\ cache \in listed => cache < NextPatch(i)
      BY <1>9, NextPatchIsNew DEF ApplyPatchFails, Filtered, Fetched
    <3>3. CacheIsSound'
      BY <1>9, <3>1, <3>2, WriteKeepsCache
      DEF ApplyPatchFails, End, server
    <3> QED
      BY <3>1, <3>2, <3>3, WriteKeepsTypes
  <2>1. TypeOK'
    <3>1. holder' \subseteq Instance /\ pc' = [pc EXCEPT ![i] = "idle"]
      BY <1>9 DEF ApplyPatchFails, End, Goto, TypeOK
    <3>2. /\ list' \in [Instance -> SUBSET (1 .. published)]
          /\ queue' \in [Instance -> SUBSET (1 .. published)]
      BY <1>9, SMT DEF TypeOK, ApplyPatchFails, End
    <3>3. pc' \in [Instance -> {"idle", "fetching", "filtering",
                               "downloading", "patching", "caching",
                               "writing", "ready"}]
      BY <3>1 DEF TypeOK
    <3> QED
      BY <1>9, <2>b, <3>1, <3>2, <3>3
      DEF TypeOK, ApplyPatchFails, End, server
  <2>2. Mutex'
    BY <1>9, SMT DEF Mutex, TypeOK, ApplyPatchFails, End, Goto, Write, server
  <2>3. ListIsPrefix'
    BY <1>9, SMT DEF ListIsPrefix, Fetched, TypeOK, ApplyPatchFails, End,
       Goto, Write, server
  <2>4. SkipIsSound'
    BY <1>9, <2>a, SMT DEF SkipIsSound, ApplyPatchFails, End, Goto, TypeOK
  <2>5. QueueIsSuffix'
    BY <1>9, <2>a, SMT
    DEF QueueIsSuffix, Filtered, Fetched, ApplyPatchFails, End, Goto, TypeOK
  <2>6. AppliedBeforeCached'
    BY <1>9, <2>a, SMT
    DEF AppliedBeforeCached, ApplyPatchFails, End, Goto, TypeOK
  <2>7. ReadyIsDone'
    BY <1>9, SMT DEF ReadyIsDone, ApplyPatchFails, End, Goto, Write, server
  <2>8. CacheIsSound'
    BY <2>b
  <2> QED
    BY <2>1, <2>2, <2>3, <2>4, <2>5, <2>6, <2>7, <2>8 DEF IInv
<1>10. ASSUME NEW i \in Instance, TruncateCache(i)
     PROVE  IInv'
  <2>1. TypeOK'
    BY <1>10, SMT DEF TypeOK, TruncateCache, Goto, Garbage, server
  <2>2. Mutex'
    BY <1>10, SMT DEF Mutex, TruncateCache, Goto, Garbage, server
  <2>3. ListIsPrefix'
    BY <1>10, SMT DEF ListIsPrefix, Fetched, TypeOK, TruncateCache, Goto,
       Garbage, server
  <2>4. SkipIsSound'
    BY <1>10, SMT DEF SkipIsSound, Fresh, TypeOK, TruncateCache, Goto,
       Garbage, server
  <2>5. QueueIsSuffix'
    BY <1>10, SMT DEF QueueIsSuffix, Filtered, Fetched, Fresh, TypeOK,
       TruncateCache, Goto, Garbage, server
  <2>6. AppliedBeforeCached'
    BY <1>10, SMT DEF AppliedBeforeCached, NextPatch, Fresh, TruncateCache,
       Goto, Garbage, server
  <2>7. ReadyIsDone'
    BY <1>10, SMT DEF ReadyIsDone, TruncateCache, Goto, Garbage, server
  <2>8. CacheIsSound'
    BY <1>10, SMT DEF CacheIsSound, Fresh, TypeOK, TruncateCache, Goto,
       Garbage, server
  <2> QED
    BY <2>1, <2>2, <2>3, <2>4, <2>5, <2>6, <2>7, <2>8 DEF IInv
<1>11. ASSUME NEW i \in Instance, WriteCache(i)
     PROVE  IInv'
  <2>a. \A j \in Instance \ {i} : pc[j] = "idle"
    BY <1>11, SMT DEF Mutex, WriteCache
  <2> DEFINE k == NextPatch(i)
  <2>b. /\ k \in queue[i] /\ queue[i] \subseteq list[i]
        /\ \A j \in queue[i] : k <= j
        /\ list[i] \subseteq 1 .. published
        /\ listed \subseteq 1 .. published
        /\ published \in 0 .. LastPatch
    BY <1>11, NextPatchIsFirst
    DEF WriteCache, AppliedBeforeCached, QueueIsSuffix, Filtered, Fetched,
        TypeOK
  <2>c. Fresh({k}) /\ Fresh(list[i] \ queue[i])
    BY <1>11
    DEF WriteCache, AppliedBeforeCached, QueueIsSuffix, Filtered, Fetched
  <2>d. /\ queue' = [queue EXCEPT ![i] = queue[i] \ {k}]
        /\ pc' = [pc EXCEPT ![i] = "patching"]
        /\ cache' \in {None, k}
        /\ UNCHANGED <<listed, published, game, holder, list>>
    BY <1>11 DEF WriteCache, Cached, Goto, server
  <2>e. cache' \in listed => cache' = k
    BY <2>b, <2>d, SMT DEF None
  <2> HIDE DEF k
  <2>1. TypeOK'
    <3>1. k \in 1 .. published
      BY <2>b
    <3>2. cache' \in -1 .. published
      BY <2>b, <2>d, <3>1 DEF None
    <3>3. /\ queue' \in [Instance -> SUBSET (1 .. published)]
          /\ pc' \in [Instance -> {"idle", "fetching", "filtering",
                                  "downloading", "patching", "caching",
                                  "writing", "ready"}]
      BY <2>d DEF TypeOK
    <3> QED
      BY <2>d, <3>2, <3>3 DEF TypeOK
  <2>2. Mutex'
    BY <1>11, SMT DEF Mutex, WriteCache, Cached, Goto, None, server
  <2>3. ListIsPrefix'
    BY <2>a, <2>b, <2>d, <2>e, <1>11, SMT
    DEF ListIsPrefix, Fetched, WriteCache, TypeOK
  <2>4. SkipIsSound'
    BY <1>11, <2>a, <2>d, SMT DEF SkipIsSound, WriteCache, TypeOK
  <2>5. QueueIsSuffix'
    <3>1. /\ queue'[i] = queue[i] \ {k} /\ list'[i] = list[i]
          /\ \A j \in Instance \ {i} : pc'[j] = "idle"
      BY <2>a, <2>d DEF TypeOK
    <3>2. list[i] \ queue'[i] = (list[i] \ queue[i]) \cup {k}
      BY <2>b, <3>1
    <3>3. Fresh(list[i] \ queue'[i])
      BY <2>c, <3>2 DEF Fresh
    <3>4. \A j \in queue'[i] : k < j
      BY <2>b, <3>1, SMT
    <3>5. \A j \in list[i] \ queue[i] : \A q \in queue[i] : j < q
      BY <1>11 DEF QueueIsSuffix, WriteCache, Filtered, Fetched
    <3>6. \A j \in list[i] \ queue'[i] : \A q \in queue'[i] : j < q
      BY <3>1, <3>2, <3>4, <3>5
    <3>7. cache' \in listed => \A q \in queue'[i] : cache' < q
      BY <2>e, <3>4
    <3>8. queue'[i] \subseteq list[i]
      BY <2>b, <3>1
    <3> SUFFICES ASSUME NEW m \in Instance, Filtered(m)'
                 PROVE  /\ m = i
                        /\ UNCHANGED <<game, listed, list>>
      BY <3>3, <3>6, <3>7, <3>8 DEF QueueIsSuffix, Fresh
    <3> QED
      BY <2>d, <3>1 DEF Filtered, Fetched
  <2>6. AppliedBeforeCached'
    BY <1>11, SMT DEF AppliedBeforeCached, NextPatch, Fresh, TypeOK,
       WriteCache, Cached, Goto, None, server
  <2>7. ReadyIsDone'
    BY <1>11, SMT DEF ReadyIsDone, WriteCache, Cached, Goto, None, server
  <2>8. CacheIsSound'
    <3> SUFFICES ASSUME cache' = k, NEW j \in listed, j <= k
                 PROVE  \A f \in Writes[j] : game[f] >= j
      BY <2>d, <2>e DEF CacheIsSound, Fresh
    <3>1. j \in list[i]
      <4>1. j \in Int /\ k \in Int /\ k \in list[i]
        BY <2>b
      <4>2. j \notin list[i] => k < j
        BY <1>11, <4>1 DEF ListIsPrefix, Fetched, WriteCache
      <4> QED
        BY <4>1, <4>2
    <3>2. j \in queue[i] => j = k
      BY <2>b, SMT
    <3> QED
      BY <2>c, <3>1, <3>2 DEF Fresh
  <2> QED
    BY <2>1, <2>2, <2>3, <2>4, <2>5, <2>6, <2>7, <2>8 DEF IInv
<1>12. ASSUME NEW i \in Instance, CacheFails(i)
     PROVE  IInv'
  <2>a. \A j \in Instance \ {i} : pc[j] = "idle"
    BY <1>12, SMT DEF Mutex, CacheFails
  <2> DEFINE k == NextPatch(i)
  <2>b. /\ k \in queue[i] /\ queue[i] \subseteq list[i]
        /\ \A j \in queue[i] : k <= j
        /\ list[i] \subseteq 1 .. published
        /\ listed \subseteq 1 .. published
        /\ published \in 0 .. LastPatch
    BY <1>12, NextPatchIsFirst
    DEF CacheFails, AppliedBeforeCached, QueueIsSuffix, Filtered, Fetched,
        TypeOK
  <2>c. Fresh({k}) /\ Fresh(list[i] \ queue[i])
    BY <1>12
    DEF CacheFails, AppliedBeforeCached, QueueIsSuffix, Filtered, Fetched
  <2>d. /\ queue' = [queue EXCEPT ![i] = queue[i] \ {k}]
        /\ pc' = [pc EXCEPT ![i] = "patching"]
        /\ cache' = cache
        /\ UNCHANGED <<listed, published, game, holder, list>>
    BY <1>12 DEF CacheFails, Cached, Goto, server
  <2>e. cache \in listed => \A j \in queue[i] : cache < j
    BY <1>12 DEF CacheFails, QueueIsSuffix, Filtered, Fetched
  <2> HIDE DEF k
  <2>1. TypeOK'
    BY <1>12, SMT DEF TypeOK, CacheFails, Cached, Goto, server
  <2>2. Mutex'
    BY <1>12, SMT DEF Mutex, CacheFails, Cached, Goto, server
  <2>3. ListIsPrefix'
    BY <1>12, SMT DEF ListIsPrefix, Fetched, CacheFails, Cached, Goto, server
  <2>4. SkipIsSound'
    BY <1>12, SMT DEF SkipIsSound, Fresh, CacheFails, Cached, Goto, server
  <2>5. QueueIsSuffix'
    <3>1. /\ queue'[i] = queue[i] \ {k} /\ list'[i] = list[i]
          /\ \A j \in Instance \ {i} : pc'[j] = "idle"
      BY <2>a, <2>d DEF TypeOK
    <3>2. list[i] \ queue'[i] = (list[i] \ queue[i]) \cup {k}
      BY <2>b, <3>1
    <3>3. Fresh(list[i] \ queue'[i])
      BY <2>c, <3>2 DEF Fresh
    <3>4. \A j \in queue'[i] : k < j
      BY <2>b, <3>1, SMT
    <3>5. \A j \in list[i] \ queue[i] : \A q \in queue[i] : j < q
      BY <1>12 DEF QueueIsSuffix, CacheFails, Filtered, Fetched
    <3>6. \A j \in list[i] \ queue'[i] : \A q \in queue'[i] : j < q
      BY <3>1, <3>2, <3>4, <3>5
    <3>7. cache' \in listed => \A q \in queue'[i] : cache' < q
      BY <2>d, <2>e, <3>1
    <3>8. queue'[i] \subseteq list[i]
      BY <2>b, <3>1
    <3> SUFFICES ASSUME NEW m \in Instance, Filtered(m)'
                 PROVE  /\ m = i
                        /\ UNCHANGED <<game, listed, list>>
      BY <3>3, <3>6, <3>7, <3>8 DEF QueueIsSuffix, Fresh
    <3> QED
      BY <2>d, <3>1 DEF Filtered, Fetched
  <2>6. AppliedBeforeCached'
    BY <1>12, SMT DEF AppliedBeforeCached, NextPatch, Fresh, TypeOK,
       CacheFails, Cached, Goto, server
  <2>7. ReadyIsDone'
    BY <1>12, SMT DEF ReadyIsDone, CacheFails, Cached, Goto, server
  <2>8. CacheIsSound'
    BY <1>12, SMT DEF CacheIsSound, Fresh, CacheFails, Cached, Goto, server
  <2> QED
    BY <2>1, <2>2, <2>3, <2>4, <2>5, <2>6, <2>7, <2>8 DEF IInv
<1>13. ASSUME NEW i \in Instance, Finish(i)
     PROVE  IInv'
  <2>1. TypeOK'
    BY <1>13, SMT DEF TypeOK, Finish, Goto, server
  <2>2. Mutex'
    BY <1>13, SMT DEF Mutex, Finish, Goto, server
  <2>3. ListIsPrefix'
    BY <1>13, SMT DEF ListIsPrefix, Fetched, Finish, Goto, server
  <2>4. SkipIsSound'
    BY <1>13, SMT DEF SkipIsSound, Fresh, Finish, Goto, server
  <2>5. QueueIsSuffix'
    BY <1>13, SMT DEF QueueIsSuffix, Filtered, Fetched, Fresh, Finish, Goto,
       server
  <2>6. AppliedBeforeCached'
    BY <1>13, SMT DEF AppliedBeforeCached, NextPatch, Fresh, Finish, Goto,
       server
  <2>7. ReadyIsDone'
    BY <1>13, SMT DEF ReadyIsDone, Finish, Goto, server
  <2>8. CacheIsSound'
    BY <1>13, SMT DEF CacheIsSound, Fresh, Finish, Goto, server
  <2> QED
    BY <2>1, <2>2, <2>3, <2>4, <2>5, <2>6, <2>7, <2>8 DEF IInv
<1>14. ASSUME NEW i \in Instance, Unlock(i)
     PROVE  IInv'
  <2>1. TypeOK'
    BY <1>14, SMT DEF TypeOK, Unlock, End, Goto, server
  <2>2. Mutex'
    BY <1>14, SMT DEF Mutex, TypeOK, Unlock, End, Goto, server
  <2>3. ListIsPrefix'
    BY <1>14, SMT DEF ListIsPrefix, Fetched, TypeOK, Unlock, End, Goto,
       server
  <2>4. SkipIsSound'
    BY <1>14, SMT DEF SkipIsSound, Fresh, Unlock, End, Goto, server
  <2>5. QueueIsSuffix'
    BY <1>14, SMT DEF QueueIsSuffix, Filtered, Fetched, Fresh, TypeOK, Unlock,
       End, Goto, server
  <2>6. AppliedBeforeCached'
    BY <1>14, SMT DEF AppliedBeforeCached, NextPatch, Fresh, Unlock, End,
       Goto, server
  <2>7. ReadyIsDone'
    BY <1>14, SMT DEF ReadyIsDone, Unlock, End, Goto, server
  <2>8. CacheIsSound'
    BY <1>14, SMT DEF CacheIsSound, Fresh, Unlock, End, Goto, server
  <2> QED
    BY <2>1, <2>2, <2>3, <2>4, <2>5, <2>6, <2>7, <2>8 DEF IInv
<1>15. ASSUME NEW i \in Instance, Abort(i)
     PROVE  IInv'
  <2>1. TypeOK'
    BY <1>15, SMT DEF TypeOK, Abort, End, Goto, server
  <2>2. Mutex'
    BY <1>15, SMT DEF Mutex, TypeOK, Abort, End, Goto, server
  <2>3. ListIsPrefix'
    BY <1>15, SMT DEF ListIsPrefix, Fetched, TypeOK, Abort, End, Goto, server
  <2>4. SkipIsSound'
    BY <1>15, SMT DEF SkipIsSound, Fresh, Abort, End, Goto, server
  <2>5. QueueIsSuffix'
    BY <1>15, SMT DEF QueueIsSuffix, Filtered, Fetched, Fresh, TypeOK, Abort,
       End, Goto, server
  <2>6. AppliedBeforeCached'
    BY <1>15, SMT DEF AppliedBeforeCached, NextPatch, Fresh, Abort, End, Goto,
       server
  <2>7. ReadyIsDone'
    BY <1>15, SMT DEF ReadyIsDone, Abort, End, Goto, server
  <2>8. CacheIsSound'
    BY <1>15, SMT DEF CacheIsSound, Fresh, Abort, End, Goto, server
  <2> QED
    BY <2>1, <2>2, <2>3, <2>4, <2>5, <2>6, <2>7, <2>8 DEF IInv
<1>16. ASSUME NEW i \in Instance, Crash(i)
     PROVE  IInv'
  <2>1. TypeOK'
    BY <1>16, SMT DEF TypeOK, Crash, End, Goto, server
  <2>2. Mutex'
    BY <1>16, SMT DEF Mutex, TypeOK, Crash, End, Goto, server
  <2>3. ListIsPrefix'
    BY <1>16, SMT DEF ListIsPrefix, Fetched, TypeOK, Crash, End, Goto, server
  <2>4. SkipIsSound'
    BY <1>16, SMT DEF SkipIsSound, Fresh, Crash, End, Goto, server
  <2>5. QueueIsSuffix'
    BY <1>16, SMT DEF QueueIsSuffix, Filtered, Fetched, Fresh, TypeOK, Crash,
       End, Goto, server
  <2>6. AppliedBeforeCached'
    BY <1>16, SMT DEF AppliedBeforeCached, NextPatch, Fresh, TypeOK, Crash,
       End, Goto, server
  <2>7. ReadyIsDone'
    BY <1>16, SMT DEF ReadyIsDone, Crash, End, Goto, server
  <2>8. CacheIsSound'
    BY <1>16, SMT DEF CacheIsSound, Fresh, Crash, End, Goto, server
  <2> QED
    BY <2>1, <2>2, <2>3, <2>4, <2>5, <2>6, <2>7, <2>8 DEF IInv
<1> QED
  BY <1>1, <1>2, <1>3, <1>4, <1>5, <1>6, <1>7, <1>8, <1>9, <1>10, <1>11,
     <1>12, <1>13, <1>14, <1>15, <1>16
  DEF Next, Step

LEMMA StutterInv ==
  ASSUME IInv, UNCHANGED vars
  PROVE  IInv'
BY DEF vars, server, update, IInv, TypeOK, Mutex, ListIsPrefix, Fetched,
   SkipIsSound, QueueIsSuffix, Filtered, AppliedBeforeCached, NextPatch,
   ReadyIsDone, CacheIsSound, Fresh

(* The invariant of updates. *)
THEOREM UpdateInvariant == Spec => []IInv
<1>1. IInv /\ [Next]_vars => IInv'
  BY NextInv, StutterInv DEF IInv
<1> QED
  BY <1>1, InitInv, PTL DEF Spec

THEOREM UpdateTypeOK == Spec => []TypeOK
BY UpdateInvariant, PTL DEF IInv

(* What skipping by the cached index rests on. *)
THEOREM CacheAlwaysSound == Spec => []CacheIsSound
BY UpdateInvariant, PTL DEF IInv

(* An update that reports Ready leaves no stale file. *)
THEOREM NoStaleFileAfterReady == Spec => []NoStaleFile
<1>1. IInv => NoStaleFile
  <2>1. SUFFICES ASSUME IInv, NEW i \in Instance, pc[i] = "ready"
                 PROVE  Fresh(list[i])
    BY DEF NoStaleFile
  <2>2. queue[i] = {} /\ Fresh(list[i] \ queue[i])
    BY <2>1 DEF IInv, ReadyIsDone, QueueIsSuffix, Filtered, Fetched
  <2> QED
    BY <2>2
<1> QED
  BY <1>1, UpdateInvariant, PTL
============================================================================
