-------------------------------- MODULE Update --------------------------------
(***************************************************************************)
(* Updates of one game directory over time: the update routine of          *)
(* rpatchur/src/patcher/core.rs with the lock file, the cache file         *)
(* (patcher/cache.rs) and the patch list of the server.                    *)
(*                                                                         *)
(* Several instances of the patcher may run in the directory.  An update   *)
(* takes the lock, fetches the list, skips what the cache says is applied, *)
(* downloads, and applies patch after patch, writing the cache after each. *)
(* It can be cancelled, fail or be killed at every step; the server's      *)
(* maintainer publishes patches and withdraws them (a line of plist.txt    *)
(* that is commented out), and users reset the cache.                      *)
(*                                                                         *)
(* A patch is the set of the game's files it writes; a file is known by    *)
(* the patch that wrote it last.                                           *)
(***************************************************************************)
EXTENDS Integers

CONSTANTS
  Instance,     \* running patchers of this directory
  File,         \* files of the game
  LastPatch,    \* bound: patches ever published have indices 1 .. LastPatch
  Writes        \* index -> the files the patch writes

ASSUME UpdateAssumption ==
  /\ LastPatch \in Nat
  /\ Writes \in [1 .. LastPatch -> SUBSET File]

Index == 1 .. LastPatch

None    == 0      \* the cache file does not exist, or no instance
Garbage == -1     \* the cache file has no content that can be read

VARIABLES
  listed,     \* indices in the server's plist.txt
  published,  \* the highest index published so far
  game,       \* file -> index of the patch that wrote it last, 0 for none
  cache,      \* last_patch_index in the cache file, None or Garbage
  holder,     \* the instances that hold the update lock
  pc,         \* instance -> step of its update
  list,       \* instance -> the patch list it fetched
  queue       \* instance -> patches still to apply

server == <<listed, published>>
update == <<pc, list, queue>>
vars == <<server, game, cache, holder, update>>

Init ==
  /\ listed = {} /\ published = 0
  /\ game = [f \in File |-> 0]
  /\ cache = None
  /\ holder = {}
  /\ pc = [i \in Instance |-> "idle"]
  /\ list = [i \in Instance |-> {}]
  /\ queue = [i \in Instance |-> {}]

-----------------------------------------------------------------------------
(* The maintainer: patches are published with increasing indices.            *)
Publish ==
  /\ published < LastPatch
  /\ published' = published + 1
  /\ listed' = listed \cup {published'}
  /\ UNCHANGED <<game, cache, holder, update>>

Withdraw(k) ==
  /\ k \in listed
  /\ listed' = listed \ {k}
  /\ UNCHANGED <<published, game, cache, holder, update>>

(* handle_reset_cache: the file is removed, by whoever and whenever. *)
ResetCache ==
  /\ cache' = None
  /\ UNCHANGED <<server, game, holder, update>>

-----------------------------------------------------------------------------
Goto(i, step) == pc' = [pc EXCEPT ![i] = step]

(* Mutant of TakeLock: the lock is not exclusive. *)
TakeLockShared(i) ==
  /\ pc[i] = "idle"
  /\ holder' = holder \cup {i}
  /\ Goto(i, "fetching")
  /\ UNCHANGED <<server, game, cache, list, queue>>

(* take_update_lock: try_lock fails while another instance has the lock. *)
TakeLock(i) ==
  /\ pc[i] = "idle"
  /\ holder = {}
  /\ holder' = {i}
  /\ Goto(i, "fetching")
  /\ UNCHANGED <<server, game, cache, list, queue>>

(* find_available_patch_server. *)
FetchList(i) ==
  /\ pc[i] = "fetching"
  /\ list' = [list EXCEPT ![i] = listed]
  /\ Goto(i, "filtering")
  /\ UNCHANGED <<server, game, cache, holder, queue>>

(* Applied patches are skipped when the cached index is still in the list.   *)
FilterList(i) ==
  /\ pc[i] = "filtering"
  /\ queue' = [queue EXCEPT ![i] =
       IF cache \in list[i] THEN {k \in list[i] : k > cache} ELSE list[i]]
  /\ Goto(i, "downloading")
  /\ UNCHANGED <<server, game, cache, holder, list>>

(* download_patches_concurrent: all or none. *)
Download(i) ==
  /\ pc[i] = "downloading"
  /\ Goto(i, "patching")
  /\ UNCHANGED <<server, game, cache, holder, list, queue>>

(* The queue is sorted by index. *)
NextPatch(i) == CHOOSE k \in queue[i] : \A j \in queue[i] : k <= j

Write(k, fs) == game' = [f \in File |-> IF f \in fs THEN k ELSE game[f]]

(* apply_patch. *)
ApplyPatch(i) ==
  /\ pc[i] = "patching"
  /\ queue[i] # {}
  /\ Write(NextPatch(i), Writes[NextPatch(i)])
  /\ Goto(i, "caching")
  /\ UNCHANGED <<server, cache, holder, list, queue>>

(* write_cache_file: create truncates the file, then it is written.  Errors  *)
(* are only logged.                                                          *)
TruncateCache(i) ==
  /\ pc[i] = "caching"
  /\ cache' = Garbage
  /\ Goto(i, "writing")
  /\ UNCHANGED <<server, game, holder, list, queue>>

Cached(i) ==
  /\ queue' = [queue EXCEPT ![i] = @ \ {NextPatch(i)}]
  /\ Goto(i, "patching")
  /\ UNCHANGED <<server, game, holder, list>>

(* Mutant of WriteCache: the next index is written. *)
WriteCacheNext(i) ==
  /\ pc[i] = "writing"
  /\ cache' = IF cache = None THEN None ELSE NextPatch(i) + 1
  /\ Cached(i)

(* A file that was removed since it was opened stays removed. *)
WriteCache(i) ==
  /\ pc[i] = "writing"
  /\ cache' = IF cache = None THEN None ELSE NextPatch(i)
  /\ Cached(i)

CacheFails(i) ==
  /\ pc[i] \in {"caching", "writing"}
  /\ UNCHANGED cache
  /\ Cached(i)

(* PatchingStatus::Ready, then the lock is released. *)
Finish(i) ==
  /\ pc[i] = "patching"
  /\ queue[i] = {}
  /\ Goto(i, "ready")
  /\ UNCHANGED <<server, game, cache, holder, list, queue>>

End(i) ==
  /\ holder' = holder \ {i}
  /\ Goto(i, "idle")
  /\ queue' = [queue EXCEPT ![i] = {}]
  /\ list' = [list EXCEPT ![i] = {}]
  /\ UNCHANGED <<server, cache>>

Unlock(i) ==
  /\ pc[i] = "ready"
  /\ End(i)
  /\ UNCHANGED game

(* An error or a cancellation before a patch is started. *)
Abort(i) ==
  /\ pc[i] \in {"fetching", "filtering", "downloading", "patching"}
  /\ End(i)
  /\ UNCHANGED game

(* Mutant of ApplyPatchFails: the cache is written for a patch that failed. *)
ApplyPatchFailsCached(i) ==
  /\ pc[i] = "patching"
  /\ queue[i] # {}
  /\ \E fs \in SUBSET Writes[NextPatch(i)] : Write(NextPatch(i), fs)
  /\ cache' = NextPatch(i)
  /\ holder' = holder \ {i}
  /\ Goto(i, "idle")
  /\ queue' = [queue EXCEPT ![i] = {}]
  /\ list' = [list EXCEPT ![i] = {}]
  /\ UNCHANGED server

(* A patch fails, or the process is killed, with some files written. *)
ApplyPatchFails(i) ==
  /\ pc[i] = "patching"
  /\ queue[i] # {}
  /\ \E fs \in SUBSET Writes[NextPatch(i)] : Write(NextPatch(i), fs)
  /\ End(i)

(* The process is killed anywhere else; the system releases its lock. *)
Crash(i) ==
  /\ pc[i] # "idle"
  /\ End(i)
  /\ UNCHANGED game

Step(i) ==
  \/ TakeLock(i) \/ FetchList(i) \/ FilterList(i) \/ Download(i)
  \/ ApplyPatch(i) \/ ApplyPatchFails(i)
  \/ TruncateCache(i) \/ WriteCache(i) \/ CacheFails(i)
  \/ Finish(i) \/ Unlock(i) \/ Abort(i) \/ Crash(i)

Next ==
  \/ Publish \/ (\E k \in Index : Withdraw(k)) \/ ResetCache
  \/ \E i \in Instance : Step(i)

Spec == Init /\ [][Next]_vars

-----------------------------------------------------------------------------
TypeOK ==
  /\ published \in 0 .. LastPatch
  /\ listed \subseteq 1 .. published
  /\ game \in [File -> 0 .. published]
  /\ cache \in -1 .. published
  /\ holder \subseteq Instance
  /\ pc \in [Instance -> {"idle", "fetching", "filtering", "downloading",
                          "patching", "caching", "writing", "ready"}]
  /\ list \in [Instance -> SUBSET (1 .. published)]
  /\ queue \in [Instance -> SUBSET (1 .. published)]

(* No file is older than a patch of ks that writes it. *)
Fresh(ks) == \A k \in ks : \A f \in Writes[k] : game[f] >= k

(* An update that reports Ready leaves no file older than its newest patch   *)
(* in the list, whatever was cancelled, killed, withdrawn or reset before    *)
(* and whatever other instances do.                                          *)
NoStaleFile == \A i \in Instance : pc[i] = "ready" => Fresh(list[i])

(* Skipping is safe: as long as the cached index is in the list, no file is  *)
(* older than the listed patches up to it.                                   *)
CacheIsSound == cache \in listed => Fresh({k \in listed : k <= cache})

(* The inductive invariant.  The instance that is not idle has the lock.     *)
Mutex == \A i \in Instance : pc[i] = "idle" \/ holder = {i}

(* What was published since the list was fetched is newer than the list, and *)
(* the cache holds no index of such a patch.                                 *)
Fetched(i) == pc[i] \notin {"idle", "fetching"}
ListIsPrefix ==
  \A i \in Instance : Fetched(i) =>
    /\ \A j \in listed \ list[i] : \A k \in list[i] : k < j
    /\ cache \in listed => cache \in list[i]

(* What the filter is about to skip is fresh. *)
SkipIsSound ==
  \A i \in Instance : pc[i] = "filtering" /\ cache \in list[i] =>
    Fresh({k \in list[i] : k <= cache})

(* The queue is the part of the list past the cache and past what is fresh.  *)
Filtered(i) == Fetched(i) /\ pc[i] # "filtering"
QueueIsSuffix ==
  \A i \in Instance : Filtered(i) =>
    /\ queue[i] \subseteq list[i]
    /\ \A j \in list[i] \ queue[i] : \A k \in queue[i] : j < k
    /\ cache \in listed => \A k \in queue[i] : cache < k
    /\ Fresh(list[i] \ queue[i])

(* The patch whose index is about to be cached is applied. *)
AppliedBeforeCached ==
  \A i \in Instance : pc[i] \in {"caching", "writing"} =>
    queue[i] # {} /\ Fresh({NextPatch(i)})

ReadyIsDone == \A i \in Instance : pc[i] = "ready" => queue[i] = {}

IInv ==
  /\ TypeOK
  /\ Mutex
  /\ ListIsPrefix
  /\ SkipIsSound
  /\ QueueIsSuffix
  /\ AppliedBeforeCached
  /\ ReadyIsDone
  /\ CacheIsSound
=============================================================================
