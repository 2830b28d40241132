------------------------------- MODULE Patcher -------------------------------
(***************************************************************************)
(* One running patcher: the window (UI thread), the patching thread and    *)
(* what they share (rpatchur/src/main.rs, ui.rs, patcher/core.rs and       *)
(* patcher/cancellation.rs).                                               *)
(*                                                                         *)
(* The window sends commands over a bounded channel; the patching thread   *)
(* answers by dispatching closures that the UI thread runs in order: they  *)
(* set `patching_in_progress` or show a status on the page.  The update    *)
(* lock is a file lock that another instance may hold.                     *)
(*                                                                         *)
(* What is downloaded and applied is in other modules; here a patch is     *)
(* only a step that succeeds or fails.                                     *)
(***************************************************************************)
EXTENDS Integers, Sequences

CONSTANTS
  ChannelSize,   \* flume::bounded(32)
  Preferred,     \* preferred_patch_server is set and in the list of servers
  Servers,       \* number of configured patch servers
  MaxPatches,    \* bound: patches a list may have left to apply
  MaxClicks      \* bound: commands the user asks for

ASSUME PatcherAssumption ==
  /\ ChannelSize \in Nat \ {0}
  /\ Preferred \in BOOLEAN
  /\ Servers \in Nat /\ MaxPatches \in Nat /\ MaxClicks \in Nat

Command    == {"StartUpdate", "CancelUpdate", "ApplyPatch", "Quit"}
Interrupts == {"CancelUpdate", "Quit"}

(* What dispatch() carries: a new value of the flag, or a status. *)
FinalStatus == {"Ready", "Error", "ManualPatchApplied"}
Status == FinalStatus \cup {"DownloadInProgress", "InstallationInProgress"}
Closure == [flag : BOOLEAN] \cup [status : Status]

VARIABLES
  window,      \* "open", or "closed" once the web view is dropped
  ui,          \* handler in progress: "none", "dialog", or the command it sends
  clicks,      \* commands asked for so far (bound only)
  channel,     \* commands in the flume channel
  flag,        \* WebViewUserData::patching_in_progress
  page,        \* last status the page has shown
  dispatched,  \* closures waiting for the UI thread
  pc,          \* where the patching thread is
  left,        \* servers left to probe, or patches left to apply
  outcome,     \* status the task will report
  lock         \* the update lock: "free", "ours", "other"

uiVars     == <<window, ui, clicks, flag, page>>
threadVars == <<pc, left, outcome>>
vars == <<uiVars, channel, dispatched, threadVars, lock>>

Init ==
  /\ window = "open" /\ ui = "none" /\ clicks = 0
  /\ channel = <<>> /\ flag = FALSE /\ page = "none" /\ dispatched = <<>>
  /\ pc = "idle" /\ left = 0 /\ outcome = "none" /\ lock = "free"

-----------------------------------------------------------------------------
(* The UI thread.                                                            *)
Listening == window = "open" /\ ui = "none"

(* Every click starts a handler that runs to its end before another closure  *)
(* or click is served; a handler blocks in send() while the channel is full. *)
Click ==
  /\ Listening
  /\ clicks < MaxClicks
  /\ clicks' = clicks + 1

(* handle_start_update: refused while the flag is set. *)
StartUpdate ==
  /\ Click
  /\ ~flag
  /\ ui' = "StartUpdate"
  /\ UNCHANGED <<window, flag, page, channel, dispatched, threadVars, lock>>

(* handle_cancel_update. *)
CancelUpdate ==
  /\ Click
  /\ ui' = "CancelUpdate"
  /\ UNCHANGED <<window, flag, page, channel, dispatched, threadVars, lock>>

(* handle_manual_patch: the flag is read before the file dialog opens. *)
ManualPatch ==
  /\ Click
  /\ ~flag
  /\ ui' = "dialog"
  /\ UNCHANGED <<window, flag, page, channel, dispatched, threadVars, lock>>

CloseDialog ==
  /\ ui = "dialog"
  /\ ui' \in {"ApplyPatch", "none"}
  /\ UNCHANGED <<window, clicks, flag, page, channel, dispatched, threadVars, lock>>

(* Mutant of Send: the channel is not bounded. *)
SendUnbounded ==
  /\ ui \in Command
  /\ \/ pc = "ended" /\ UNCHANGED channel
     \/ pc # "ended" /\ channel' = Append(channel, ui)
  /\ ui' = "none"
  /\ UNCHANGED <<window, clicks, flag, page, dispatched, threadVars, lock>>

(* send(): waits for room, fails once the receiver is dropped. *)
Send ==
  /\ ui \in Command
  /\ \/ pc = "ended" /\ UNCHANGED channel
     \/ pc # "ended" /\ Len(channel) < ChannelSize /\ channel' = Append(channel, ui)
  /\ ui' = "none"
  /\ UNCHANGED <<window, clicks, flag, page, dispatched, threadVars, lock>>

RunClosure ==
  /\ Listening
  /\ dispatched # <<>>
  /\ LET c == Head(dispatched)
     IN  IF "flag" \in DOMAIN c
         THEN flag' = c.flag /\ UNCHANGED page
         ELSE page' = c.status /\ UNCHANGED flag
  /\ dispatched' = Tail(dispatched)
  /\ UNCHANGED <<window, ui, clicks, channel, threadVars, lock>>

(* The window is closed by the user, by handle_exit or by a client that was  *)
(* started: WebViewUserData is dropped, which tries to send Quit and then    *)
(* drops the only sender; pending closures never run.                        *)
Close ==
  /\ Listening
  /\ window' = "closed"
  /\ channel' = IF pc # "ended" /\ Len(channel) < ChannelSize
                THEN Append(channel, "Quit") ELSE channel
  /\ dispatched' = <<>>
  /\ UNCHANGED <<ui, clicks, flag, page, threadVars, lock>>

-----------------------------------------------------------------------------
(* The patching thread.                                                      *)
Dispatch(c) ==
  dispatched' = IF window = "open" THEN Append(dispatched, c) ELSE dispatched

ThreadOnly == UNCHANGED <<uiVars, lock>>

(* patcher_thread_routine: the main loop. *)
Receive ==
  /\ pc = "idle"
  /\ channel # <<>>
  /\ channel' = Tail(channel)
  /\ \/ Head(channel) = "Quit"         /\ pc' = "ended"
     \/ Head(channel) = "StartUpdate"  /\ pc' = "locking update"
     \/ Head(channel) = "ApplyPatch"   /\ pc' = "locking manual"
     \/ Head(channel) = "CancelUpdate" /\ pc' = "idle"
  /\ UNCHANGED <<dispatched, left, outcome>> /\ ThreadOnly

Disconnected == window = "closed" /\ channel = <<>>

(* Mutant of ReceiveDisconnected: the loop goes on after the error. *)
ReceiveDisconnectedGoesOn ==
  /\ pc = "idle"
  /\ Disconnected
  /\ UNCHANGED <<pc, channel, dispatched, left, outcome>> /\ ThreadOnly

ReceiveDisconnected ==
  /\ pc = "idle"
  /\ Disconnected
  /\ pc' = "ended"
  /\ UNCHANGED <<channel, dispatched, left, outcome>> /\ ThreadOnly

Locking == {"locking update", "locking manual"}

(* take_update_lock, then "Tell the UI and other processes". *)
TakeLock ==
  /\ pc \in Locking
  /\ lock = "free"
  /\ lock' = "ours"
  /\ Dispatch([flag |-> TRUE])
  /\ IF pc = "locking manual" THEN pc' = "manual" /\ UNCHANGED left
     ELSE IF Preferred THEN pc' = "preferred" /\ UNCHANGED left
     ELSE pc' = "servers" /\ left' = Servers
  /\ UNCHANGED <<uiVars, channel, outcome>>

(* Mutant of LockFails: the lock is waited for. *)
LockFailsNever ==
  /\ pc \in Locking
  /\ lock = "free"
  /\ Dispatch([status |-> "Error"])
  /\ pc' = "idle"
  /\ UNCHANGED <<channel, left, outcome>> /\ ThreadOnly

(* Another instance has the lock, or the lock file cannot be created. *)
LockFails ==
  /\ pc \in Locking
  /\ Dispatch([status |-> "Error"])
  /\ pc' = "idle"
  /\ UNCHANGED <<channel, left, outcome>> /\ ThreadOnly

(* A task ends with a status to report. *)
Stop(s) == pc' = "report" /\ outcome' = s

(* process_incoming_commands: reads one command at most; whatever is not an *)
(* interruption is dropped.                                                 *)
Poll(proceed) ==
  IF Disconnected
  THEN Stop("Error") /\ UNCHANGED <<channel, left>>
  ELSE IF channel = <<>>
  THEN proceed /\ UNCHANGED <<channel, outcome>>
  ELSE /\ channel' = Tail(channel)
       /\ IF Head(channel) \in Interrupts
          THEN Stop("Error") /\ UNCHANGED left
          ELSE proceed /\ UNCHANGED outcome

(* find_available_patch_server: the preferred server first, without polling, *)
(* then every server of the list; none available is an error.                *)
PreferredFails ==
  /\ pc = "preferred"
  /\ pc' = "servers" /\ left' = Servers
  /\ UNCHANGED <<channel, dispatched, outcome>> /\ ThreadOnly

NextServer ==
  /\ pc = "servers"
  /\ IF left = 0
     THEN Stop("Error") /\ UNCHANGED <<channel, left>>
     ELSE Poll(pc' = "probing" /\ left' = left - 1)
  /\ UNCHANGED dispatched /\ ThreadOnly

ServerFails ==
  /\ pc = "probing"
  /\ pc' = "servers"
  /\ UNCHANGED <<channel, dispatched, left, outcome>> /\ ThreadOnly

(* A server answers: the patch list is filtered and the downloads start. *)
ServerAnswers ==
  /\ pc \in {"preferred", "probing"}
  /\ left' \in 0 .. MaxPatches
  /\ Dispatch([status |-> "DownloadInProgress"])
  /\ pc' = "downloading"
  /\ UNCHANGED <<channel, outcome>> /\ ThreadOnly

(* Or a step in between fails (cache path, patch URL, temporary directory). *)
PrepareFails ==
  /\ pc \in {"preferred", "probing"}
  /\ Stop("Error")
  /\ UNCHANGED <<channel, dispatched, left>> /\ ThreadOnly

(* Mutant of DownloadInterrupted: only a closed channel ends the download. *)
DownloadInterruptedByClose ==
  /\ pc = "downloading"
  /\ Disconnected
  /\ Stop("Error")
  /\ UNCHANGED <<channel, dispatched, left>> /\ ThreadOnly

(* download_patches_concurrent: select! between the downloads and            *)
(* wait_for_cancellation, for which any command and a closed channel end the *)
(* update.                                                                   *)
DownloadInterrupted ==
  /\ pc = "downloading"
  /\ channel # <<>> \/ Disconnected
  /\ channel' = IF channel = <<>> THEN channel ELSE Tail(channel)
  /\ Stop("Error")
  /\ UNCHANGED <<dispatched, left>> /\ ThreadOnly

DownloadFails ==
  /\ pc = "downloading"
  /\ Stop("Error")
  /\ UNCHANGED <<channel, dispatched, left>> /\ ThreadOnly

DownloadDone ==
  /\ pc = "downloading"
  /\ Dispatch([status |-> "InstallationInProgress"])
  /\ pc' = "patches"
  /\ UNCHANGED <<channel, left, outcome>> /\ ThreadOnly

(* Mutant of NextPatch: no poll. *)
NextPatchWithoutPoll ==
  /\ pc = "patches"
  /\ left > 0
  /\ pc' = "patching"
  /\ UNCHANGED <<channel, dispatched, left, outcome>> /\ ThreadOnly

(* apply_patches: a poll before every patch. *)
NextPatch ==
  /\ pc = "patches"
  /\ left > 0
  /\ Poll(pc' = "patching" /\ UNCHANGED left)
  /\ UNCHANGED dispatched /\ ThreadOnly

PatchApplied ==
  /\ pc = "patching"
  /\ left' = left - 1
  /\ Dispatch([status |-> "InstallationInProgress"])
  /\ pc' = "patches"
  /\ UNCHANGED <<channel, outcome>> /\ ThreadOnly

AllApplied ==
  /\ pc = "patches"
  /\ left = 0
  /\ Stop("Ready")
  /\ UNCHANGED <<channel, dispatched, left>> /\ ThreadOnly

PatchFails ==
  /\ pc \in {"patching", "manual"}
  /\ Stop("Error")
  /\ UNCHANGED <<channel, dispatched, left>> /\ ThreadOnly

(* apply_single_patch. *)
ManualApplied ==
  /\ pc = "manual"
  /\ Stop("ManualPatchApplied")
  /\ UNCHANGED <<channel, dispatched, left>> /\ ThreadOnly

(* Mutant of Report: an end without a status. *)
ReportNothing ==
  /\ pc = "report"
  /\ pc' = "unlock" /\ outcome' = "none"
  /\ UNCHANGED <<channel, dispatched, left>> /\ ThreadOnly

(* The end of a task: the status, then the scope guard: unlock, flag. *)
Report ==
  /\ pc = "report"
  /\ Dispatch([status |-> outcome])
  /\ pc' = "unlock" /\ outcome' = "none"
  /\ UNCHANGED <<channel, left>> /\ ThreadOnly

(* Mutant of Unlock: the lock is kept. *)
UnlockForgotten ==
  /\ pc = "unlock"
  /\ pc' = "clear"
  /\ UNCHANGED <<uiVars, channel, dispatched, left, outcome, lock>>

Unlock ==
  /\ pc = "unlock"
  /\ lock' = "free"
  /\ pc' = "clear"
  /\ UNCHANGED <<uiVars, channel, dispatched, left, outcome>>

(* Mutant of ClearFlag: the window is not told. *)
ClearFlagForgotten ==
  /\ pc = "clear"
  /\ pc' = "idle" /\ left' = 0
  /\ UNCHANGED <<channel, dispatched, outcome>> /\ ThreadOnly

ClearFlag ==
  /\ pc = "clear"
  /\ Dispatch([flag |-> FALSE])
  /\ pc' = "idle" /\ left' = 0
  /\ UNCHANGED <<channel, outcome>> /\ ThreadOnly

(* Another instance of the patcher. *)
OtherInstance ==
  /\ \/ lock = "free" /\ lock' = "other"
     \/ lock = "other" /\ lock' = "free"
  /\ UNCHANGED <<uiVars, channel, dispatched, threadVars>>

-----------------------------------------------------------------------------
User == StartUpdate \/ CancelUpdate \/ ManualPatch \/ CloseDialog \/ Close
Ui   == Send \/ RunClosure

(* What the thread does by itself, and what it waits for a server to do.     *)
Local ==
  \/ Receive \/ ReceiveDisconnected \/ TakeLock \/ LockFails
  \/ NextServer \/ DownloadInterrupted
  \/ NextPatch \/ PatchApplied \/ PatchFails \/ AllApplied \/ ManualApplied
  \/ Report \/ Unlock \/ ClearFlag
Probe    == PreferredFails \/ ServerFails \/ ServerAnswers \/ PrepareFails
Transfer == DownloadFails \/ DownloadDone

Next == User \/ Ui \/ Local \/ Probe \/ Transfer \/ OtherInstance

Spec == Init /\ [][Next]_vars

(* The event loop and the thread run; an open file dialog is closed some day.*)
Scheduled == WF_vars(Ui) /\ WF_vars(Local) /\ WF_vars(CloseDialog)

(* With servers that may leave any request unanswered for ever, and with     *)
(* servers that answer or refuse a probe but may stall a download for ever.  *)
SpecHanging == Spec /\ Scheduled
FairSpec == SpecHanging /\ WF_vars(Probe)

-----------------------------------------------------------------------------
Working == {"preferred", "servers", "probing", "downloading", "patches",
            "patching", "manual", "report", "unlock", "clear"}

TypeOK ==
  /\ window \in {"open", "closed"}
  /\ ui \in Command \cup {"none", "dialog"}
  /\ clicks \in 0 .. MaxClicks
  /\ channel \in Seq(Command) /\ Len(channel) <= ChannelSize
  /\ flag \in BOOLEAN
  /\ page \in Status \cup {"none"}
  /\ dispatched \in Seq(Closure)
  /\ pc \in Working \cup Locking \cup {"idle", "ended"}
  /\ left \in Nat
  /\ outcome \in FinalStatus \cup {"none"}
  /\ lock \in {"free", "ours", "other"}

(* The closures of ds that carry a `field`, by position; what the UI thread   *)
(* ends with when all have run is the last one's value, or `now` without any. *)
Carrying(ds, field) == {i \in 1 .. Len(ds) : field \in DOMAIN ds[i]}
LastIs(ds, field, now, v) ==
  IF Carrying(ds, field) = {}
  THEN now = v
  ELSE \E i \in Carrying(ds, field) :
         (\A j \in Carrying(ds, field) : j <= i) /\ ds[i][field] = v

(* The UI never gets stuck on "Patching is already in progress", nor does it *)
(* let a task run unannounced: on every path through a task, the closures    *)
(* under way settle the flag to whether a task is running.                   *)
FlagSettles ==
  window = "open" =>
    /\ pc \in Working => LastIs(dispatched, "flag", flag, TRUE)
    /\ pc \notin Working => LastIs(dispatched, "flag", flag, FALSE)

(* The page is never left with a progress bar: a task that is over has       *)
(* reported a final status after its progress.                               *)
Settled == \E s \in FinalStatus \cup {"none"} : LastIs(dispatched, "status", page, s)
PageSettles == window = "open" /\ pc \notin Working => Settled

(* The update lock is held from before the first step of a task until after  *)
(* its report, and never when the next task tries to take it.                *)
LockFollowsTask == (lock = "ours") = (pc \in Working \ {"clear"})

(* Cancel and Quit are served in order: while one is queued, every patch     *)
(* that is started all the same brings it closer to the front.               *)
Interrupting(ch) == {i \in 1 .. Len(ch) : ch[i] \in Interrupts}
Ahead(ch) == CHOOSE i \in Interrupting(ch) : \A j \in Interrupting(ch) : i <= j
CancelAdvances ==
  [][pc = "patches" /\ pc' = "patching" /\ Interrupting(channel) # {}
       => Interrupting(channel') # {} /\ Ahead(channel') < Ahead(channel)]_vars

(* The inductive invariant behind the properties above: the page settles     *)
(* from the report on, which is one of a final status, and a patch is only    *)
(* applied while there is one left.                                          *)
IInv ==
  /\ TypeOK /\ LockFollowsTask /\ FlagSettles
  /\ window = "open" /\ (pc \in Working => pc \in {"unlock", "clear"}) => Settled
  /\ pc = "report" => outcome \in FinalStatus
  /\ pc = "patching" => left > 0

(* Closing the window ends the patching thread, hence the process, even when *)
(* Quit finds the channel full or is taken for a cancellation.               *)
CloseEnds == (window = "closed") ~> (pc = "ended")

(* A handler never blocks the window for ever on a full channel. *)
SendReturns == (ui \in Command) ~> (ui = "none")

(* When the user leaves the window alone everything comes to rest: no        *)
(* command and no closure is left, and either no task is, with the flag down *)
(* and a final status on the page, or a download that does not end, with the *)
(* flag up and the progress of the download on the page.                     *)
AtRest      == pc = "idle" /\ ~flag /\ page \in FinalStatus \cup {"none"}
Downloading == pc = "downloading" /\ flag /\ page = "DownloadInProgress"
Quiet ==
  /\ ui = "none" /\ channel = <<>> /\ dispatched = <<>>
  /\ AtRest \/ Downloading
Quiesces == <>[](window = "open" => Quiet)

(* A download is cancelled even when the server never answers and when the   *)
(* channel is full.                                                          *)
CancelEndsDownload == (pc = "downloading" /\ ui = "CancelUpdate") ~> (pc = "idle")

(* "This routine is written in a way that makes it interuptible (or          *)
(* cancellable) with a relatively low latency" (patcher/core.rs:177-178).    *)
CancelEndsUpdate == (pc \in Working /\ ui = "CancelUpdate") ~> (pc = "idle")
=============================================================================
