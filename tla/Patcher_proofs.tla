--------------------------- MODULE Patcher_proofs ---------------------------
(***************************************************************************)
(* Theorems about Patcher, for every size of the channel, any number of     *)
(* servers, patches and clicks, with or without a preferred server.  They   *)
(* need no fairness.                                                       *)
(***************************************************************************)
EXTENDS Patcher, SequenceTheorems, TLAPS, WellFoundedInduction

-----------------------------------------------------------------------------
(* The closures under way.                                                   *)

(* Dispatching c decides a field it carries, and no other. *)
LEMMA LastAppend ==
  ASSUME NEW S, NEW ds \in Seq(S), NEW c \in S, NEW field, NEW now, NEW v
  PROVE  /\ field \in DOMAIN c => LastIs(Append(ds, c), field, now, c[field])
         /\ field \notin DOMAIN c =>
              (LastIs(ds, field, now, v) => LastIs(Append(ds, c), field, now, v))
<1> DEFINE es == Append(ds, c)
           n == Len(ds)
<1>1. /\ n \in Nat /\ Len(es) = n + 1 /\ es[n + 1] = c
      /\ \A i \in 1 .. n : es[i] = ds[i]
  OBVIOUS
<1> HIDE DEF es, n
<1>2. CASE field \in DOMAIN c
  <2>1. n + 1 \in Carrying(es, field) /\ \A j \in Carrying(es, field) : j <= n + 1
    BY <1>1, <1>2 DEF Carrying
  <2>2. LastIs(es, field, now, c[field])
    BY <1>1, <2>1 DEF LastIs
  <2> QED
    BY <1>2, <2>2 DEF es
<1>3. CASE field \notin DOMAIN c
  <2>1. Carrying(es, field) = Carrying(ds, field)
    BY <1>1, <1>3 DEF Carrying, n
  <2>2. \A i \in Carrying(ds, field) : es[i] = ds[i]
    BY <1>1 DEF Carrying, n
  <2>3. LastIs(ds, field, now, v) => LastIs(es, field, now, v)
    BY <2>1, <2>2 DEF LastIs
  <2> QED
    BY <1>3, <2>3 DEF es
<1> QED
  BY <1>2, <1>3

(* Running the first closure changes nothing of what all will end with. *)
LEMMA LastTail ==
  ASSUME NEW S, NEW ds \in Seq(S), ds # <<>>, NEW field, NEW now, NEW v,
         LastIs(ds, field, now, v)
  PROVE  /\ field \in DOMAIN Head(ds) => LastIs(Tail(ds), field, Head(ds)[field], v)
         /\ field \notin DOMAIN Head(ds) => LastIs(Tail(ds), field, now, v)
<1> DEFINE es == Tail(ds)
           n == Len(ds)
<1>1. /\ n \in Nat /\ n >= 1 /\ Len(es) = n - 1 /\ Head(ds) = ds[1]
      /\ \A i \in 1 .. n - 1 : es[i] = ds[i + 1]
  OBVIOUS
<1> HIDE DEF es, n
<1>2. \A i \in 1 .. n - 1 : i \in Carrying(es, field) <=> i + 1 \in Carrying(ds, field)
  BY <1>1 DEF Carrying, n
<1>3. CASE Carrying(es, field) = {}
  <2>1. Carrying(ds, field) \subseteq {1}
    <3> SUFFICES ASSUME NEW i \in Carrying(ds, field), i # 1 PROVE FALSE
      OBVIOUS
    <3>1. i \in 2 .. n /\ i - 1 \in 1 .. n - 1 /\ (i - 1) + 1 = i
      BY <1>1 DEF Carrying, n
    <3> QED
      BY <1>2, <1>3, <3>1
  <2>2. CASE 1 \in Carrying(ds, field)
    <3>1. field \in DOMAIN Head(ds) /\ Head(ds)[field] = v
      BY <1>1, <2>1, <2>2 DEF LastIs, Carrying
    <3> QED
      BY <1>3, <3>1 DEF LastIs, es
  <2>3. CASE 1 \notin Carrying(ds, field)
    <3>1. Carrying(ds, field) = {} /\ field \notin DOMAIN Head(ds)
      BY <1>1, <2>1, <2>3 DEF Carrying, n
    <3>2. now = v
      BY <3>1 DEF LastIs
    <3> QED
      BY <1>3, <3>1, <3>2 DEF LastIs, es
  <2> QED
    BY <2>2, <2>3
<1>4. CASE Carrying(es, field) # {}
  <2>1. PICK k \in Carrying(es, field) : TRUE
    BY <1>4
  <2>2. k \in 1 .. n - 1 /\ k + 1 \in Carrying(ds, field)
    BY <1>1, <1>2, <2>1 DEF Carrying
  <2>3. PICK i \in Carrying(ds, field) :
          (\A j \in Carrying(ds, field) : j <= i) /\ ds[i][field] = v
    BY <2>2 DEF LastIs
  <2>4. /\ i \in 2 .. n /\ i - 1 \in 1 .. n - 1 /\ (i - 1) + 1 = i
    BY <1>1, <2>2, <2>3 DEF Carrying, n
  <2>5. i - 1 \in Carrying(es, field) /\ es[i - 1] = ds[i]
    BY <1>1, <1>2, <2>3, <2>4
  <2>6. \A j \in Carrying(es, field) : j <= i - 1
    <3> TAKE j \in Carrying(es, field)
    <3>1. j \in 1 .. n - 1 /\ j + 1 \in Carrying(ds, field)
      BY <1>1, <1>2 DEF Carrying
    <3>2. j + 1 <= i
      BY <2>3, <3>1
    <3> QED
      BY <2>4, <3>1, <3>2
  <2>7. \A x : LastIs(es, field, x, v)
    BY <1>4, <2>3, <2>5, <2>6 DEF LastIs
  <2> QED
    BY <2>7 DEF es
<1> QED
  BY <1>3, <1>4

LEMMA ClosureFacts ==
  /\ \A b \in BOOLEAN : /\ [flag |-> b] \in Closure /\ [flag |-> b].flag = b
                        /\ "flag" \in DOMAIN [flag |-> b]
                        /\ "status" \notin DOMAIN [flag |-> b]
  /\ \A s \in Status : /\ [status |-> s] \in Closure /\ [status |-> s].status = s
                       /\ "status" \in DOMAIN [status |-> s]
                       /\ "flag" \notin DOMAIN [status |-> s]
  /\ \A c \in Closure : \/ "flag" \in DOMAIN c /\ "status" \notin DOMAIN c /\ c.flag \in BOOLEAN
                        \/ "status" \in DOMAIN c /\ "flag" \notin DOMAIN c /\ c.status \in Status
BY DEF Closure

-----------------------------------------------------------------------------
(* The steps, by what they do to the closures.                               *)

(* The flag is right when the page is told a status, and the page when the   *)
(* window is told that a task begins or ends.                                *)
LEMMA StatusDispatched ==
  ASSUME TypeOK, NEW s \in Status, Dispatch([status |-> s]), window = "open"
  PROVE  /\ \A b : LastIs(dispatched, "flag", flag, b) => LastIs(dispatched', "flag", flag, b)
         /\ LastIs(dispatched', "status", page, s)
<1>1. dispatched' = Append(dispatched, [status |-> s]) /\ dispatched \in Seq(Closure)
  BY DEF Dispatch, TypeOK
<1> QED
  BY <1>1, ClosureFacts, LastAppend

LEMMA FlagDispatched ==
  ASSUME TypeOK, NEW b \in BOOLEAN, Dispatch([flag |-> b]), window = "open"
  PROVE  /\ LastIs(dispatched', "flag", flag, b)
         /\ \A s : LastIs(dispatched, "status", page, s) => LastIs(dispatched', "status", page, s)
<1>1. dispatched' = Append(dispatched, [flag |-> b]) /\ dispatched \in Seq(Closure)
  BY DEF Dispatch, TypeOK
<1> QED
  BY <1>1, ClosureFacts, LastAppend

LEMMA DispatchType ==
  ASSUME TypeOK, NEW c \in Closure, Dispatch(c)
  PROVE  dispatched' \in Seq(Closure)
BY DEF TypeOK, Dispatch

(* A step of the window that leaves the closures alone. *)
LEMMA WindowStep ==
  ASSUME IInv, UNCHANGED <<window, flag, page, dispatched, threadVars, lock>>,
         TypeOK'
  PROVE  IInv'
<1> USE DEF threadVars
<1>1. LockFollowsTask' /\ FlagSettles' /\ (Settled => Settled')
  BY DEF IInv, LockFollowsTask, FlagSettles, Settled
<1> QED
  BY <1>1 DEF IInv

(* A step of the thread that dispatches nothing: a task goes on, or nothing  *)
(* runs before and after.                                                    *)
LEMMA SilentStep ==
  ASSUME IInv, ThreadOnly, UNCHANGED dispatched, TypeOK',
         \/ pc \in Working \ {"unlock", "clear"} /\ pc' \in Working \ {"unlock", "clear"}
         \/ pc \notin Working /\ pc' \notin Working,
         pc' = "report" => outcome' \in FinalStatus,
         pc' = "patching" => left' > 0
  PROVE  IInv'
<1> USE DEF ThreadOnly, uiVars, Working
<1>1. LockFollowsTask'
  BY DEF IInv, LockFollowsTask
<1>2. FlagSettles' /\ (Settled => Settled')
  BY DEF IInv, FlagSettles, Settled
<1> QED
  BY <1>1, <1>2 DEF IInv

(* A step of a task that tells the page a status.                            *)
LEMMA StatusStep ==
  ASSUME IInv, ThreadOnly, NEW s \in Status, Dispatch([status |-> s]), TypeOK',
         \/ pc \in Working \ {"unlock", "clear"} /\ pc' \in Working \ {"report", "patching", "unlock", "clear"}
         \/ /\ s \in FinalStatus
            /\ \/ pc \in Working \ {"clear"} /\ pc' = "unlock"
               \/ pc \notin Working /\ pc' = "idle"
  PROVE  IInv'
<1>1. LockFollowsTask'
  BY DEF IInv, LockFollowsTask, ThreadOnly, Working
<1>2. FlagSettles'
  BY StatusDispatched DEF IInv, FlagSettles, ThreadOnly, uiVars, Working
<1>3. window' = "open" /\ s \in FinalStatus => Settled'
  BY StatusDispatched DEF IInv, Settled, ThreadOnly, uiVars
<1> QED
  BY <1>1, <1>2, <1>3 DEF IInv, Working

-----------------------------------------------------------------------------
LEMMA InitInv == Init => IInv
<1> SUFFICES ASSUME Init PROVE IInv
  OBVIOUS
<1> USE DEF Init
<1>1. TypeOK
  <2>1. Len(channel) = 0 /\ channel \in Seq(Command) /\ dispatched \in Seq(Closure)
    OBVIOUS
  <2>2. 0 <= ChannelSize /\ 0 \in 0 .. MaxClicks
    BY PatcherAssumption
  <2> QED
    BY <2>1, <2>2 DEF TypeOK
<1>2. Carrying(dispatched, "flag") = {} /\ Carrying(dispatched, "status") = {}
  BY DEF Carrying
<1>3. FlagSettles /\ Settled
  BY <1>2 DEF FlagSettles, Settled, LastIs, Working
<1> QED
  BY <1>1, <1>3 DEF IInv, LockFollowsTask, Working

LEMMA UserInv == ASSUME IInv, StartUpdate \/ CancelUpdate \/ ManualPatch \/ CloseDialog
                 PROVE  IInv'
<1> USE DEF StartUpdate, CancelUpdate, ManualPatch, CloseDialog, Click, Listening
<1>1. TypeOK'
  BY PatcherAssumption DEF IInv, TypeOK, Command, threadVars
<1> QED
  BY <1>1, WindowStep

LEMMA SendInv == ASSUME IInv, Send PROVE IInv'
<1>1. TypeOK'
  <2>1. CASE channel' = channel
    BY <2>1 DEF IInv, TypeOK, Send, threadVars
  <2>2. CASE channel' = Append(channel, ui) /\ Len(channel) < ChannelSize /\ ui \in Command
    <3>1. channel' \in Seq(Command) /\ Len(channel') = Len(channel) + 1 /\ Len(channel) \in Nat
      BY <2>2 DEF IInv, TypeOK
    <3>2. Len(channel') <= ChannelSize
      BY <2>2, <3>1, PatcherAssumption
    <3> QED
      BY <3>1, <3>2 DEF IInv, TypeOK, Send, threadVars
  <2> QED
    BY <2>1, <2>2 DEF Send
<1> QED
  BY <1>1, WindowStep DEF Send

LEMMA RunClosureInv == ASSUME IInv, RunClosure PROVE IInv'
<1> DEFINE c == Head(dispatched)
<1>1. /\ dispatched \in Seq(Closure) /\ dispatched # <<>> /\ dispatched' = Tail(dispatched)
      /\ UNCHANGED <<window, ui, clicks, channel, threadVars, lock>>
  BY DEF IInv, TypeOK, RunClosure
<1>2. c \in Closure /\ dispatched' \in Seq(Closure)
  BY <1>1
<1>3. \/ "flag" \in DOMAIN c /\ "status" \notin DOMAIN c /\ flag' = c.flag /\ page' = page
         /\ c.flag \in BOOLEAN
      \/ "status" \in DOMAIN c /\ "flag" \notin DOMAIN c /\ page' = c.status /\ flag' = flag
         /\ c.status \in Status
  BY <1>2, ClosureFacts DEF RunClosure
<1> HIDE DEF c
<1>4. TypeOK'
  BY <1>1, <1>2, <1>3 DEF IInv, TypeOK, threadVars
<1>5. \A b \in BOOLEAN : LastIs(dispatched, "flag", flag, b) => LastIs(dispatched', "flag", flag', b)
  BY <1>1, <1>3, LastTail DEF c
<1>6. \A s : LastIs(dispatched, "status", page, s) => LastIs(dispatched', "status", page', s)
  BY <1>1, <1>3, LastTail DEF c
<1>7. FlagSettles' /\ (Settled => Settled') /\ LockFollowsTask'
  BY <1>1, <1>5, <1>6 DEF IInv, FlagSettles, Settled, LockFollowsTask, threadVars
<1> QED
  BY <1>1, <1>4, <1>7 DEF IInv, threadVars

LEMMA CloseInv == ASSUME IInv, Close PROVE IInv'
<1> USE DEF Close
<1>1. channel' \in Seq(Command) /\ Len(channel') <= ChannelSize
  <2>1. CASE channel' = channel
    BY <2>1 DEF IInv, TypeOK
  <2>2. CASE channel' = Append(channel, "Quit") /\ Len(channel) < ChannelSize
    <3>1. channel' \in Seq(Command) /\ Len(channel') = Len(channel) + 1 /\ Len(channel) \in Nat
      BY <2>2 DEF IInv, TypeOK, Command
    <3> QED
      BY <2>2, <3>1, PatcherAssumption
  <2> QED
    BY <2>1, <2>2
<1>2. TypeOK'
  BY <1>1 DEF IInv, TypeOK, threadVars
<1> QED
  BY <1>2 DEF IInv, FlagSettles, LockFollowsTask, threadVars

LEMMA OtherInstanceInv == ASSUME IInv, OtherInstance PROVE IInv'
<1> USE DEF OtherInstance, uiVars, threadVars
<1>1. TypeOK'
  BY DEF IInv, TypeOK
<1>2. LockFollowsTask' /\ FlagSettles' /\ (Settled => Settled')
  BY DEF IInv, LockFollowsTask, FlagSettles, Settled
<1> QED
  BY <1>1, <1>2 DEF IInv

-----------------------------------------------------------------------------
(* The steps of the thread.                                                  *)

(* A step that takes at most one command out of the channel, to a place, a    *)
(* number and an outcome of the right type.                                  *)
LEMMA ThreadType ==
  ASSUME IInv, UNCHANGED uiVars,
         channel' = channel \/ (channel # <<>> /\ channel' = Tail(channel)),
         dispatched' \in Seq(Closure),
         pc' \in Working \cup Locking \cup {"idle", "ended"},
         left' \in Nat, outcome' \in FinalStatus \cup {"none"}, lock' \in {"free", "ours", "other"}
  PROVE  TypeOK'
<1>1. channel' \in Seq(Command) /\ Len(channel') <= ChannelSize
  <2>1. channel \in Seq(Command) /\ Len(channel) <= ChannelSize /\ Len(channel) \in Nat
    BY DEF IInv, TypeOK
  <2>2. CASE channel # <<>> /\ channel' = Tail(channel)
    <3>1. channel' \in Seq(Command) /\ Len(channel') = Len(channel) - 1
      BY <2>1, <2>2
    <3> QED
      BY <2>1, <3>1, PatcherAssumption
  <2> QED
    BY <2>1, <2>2
<1> QED
  BY <1>1 DEF IInv, TypeOK, uiVars

LEMMA Types ==
  ASSUME IInv
  PROVE  /\ dispatched \in Seq(Closure) /\ left \in Nat /\ channel \in Seq(Command)
         /\ outcome \in FinalStatus \cup {"none"} /\ lock \in {"free", "ours", "other"}
         /\ Servers \in Nat
BY PatcherAssumption DEF IInv, TypeOK

LEMMA IdleInv ==
  ASSUME IInv, Receive \/ ReceiveDisconnected
  PROVE  IInv'
<1>1. pc' \in Locking \cup {"idle", "ended"}
  <2>1. CASE Receive
    <3>1. channel \in Seq(Command) /\ channel # <<>>
      BY <2>1, Types DEF Receive
    <3>2. Head(channel) \in Command
      BY <3>1
    <3> QED
      BY <2>1, <3>2 DEF Receive, Command, Locking
  <2>2. CASE ReceiveDisconnected
    BY <2>2 DEF ReceiveDisconnected
  <2> QED
    BY <2>1, <2>2
<1> USE DEF Receive, ReceiveDisconnected, ThreadOnly
<1>2. TypeOK'
  BY <1>1, ThreadType, Types
<1> QED
  BY <1>1, <1>2, SilentStep DEF Working, Locking

LEMMA TakeLockInv == ASSUME IInv, TakeLock PROVE IInv'
<1> USE DEF TakeLock
<1>1. /\ pc' \in {"manual", "preferred", "servers"} /\ left' \in Nat
      /\ pc \notin Working
  BY Types DEF Working, Locking
<1>2. TypeOK'
  <2>1. dispatched' \in Seq(Closure)
    BY DispatchType, ClosureFacts DEF IInv
  <2> QED
    BY <1>1, <2>1, ThreadType, Types DEF Working
<1>3. LockFollowsTask'
  BY <1>1 DEF LockFollowsTask, Working
<1>4. window = "open" => LastIs(dispatched', "flag", flag, TRUE)
  BY FlagDispatched DEF IInv
<1>5. FlagSettles'
  BY <1>1, <1>4 DEF FlagSettles, uiVars, Working
<1> QED
  BY <1>1, <1>2, <1>3, <1>5 DEF IInv, Working

LEMMA LockFailsInv == ASSUME IInv, LockFails PROVE IInv'
<1>1. "Error" \in FinalStatus /\ "Error" \in Status
  BY DEF FinalStatus, Status
<1>2. TypeOK'
  <2>1. dispatched' \in Seq(Closure)
    BY <1>1, DispatchType, ClosureFacts DEF IInv, LockFails
  <2> QED
    BY <2>1, ThreadType, Types DEF LockFails, ThreadOnly
<1> QED
  BY <1>1, <1>2, StatusStep DEF LockFails, Locking, Working

(* Steps of a task without a word to the window: probing, polls, failures,   *)
(* the end of the work.                                                      *)
LEMMA TaskSilentInv ==
  ASSUME IInv,
         \/ PreferredFails \/ NextServer \/ ServerFails \/ PrepareFails
         \/ DownloadInterrupted \/ DownloadFails
         \/ NextPatch \/ AllApplied \/ PatchFails \/ ManualApplied
  PROVE  IInv'
<1> USE DEF PreferredFails, NextServer, ServerFails, PrepareFails, DownloadInterrupted,
            DownloadFails, NextPatch, AllApplied, PatchFails, ManualApplied, Poll, Stop
<1>1. /\ ThreadOnly /\ UNCHANGED dispatched
      /\ channel' = channel \/ (channel # <<>> /\ channel' = Tail(channel))
  BY DEF ThreadOnly
<1>2. /\ pc \in Working \ {"unlock", "clear"} /\ pc' \in Working \ {"unlock", "clear"}
      /\ pc' = "report" => outcome' \in FinalStatus
      /\ pc' # "report" => outcome' = outcome
  BY DEF Working, FinalStatus
<1>3. left' \in Nat /\ (pc' = "patching" => left' > 0)
  BY Types
<1>4. TypeOK'
  BY <1>1, <1>2, <1>3, ThreadType, Types DEF ThreadOnly
<1> QED
  BY <1>1, <1>2, <1>3, <1>4, SilentStep

(* Steps of a task that tell the page of progress or of the end.             *)
LEMMA ProgressInv ==
  ASSUME IInv, ServerAnswers \/ DownloadDone \/ PatchApplied
  PROVE  IInv'
<1> USE DEF ServerAnswers, DownloadDone, PatchApplied
<1>1. PICK s \in {"DownloadInProgress", "InstallationInProgress"} : Dispatch([status |-> s])
  OBVIOUS
<1>2. /\ pc \in Working \ {"unlock", "clear"}
      /\ pc' \in Working \ {"report", "patching", "unlock", "clear"}
      /\ ThreadOnly /\ UNCHANGED <<channel, outcome>> /\ s \in Status
  BY DEF Working, Status
<1>3. left' \in Nat
  BY Types, PatcherAssumption DEF IInv
<1>4. TypeOK'
  <2>1. dispatched' \in Seq(Closure)
    BY <1>1, <1>2, DispatchType, ClosureFacts DEF IInv
  <2> QED
    BY <1>2, <1>3, <2>1, ThreadType, Types DEF ThreadOnly
<1> QED
  BY <1>1, <1>2, <1>4, StatusStep

LEMMA ReportInv == ASSUME IInv, Report PROVE IInv'
<1>1. outcome \in FinalStatus /\ outcome \in Status
  BY DEF IInv, Report, Status
<1>2. TypeOK'
  <2>1. dispatched' \in Seq(Closure)
    BY <1>1, DispatchType, ClosureFacts DEF IInv, Report
  <2> QED
    BY <2>1, ThreadType, Types DEF Report, ThreadOnly, Working
<1> QED
  BY <1>1, <1>2, StatusStep DEF Report, Working

LEMMA UnlockInv == ASSUME IInv, Unlock PROVE IInv'
<1> USE DEF Unlock, Working
<1>1. TypeOK'
  BY ThreadType, Types
<1>2. LockFollowsTask'
  BY DEF IInv, LockFollowsTask
<1>3. FlagSettles' /\ (Settled => Settled')
  BY DEF IInv, FlagSettles, Settled, uiVars
<1> QED
  BY <1>1, <1>2, <1>3 DEF IInv, uiVars

LEMMA ClearFlagInv == ASSUME IInv, ClearFlag PROVE IInv'
<1> USE DEF ClearFlag, ThreadOnly
<1>1. TypeOK'
  <2>1. dispatched' \in Seq(Closure)
    BY DispatchType, ClosureFacts DEF IInv
  <2> QED
    BY <2>1, ThreadType, Types
<1>2. LockFollowsTask'
  BY DEF IInv, LockFollowsTask, Working
<1>3. window = "open" =>
        /\ LastIs(dispatched', "flag", flag, FALSE)
        /\ \A s : LastIs(dispatched, "status", page, s) => LastIs(dispatched', "status", page, s)
  BY FlagDispatched DEF IInv
<1>4. FlagSettles' /\ (window' = "open" => Settled')
  BY <1>3 DEF IInv, FlagSettles, Settled, uiVars, Working
<1> QED
  BY <1>1, <1>2, <1>4 DEF IInv

LEMMA NextInv == IInv /\ [Next]_vars => IInv'
<1> SUFFICES ASSUME IInv, [Next]_vars PROVE IInv'
  OBVIOUS
<1>1. CASE User
  BY <1>1, UserInv, CloseInv DEF User
<1>2. CASE Ui
  BY <1>2, SendInv, RunClosureInv DEF Ui
<1>3. CASE Local
  BY <1>3, IdleInv, TakeLockInv, LockFailsInv, TaskSilentInv, ProgressInv, ReportInv,
     UnlockInv, ClearFlagInv DEF Local
<1>4. CASE Probe \/ Transfer
  BY <1>4, TaskSilentInv, ProgressInv DEF Probe, Transfer
<1>5. CASE OtherInstance
  BY <1>5, OtherInstanceInv
<1>6. CASE UNCHANGED vars
  <2> USE <1>6 DEF vars, uiVars, threadVars
  <2>1. TypeOK'
    BY DEF IInv, TypeOK
  <2> QED
    BY <2>1, WindowStep
<1> QED
  BY <1>1, <1>2, <1>3, <1>4, <1>5, <1>6 DEF Next

-----------------------------------------------------------------------------
(* Whatever the user clicks, the servers answer and other instances do:      *)
(* flag, page and lock are where the task is, with the closures under way.   *)
THEOREM PatcherInvariant == Spec => []IInv
<1>1. Init => IInv
  BY InitInv
<1>2. IInv /\ [Next]_vars => IInv'
  BY NextInv
<1> QED
  BY <1>1, <1>2, PTL DEF Spec

(* Type correctness. *)
THEOREM PatcherTypeOK == Spec => []TypeOK
<1>1. IInv => TypeOK
  BY DEF IInv
<1> QED
  BY <1>1, PatcherInvariant, PTL

(* The update lock is held exactly while a task works. *)
THEOREM LockAlwaysFollows == Spec => []LockFollowsTask
<1>1. IInv => LockFollowsTask
  BY DEF IInv
<1> QED
  BY <1>1, PatcherInvariant, PTL

(* patching_in_progress ends up saying whether a task runs. *)
THEOREM FlagAlwaysSettles == Spec => []FlagSettles
<1>1. IInv => FlagSettles
  BY DEF IInv
<1> QED
  BY <1>1, PatcherInvariant, PTL

(* Every task leaves a final status on the page. *)
THEOREM PageAlwaysSettles == Spec => []PageSettles
<1>1. IInv => PageSettles
  BY DEF IInv, PageSettles
<1> QED
  BY <1>1, PatcherInvariant, PTL

-----------------------------------------------------------------------------
(* A non-empty set of naturals has a least element. *)
LEMMA NatMin ==
  ASSUME NEW S, S \subseteq Nat, S # {}
  PROVE  \E m \in S : \A k \in S : m <= k
<1>1. PICK m \in S : \A k \in S : <<k, m>> \notin OpToRel(<, Nat)
  BY WFMin, NatLessThanWellFounded, Zenon
<1>2. \A k \in S : ~(k < m)
  BY <1>1, Zenon DEF OpToRel
<1> QED
  BY <1>2

(* The first interruption in a channel. *)
LEMMA AheadFacts ==
  ASSUME NEW ch \in Seq(Command), Interrupting(ch) # {}
  PROVE  /\ Ahead(ch) \in Interrupting(ch)
         /\ \A j \in Interrupting(ch) : Ahead(ch) <= j
<1>1. Interrupting(ch) \subseteq Nat
  BY DEF Interrupting
<1>2. \E k \in Interrupting(ch) : \A j \in Interrupting(ch) : k <= j
  BY <1>1, NatMin
<1> QED
  BY <1>2 DEF Ahead

(* Cancel and Quit are served in order: no patch overtakes one for ever. *)
THEOREM CancelAlwaysAdvances == Spec => CancelAdvances
<1> DEFINE Advance ==
      pc = "patches" /\ pc' = "patching" /\ Interrupting(channel) # {}
        => Interrupting(channel') # {} /\ Ahead(channel') < Ahead(channel)
<1>1. IInv /\ [Next]_vars => [Advance]_vars
  <2> SUFFICES ASSUME IInv, Next, pc = "patches", pc' = "patching", Interrupting(channel) # {}
               PROVE  Interrupting(channel') # {} /\ Ahead(channel') < Ahead(channel)
    BY DEF vars
  <2>1. NextPatch
    BY DEF Next, User, Ui, Local, Probe, Transfer, OtherInstance, StartUpdate, CancelUpdate,
           ManualPatch, CloseDialog, Close, Send, RunClosure, Receive, ReceiveDisconnected,
           TakeLock, LockFails, Locking, NextServer, DownloadInterrupted, PatchApplied,
           PatchFails, AllApplied, ManualApplied, Report, Unlock, ClearFlag, PreferredFails,
           ServerFails, ServerAnswers, PrepareFails, DownloadFails, DownloadDone, threadVars,
           Stop
  <2>2. channel \in Seq(Command) /\ channel # <<>>
    BY Types DEF Interrupting
  <2>3. channel' = Tail(channel) /\ Head(channel) \notin Interrupts
    BY <2>1, <2>2 DEF NextPatch, Poll, Stop, Disconnected
  <2> DEFINE a == Ahead(channel)
  <2>4. a \in Interrupting(channel) /\ a \in 1 .. Len(channel) /\ channel[a] \in Interrupts
    BY <2>2, AheadFacts DEF Interrupting
  <2> HIDE DEF a
  <2>5. a \in 2 .. Len(channel)
    BY <2>2, <2>3, <2>4
  <2>6. a - 1 \in 1 .. Len(channel') /\ channel'[a - 1] = channel[a] /\ channel' \in Seq(Command)
    BY <2>2, <2>3, <2>5
  <2>7. a - 1 \in Interrupting(channel')
    BY <2>4, <2>6 DEF Interrupting
  <2>8. Ahead(channel') <= a - 1 /\ Ahead(channel') \in Nat
    BY <2>6, <2>7, AheadFacts DEF Interrupting
  <2> QED
    BY <2>5, <2>7, <2>8 DEF a
<1> QED
  BY <1>1, PatcherInvariant, PTL DEF Spec, CancelAdvances
=============================================================================
