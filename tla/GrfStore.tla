------------------------------ MODULE GrfStore ------------------------------
(***************************************************************************)
(* What patching a GRF archive promises, whatever the method (the doc      *)
(* comments and tests of rpatchur/src/patcher/patching.rs): an archive     *)
(* maps paths to contents; a patch names paths to remove and new contents. *)
(* A patch that succeeds was applied as a whole.  One that fails may be    *)
(* partly applied but leaves an archive whose other files are intact.      *)
(***************************************************************************)
VARIABLES
  removed,    \* the paths the patch removes
  imported,   \* path -> content: what the patch adds or replaces
  files,      \* path -> content: what a reader of the archive gets
  outcome     \* of the last attempt: "none", "ok" or "error"

Touched == removed \cup DOMAIN imported

Patched(fs) ==
  [p \in (DOMAIN fs \ removed) \cup DOMAIN imported |->
     IF p \in DOMAIN imported THEN imported[p] ELSE fs[p]]

(* Two archives with the same files outside the patch. *)
SameUntouched(fs, gs) ==
  /\ DOMAIN fs \ Touched = DOMAIN gs \ Touched
  /\ \A p \in DOMAIN fs \ Touched : fs[p] = gs[p]

Init ==
  /\ removed \cap DOMAIN imported = {}
  /\ outcome = "none"

Succeed ==
  /\ outcome # "ok"
  /\ files' = Patched(files)
  /\ outcome' = "ok"
  /\ UNCHANGED <<removed, imported>>

Fail ==
  /\ outcome # "ok"
  /\ SameUntouched(files, files')
  /\ outcome' = "error"
  /\ UNCHANGED <<removed, imported>>

Spec == Init /\ [][Succeed \/ Fail]_<<removed, imported, files, outcome>>
=============================================================================
