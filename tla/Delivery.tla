------------------------------ MODULE Delivery ------------------------------
(***************************************************************************)
(* From the patch definition to the game directory: mkpatch makes an        *)
(* archive, it is published under its name whatever mkpatch reported, every *)
(* attempt of the client downloads it, perhaps with an altered blob, and    *)
(* applies it to the game directory.                                       *)
(***************************************************************************)
EXTENDS MakePatch, DiskPatch

CONSTANT EnsureIntegrity   \* values of the check_integrity setting

ASSUME EnsureAssumption == EnsureIntegrity \subseteq BOOLEAN

VARIABLE ensure            \* the check_integrity setting

vars == <<makeVars, diskVars, ensure>>

Init == MakeInit /\ DiskInit /\ ensure \in EnsureIntegrity

Altered(a, i) == [a EXCEPT !.body[i] = Junk]

Make == MakeNext /\ UNCHANGED <<diskVars, ensure>>

Download ==
  /\ stage \in {"exited", "killed"}
  /\ \/ Try(output, ensure)
     \/ \E i \in DOMAIN output.body : Try(Altered(output, i), ensure)
  /\ UNCHANGED <<makeVars, ensure>>

Apply == ApplyNext /\ UNCHANGED <<makeVars, ensure>>

Next == Make \/ Download \/ Apply

Spec == Init /\ [][Next]_vars

-----------------------------------------------------------------------------
(* End to end: when mkpatch and the patcher both report success, the game    *)
(* directory has what the definition says, although blobs may be altered on  *)
(* the way and integrity may not be checked.                                *)
DefinedOnDisk ==
  exit = "ok" /\ result = "ok" =>
    \A p \in DOMAIN WholePatch :
      IF WholePatch[p] = Gone
      THEN IsFile(disk[p]) => p \in stuck
      ELSE disk[p] = WholePatch[p]

(* With checksums and check_integrity, an archive that lost a content that   *)
(* matters is refused before a file is touched.                             *)
CheckedBeforeTouched ==
  ensure /\ job.sums => result # "unreadable"

(* The attempts patch with the table that mkpatch wrote; when they check it,  *)
(* no content of a patch that is applied is altered.                        *)
Fetched ==
  result # "none" => stage \in {"exited", "killed"} /\ patch.table = output.table
Checked ==
  result = "running" /\ ensure /\ job.sums =>
    \A p \in UpdatedPaths(patch) : Readable(patch, p)
(* The attempts read blobs that mkpatch wrote, or junk, and never pass over    *)
(* junk.                                                                    *)
Delivered ==
  /\ result # "none" => \A i \in DOMAIN output.body : patch.body[i] \in {output.body[i], Junk}
  /\ result \in {"running", "ok"} =>
       /\ Opens(output)
       /\ \A p \in UpdatedPaths(patch) : p \notin todo \/ p \in open => Readable(patch, p)
  /\ result = "ok" => todo = {}

IInv ==
  MakeInv /\ DiskInv /\ Fetched /\ Checked /\ CheckedBeforeTouched /\ ensure \in BOOLEAN
=============================================================================
