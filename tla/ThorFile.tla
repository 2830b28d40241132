------------------------------ MODULE ThorFile ------------------------------
(***************************************************************************)
(* THOR archives as gruf/src/thor/reader.rs reads them.                    *)
(*                                                                         *)
(* A path is a sequence of components.  A file is its header, the blobs of  *)
(* its body and its table: path -> place of its blob in the body, which     *)
(* orders entries as their offsets do.  A removed entry has offset 0, as    *)
(* the parser gives it.  A blob is a content, the checksums of              *)
(* data.integrity, or junk: half written or altered on its way.  zlib       *)
(* (external) refuses junk.                                                *)
(***************************************************************************)
EXTENDS Integers, Sequences

CONSTANT Path      \* relative paths
Integrity == <<"data.integrity">>

Data(c)    == [kind |-> "data", data |-> c]
Sums(s)    == [kind |-> "sums", data |-> s]
Junk       == [kind |-> "junk", data |-> <<>>]
Removed    == 0
Gone       == [kind |-> "gone", data |-> <<>>]  \* what a removed entry stands for
NoTable    == [p \in {} |-> 0]
Empty      == [header |-> "none", body |-> <<>>, table |-> NoTable]

(* parse_thor_patch: magic and mode are written before the place of the      *)
(* table, without which it says "Invalid THOR file table offset": a torn     *)
(* header is refused like the placeholder.                                  *)
Opens(a) == a.header = "whole"

RemovedPaths(a) == {p \in DOMAIN a.table \ {Integrity} : a.table[p] = Removed}
UpdatedPaths(a) == {p \in DOMAIN a.table \ {Integrity} : a.table[p] # Removed}

Contents ==
  [kind : {"data"}, data : Path]
    \cup [kind : {"sums"}, data : UNION {[D -> Path] : D \in SUBSET (Path \cup {Integrity})}]
    \cup {Junk}
Tables   == UNION {[D -> Nat] : D \in SUBSET (Path \cup {Integrity})}
Archives == [header : {"none", "torn", "whole"}, body : Seq(Contents), table : Tables]
PointsInto(t, a) == \A p \in DOMAIN t : t[p] \in 0 .. Len(a.body)

(* read_file_content: the decompressed content, or an error. *)
Blob(a, p)     == a.body[a.table[p]]
Readable(a, p) == p \in DOMAIN a.table /\ (a.table[p] # Removed => Blob(a, p) # Junk)

(* Mutant of IsValid: the names are looked up but the contents are not read. *)
IsValidByName(a) ==
  Integrity \in DOMAIN a.table =>
    Readable(a, Integrity) /\ DOMAIN Blob(a, Integrity).data \subseteq DOMAIN a.table

(* is_valid, as is_archive_valid takes it: without data.integrity an archive *)
(* is valid, with one that cannot be read it is not.                        *)
IsValid(a) ==
  Integrity \in DOMAIN a.table =>
    /\ Readable(a, Integrity)
    /\ LET sums == Blob(a, Integrity).data
       IN  \A p \in DOMAIN sums : Readable(a, p) /\ Blob(a, p) = Data(sums[p])

(* Proper ancestors of a path. *)
Above(p) == {SubSeq(p, 1, n) : n \in 1 .. Len(p) - 1}

(* The paths form a tree, and the name of the checksums is not one of them. *)
ASSUME PathAssumption == \A p \in Path : Above(p) \subseteq Path
ASSUME NameAssumption == Integrity \notin Path
=============================================================================
