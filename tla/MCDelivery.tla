---------------------------- MODULE MCDelivery ----------------------------
(* Delivery on a tree of three paths: a file or directory d, a path d\f      *)
(* under it, and a file g.                                                  *)
EXTENDS Delivery, FiniteSets

d == <<"d">>
f == <<"d", "f">>
g == <<"g">>
MCPath == {d, f, g}

Remove1(p) == [path |-> p, removed |-> TRUE, target |-> p]
Update1(p, t) == [path |-> p, removed |-> FALSE, target |-> t]
MCEntries == {Remove1(p) : p \in MCPath} \cup {Update1(p, p) : p \in MCPath} \cup {Update1(g, f)}

(* Every definition of one or two entries, and those of three that begin by  *)
(* removing d.                                                              *)
MCDefinitions ==
  {s \in UNION {[1 .. n -> MCEntries] : n \in 1 .. 3} :
     /\ \A i, j \in DOMAIN s : s[i] = s[j] => i = j
     /\ Len(s) = 3 => s[1] = Remove1(d)}

Tree(nd, nf, ng) == [p \in MCPath |-> IF p = d THEN nd ELSE IF p = f THEN nf ELSE ng]

MCSources == {Tree("file", "none", "file"), Tree("dir", "file", "file")}

MCDisks ==
  {Tree(Absent, Absent, Absent), Tree(OldFile, Absent, OldFile),
   Tree(Dir, OldFile, OldFile), Tree(Dir, Absent, Absent)}
=============================================================================
