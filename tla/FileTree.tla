------------------------------ MODULE FileTree ------------------------------
(* Trees of files as BackupEngine and Files need them. *)
EXTENDS Naturals, Sequences

CONSTANT Paths  \* paths below the root, as sequences of names

ASSUME PathAssumption ==
    /\ Paths \subseteq Seq(STRING)
    /\ \A p \in Paths : Len(p) > 0 /\ (Len(p) > 1 => SubSeq(p, 1, Len(p) - 1) \in Paths)

Absent == [kind |-> "absent"]
Dir == [kind |-> "dir"]
IsFile(node) == node.kind = "file"

Parent(p) == SubSeq(p, 1, Len(p) - 1)
Below(p) == {q \in Paths : Len(q) > Len(p) /\ SubSeq(q, 1, Len(p)) = p}
Subtree(p) == {p} \cup Below(p)
Above(p) == {q \in Paths : p \in Below(q)}

\* The root is a directory.
IsDirIn(tree, p) == Len(p) > 0 => tree[p] = Dir
WellFormed(tree) == \A p \in Paths : tree[p] # Absent => IsDirIn(tree, Parent(p))

Without(tree, S) == [p \in Paths |-> IF p \in S THEN Absent ELSE tree[p]]
=============================================================================
