----------------------------- MODULE MCTransfer -----------------------------
(* Instances of Transfer for TLC.                                          *)
EXTENDS Transfer, TLC

CONSTANTS c1, c2,           \* copies
          p1, p2, p3, p4,   \* paths
          b1, b2            \* blocks

TwoPaths  == {p1, p2}
FourPaths == {p1, p2, p3, p4}
OnlyP4    == {p4}

(* The data directory: a file of two blocks, a free path, a symbolic link, *)
(* and a path that validate_path refuses.                                  *)
MCFsInit == [x \in Paths |->
    CASE x = p1 -> <<b1, b2>> [] x = p3 -> Link [] OTHER -> Absent]

(* The bucket: an object one block over the cap of the runs, one of        *)
(* exactly the cap, and free keys.                                         *)
MCS3Init == [x \in Paths |->
    CASE x = p1 -> <<b2, b2, b2>> [] x = p2 -> <<b1, b2>> [] OTHER -> Absent]

Symmetry == Permutations(Copies)
=============================================================================
