----------------------------- MODULE MCNamespace -----------------------------
(* Namespace with three names (two for soUnlink) and two inodes beside the    *)
(* root: two directories and what is in them, or three one below the other.   *)
EXTENDS Namespace, TLC

Symmetry == Permutations(Name) \cup Permutations(Inode \ {Root})
=============================================================================
