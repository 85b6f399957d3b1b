---------------------------- MODULE MCDirEntries ----------------------------
(* DirEntries with three entries per cluster and directories of up to five   *)
(* entries: a cluster has a first, a middle and a last place, and the last    *)
(* cluster one or two entries besides full ones.                             *)
EXTENDS DirEntries, TLC

(* The last answer has no influence on what follows. *)
View == <<clus, size, overread, reader>>
Symmetry == Permutations(Name) \cup Permutations(Inode)
=============================================================================
