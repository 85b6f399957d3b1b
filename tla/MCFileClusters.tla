--------------------------- MODULE MCFileClusters ---------------------------
(* FileClusters with inodes of one direct and two single indirect references. *)
(* The positions asked for are of every part of the file: the inode, one i1   *)
(* cluster twice, and two reference clusters under i2.                        *)
EXTENDS FileClusters
=============================================================================
