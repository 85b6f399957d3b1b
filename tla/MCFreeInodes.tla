---------------------------- MODULE MCFreeInodes ----------------------------
(***************************************************************************)
(* Five inodes, four of them allocatable: enough for the list to be empty,  *)
(* of one inode (head = tail), longer, and permuted, and for a stale tail.  *)
(***************************************************************************)
EXTENDS FreeInodes
=============================================================================
