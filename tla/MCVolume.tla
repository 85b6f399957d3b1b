------------------------------ MODULE MCVolume ------------------------------
(***************************************************************************)
(* Two files in the block of the root, two clusters, two names: enough      *)
(* for a call to run out of inodes, of clusters and of entries, and for two  *)
(* files to meet in a cluster.                                              *)
(***************************************************************************)
EXTENDS Volume, TLC
Symmetric == Permutations(Name)
=============================================================================
