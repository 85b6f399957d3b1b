----------------------------- MODULE MCFileData -----------------------------
(***************************************************************************)
(* Seven clusters of two bytes: one direct, two behind i1, four in the two   *)
(* blocks behind i2.  A write has a first, a middle and a last cluster and   *)
(* goes through all three kinds, or begins and ends inside a cluster over    *)
(* bytes of the first, or leaves holes before it and the first block of i2   *)
(* without a cluster.  Sizes wrap at 32, and lengths differ by half of that  *)
(* once the file has been rewritten a few times.  Two buffers tell a byte    *)
(* from the one it replaced.                                                 *)
(***************************************************************************)
EXTENDS FileData, TLC
MCWrites == {<<1, 6>>, <<5, 2>>, <<12, 1>>}
Symmetric == Permutations(Tag)
=============================================================================
