------------------------------- MODULE Format -------------------------------
(***************************************************************************)
(* What mksofs writes, as pure operators: the superblock computed by        *)
(* fillInSuperBlock, the links of fillInInodeTable and the references of    *)
(* fillInFreeClusterList.  The formatter (Mksofs) writes these values block *)
(* by block; the free lists (FreeInodes, FreeClusters) start from them.     *)
(*                                                                         *)
(* uint32_t arithmetic is kept modulo Word, the constant that stands for    *)
(* 2^32, wherever the code subtracts.                                       *)
(***************************************************************************)
EXTENDS Integers

CONSTANTS
  IPB,   \* inodes per block (8)
  RPB,   \* references per block (128)
  Word   \* number of values of a uint32_t (2^32)

ASSUME FormatAssumption ==
  /\ IPB \in Nat \ {0}
  /\ RPB \in Nat \ {0, 1}
  /\ Word \in Nat \ {0, 1}

\* The all-ones word: the null reference, block and cluster number.
NULL_REFERENCE == Word - 1

\* uint32_t subtraction.
Minus(a, b) == (a - b) % Word

\* References that fit in a cluster of bpc blocks.
RefsPerCluster(bpc) == RPB * bpc

CeilDiv(a, b) == (a + b - 1) \div b

\* Mutant: the blocks left are not made to divide into clusters.
InodeTableBlocksAsked(ntotal, itotal, bpc) == CeilDiv(itotal, IPB)

\* Blocks the inode table gets: those the requested inodes fill, and then one
\* more at a time until what is left of the device divides into clusters (the
\* loop stops at zero blocks left at the latest).
InodeTableBlocks(ntotal, itotal, bpc) ==
  LET asked == CeilDiv(itotal, IPB)
  IN  asked + (Minus(ntotal - 1, asked) % bpc)

\* Mutant: a tail cluster that is exactly full is taken for an empty one.
TailIndexModulo(crefs, cfree, rpc) == cfree % (rpc - 1)

\* First position of the tail reference cluster that is not filled.
TailIndex(crefs, cfree, rpc) ==
  LET before == (crefs - 1) * (rpc - 1) IN
  CASE crefs > 0 /\ before > cfree -> rpc - 1
    [] crefs > 0 /\ before = cfree -> 0
    [] OTHER -> IF cfree % (rpc - 1) = 0 THEN rpc - 1 ELSE cfree % (rpc - 1)

\* The first case above also gives one reference cluster back.
TailClusters(crefs, cfree, rpc) ==
  IF crefs > 0 /\ (crefs - 1) * (rpc - 1) > cfree THEN crefs - 1 ELSE crefs

\* The superblock of a device of ntotal blocks for itotal inodes, with bpc
\* blocks per cluster.  Both caches are empty and their indices zero.
Superblock(ntotal, itotal, bpc) ==
  LET itsize == InodeTableBlocks(ntotal, itotal, bpc)
      ctotal == Minus(ntotal - 1, itsize) \div bpc
      clusters == Minus(ctotal, 1)              \* every cluster but the root's
      crefs  == CeilDiv(clusters, RefsPerCluster(bpc))
      cfree  == Minus(clusters, crefs)
      kept   == TailClusters(crefs, cfree, RefsPerCluster(bpc))
  IN  [ csize   |-> bpc,
        ntotal  |-> ntotal,
        itstart |-> 1,
        itsize  |-> itsize,
        itotal  |-> itsize * IPB,
        ifree   |-> Minus(itsize * IPB, 1),
        ihead   |-> 1,
        itail   |-> Minus(itsize * IPB, 1),
        czstart |-> itsize + 1,
        ctotal  |-> ctotal,
        cfree   |-> cfree,
        crefs   |-> kept,
        head    |-> [cluster |-> 1, idx |-> 0],
        tail    |-> [cluster |-> kept, idx |-> TailIndex(crefs, cfree, RefsPerCluster(bpc))] ]

\* Inode 0, the root directory, is the only one in use.
InodeIsFree(in) == in # 0

\* The `next` field of free inode number in of a table of itotal inodes.
InodeNext(itotal, in) == IF in = itotal - 1 THEN NULL_REFERENCE ELSE in + 1

\* Reference j of the i-th reference cluster (i from 0, as in the code) of a
\* zone of ctotal clusters of which cfree are free: the next free clusters in
\* order, then the link, unless no free cluster is left to list.
Reference(ctotal, cfree, rpc, i, j) ==
  LET listed == ctotal - cfree + i * (rpc - 1) + j
  IN  CASE listed >= ctotal -> NULL_REFERENCE
        [] listed < ctotal /\ j # rpc - 1 -> listed
        [] OTHER -> i + 2

ReferenceCluster(ctotal, cfree, rpc, i) ==
  [j \in 0 .. rpc - 1 |-> Reference(ctotal, cfree, rpc, i, j)]
=============================================================================
