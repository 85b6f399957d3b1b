------------------------------ MODULE Dealers ------------------------------
(***************************************************************************)
(* The dealers (dealers/*.cpp): what of a volume is in memory and what is   *)
(* on the disk.  The superblock is one copy in memory, sb, written to block *)
(* 0 by sbSave.  An inode is read when its first handle is opened, changed  *)
(* in inode_table, written by iSave, and read again only when a handle is    *)
(* opened after the last one was closed.  Closing a handle, a dealer or the  *)
(* disk writes nothing.                                                      *)
(*                                                                         *)
(* A volume is a record; every operator is a routine, as a function of it.  *)
(* The lists of free inodes and clusters are sets here (FreeInodes and       *)
(* FreeClusters have the lists), so is what an inode refers to.              *)
(***************************************************************************)
EXTENDS Integers, FiniteSets

CONSTANTS
  Inode, Root,   \* inode numbers; the root directory's
  IPB,           \* inodes per block of the inode table
  Cluster        \* the data clusters

ASSUME DealersAssumption ==
  /\ Inode \subseteq Nat /\ Root \in Inode
  /\ IPB \in Nat \ {0}
  /\ Cluster \subseteq Nat /\ IsFiniteSet(Cluster)

\* free: INODE_FREE in mode.  refs: the clusters of the file.  size: of a
\* directory, the entries in it.
Blank == [free |-> FALSE, refs |-> {}, refcount |-> 0, size |-> 0]
Superblock == [ifree : SUBSET Inode, cfree : SUBSET Cluster]

-----------------------------------------------------------------------------
(* Inode table dealer *)

SameBlock(in) == {j \in Inode : j \div IPB = in \div IPB}

iOpen(z, in) ==
  [z EXCEPT !.cache[in] = IF z.count[in] = 0 THEN z.disk[in] ELSE @, !.count[in] = @ + 1]

\* A mutant: writes the block as it is in inode_table.
iSaveBlock(z, in) ==
  [z EXCEPT !.disk = [j \in Inode |-> IF j \in SameBlock(in) THEN z.cache[j] ELSE @[j]]]

\* The block is read, the inode put into it, and the block written.
iSave(z, in) ==
  LET buf == [[j \in SameBlock(in) |-> z.disk[j]] EXCEPT ![in] = z.cache[in]]
  IN  [z EXCEPT !.disk = [j \in Inode |-> IF j \in SameBlock(in) THEN buf[j] ELSE @[j]]]

iClose(z, in) == [z EXCEPT !.count[in] = @ - 1]

iIncRefcount(z, in) == [z EXCEPT !.cache[in].refcount = @ + 1]
iDecRefcount(z, in) == [z EXCEPT !.cache[in].refcount = IF @ > 0 THEN @ - 1 ELSE 0]

\* EBADF for a handle that is not open.
NotOpen(z, in) == z.count[in] = 0

-----------------------------------------------------------------------------
(* Superblock dealer, opening and closing *)

sbSave(z) == [z EXCEPT !.dsb = z.sb]

\* soCloseDealersDisk, or the end of the process, and soOpenDealersDisk.
Mounted(z) ==
  [z EXCEPT !.sb = z.dsb, !.count = [i \in Inode |-> 0], !.cache = [i \in Inode |-> Blank]]

-----------------------------------------------------------------------------
(* What soAllocInode, soFreeInode, soAllocCluster and soFreeCluster do        *)
(* between their writes.                                                      *)

TakeInode(z, in) ==
  LET y == iOpen([z EXCEPT !.sb.ifree = @ \ {in}], in) IN [y EXCEPT !.cache[in] = Blank]

GiveInode(z, in) ==
  LET y == iOpen([z EXCEPT !.sb.ifree = @ \cup {in}], in)
  IN  [y EXCEPT !.cache[in] = [Blank EXCEPT !.free = TRUE]]

SomeOf(S) == CHOOSE x \in S : \A y \in S : x <= y

\* A mutant: soAllocCluster leaves the superblock in memory.
AllocClusterUnsaved(z, in) ==
  LET c == SomeOf(z.sb.cfree)
  IN  [z EXCEPT !.sb.cfree = @ \ {c}, !.cache[in].refs = @ \cup {c}]

\* soAllocCluster saves the superblock; then the inode refers to the cluster.
AllocCluster(z, in) ==
  LET c == SomeOf(z.sb.cfree)
  IN  [sbSave([z EXCEPT !.sb.cfree = @ \ {c}]) EXCEPT !.cache[in].refs = @ \cup {c}]

\* soFreeCluster saves the superblock; then the reference is dropped.
FreeCluster(z, in) ==
  LET c == SomeOf(z.cache[in].refs)
  IN  [sbSave([z EXCEPT !.sb.cfree = @ \cup {c}]) EXCEPT !.cache[in].refs = @ \ {c}]
=============================================================================
