------------------------------- MODULE Mksofs -------------------------------
(***************************************************************************)
(* The formatter, mksofs: main() computes a superblock in memory, then      *)
(* writes the inode table, the root directory, the reference clusters, the  *)
(* zeroed free clusters if asked to, and last the superblock.  One step     *)
(* here is one block or cluster written.  A write beyond the device throws  *)
(* and ends the run; the machine may also stop between any two writes.      *)
(***************************************************************************)
EXTENDS Format, FiniteSets, Functions

CONSTANTS
  Devices,     \* device sizes, in blocks
  InodeCounts, \* arguments of -i (0: main chooses)
  ClusterSizes \* arguments of -c

\* A table of inodes as large as the device still counts its inodes in a word:
\* rawdisk addresses the bytes of a device with an int (rawdisk.cpp:95).
ASSUME MksofsAssumption ==
  /\ Devices \subseteq Nat \ {0}
  /\ IPB > 1 /\ \A d \in Devices : d * IPB < Word
  /\ InodeCounts \subseteq Nat
  /\ ClusterSizes \subseteq 1 .. 8

VARIABLES
  arg,   \* what mksofs was called with, and the size of the device
  sb,    \* the superblock in main's memory
  blk,   \* what is on the device, block by block (a cluster: its first block)
  stage, \* where main is
  k      \* the loop counter of the present stage

vars == <<arg, sb, blk, stage, k>>

-----------------------------------------------------------------------------
\* Contents of a block.  "volume": the superblock of an earlier, good format.
Old == [kind |-> "old"]
Volume == [kind |-> "volume"]
Root == [kind |-> "root"]
Rest == [kind |-> "rest"]           \* the later blocks of a cluster
Zero == [kind |-> "zero"]
InodeBlock(b) ==
  [ kind |-> "inodes",
    free |-> [j \in 0 .. IPB - 1 |-> InodeIsFree(b * IPB + j)],
    next |-> [j \in 0 .. IPB - 1 |-> InodeNext(sb.itotal, b * IPB + j)] ]
RefBlock(i) ==
  [ kind |-> "refs",
    ref  |-> ReferenceCluster(sb.ctotal, sb.cfree, RefsPerCluster(sb.csize), i) ]
Super(s) == [kind |-> "super", sb |-> s]

Stages == {"super", "itable", "root", "refs", "zero", "save",
           "done", "failed", "crashed"}
Stopped == {"done", "failed", "crashed"}

\* Block number of a cluster, as the formatter computes it.
ClusterStart(c) == sb.czstart + c * sb.csize

\* soWriteRawBlock and soWriteRawCluster check the first block only.
OnDevice(n) == n < arg.ntotal

PutBlock(n, content) == blk' = [blk EXCEPT ![n] = content]
PutCluster(n, content) ==
  blk' = [b \in DOMAIN blk |->
            IF b = n THEN content
            ELSE IF b \in n + 1 .. n + sb.csize - 1 THEN Rest ELSE blk[b]]

\* A write that throws: main reports the error and exits.
Fail == /\ stage' = "failed"
        /\ UNCHANGED <<arg, sb, blk, k>>

-----------------------------------------------------------------------------
Init ==
  /\ arg \in [ntotal : Devices, itotal : InodeCounts, bpc : ClusterSizes,
              zero : BOOLEAN]
  /\ sb = [csize |-> 0]
  /\ \E first \in {Old, Volume} :
       blk = [b \in 0 .. arg.ntotal - 1 |-> IF b = 0 THEN first ELSE Old]
  /\ stage = "super"
  /\ k = 0

RequestedInodes == IF arg.itotal = 0 THEN arg.ntotal \div 8 ELSE arg.itotal

FillInSuperBlock ==
  /\ stage = "super"
  /\ sb' = Superblock(arg.ntotal, RequestedInodes, arg.bpc)
  /\ stage' = "itable"
  /\ k' = 1
  /\ UNCHANGED <<arg, blk>>

\* Blocks 1, 2, ... of the table, and block 0, with the root's inode, last.
FillInInodeTable ==
  /\ stage = "itable"
  /\ LET b == IF k < sb.itsize THEN k ELSE 0 IN
     \/ /\ OnDevice(sb.itstart + b)
        /\ PutBlock(sb.itstart + b, InodeBlock(b))
        /\ IF b = 0 THEN stage' = "root" /\ k' = 0
                    ELSE stage' = stage /\ k' = k + 1
        /\ UNCHANGED <<arg, sb>>
     \/ ~ OnDevice(sb.itstart + b) /\ Fail

FillInRootDir ==
  /\ stage = "root"
  /\ \/ /\ OnDevice(ClusterStart(0))
        /\ PutCluster(ClusterStart(0), Root)
        /\ stage' = "refs"
        /\ k' = 0
        /\ UNCHANGED <<arg, sb>>
     \/ ~ OnDevice(ClusterStart(0)) /\ Fail

\* Reference cluster i is data cluster i + 1.
FillInFreeClusterList ==
  /\ stage = "refs"
  /\ \/ /\ k < sb.crefs
        /\ PutCluster(ClusterStart(k + 1), RefBlock(k))
        /\ k' = k + 1
        /\ UNCHANGED <<arg, sb, stage>>
     \/ /\ k >= sb.crefs
        /\ stage' = IF arg.zero THEN "zero" ELSE "save"
        /\ k' = ClusterStart(1 + sb.crefs)
        /\ UNCHANGED <<arg, sb, blk>>

\* Mutant: the loop does not advance.
ResetFreeClusterStuck ==
  /\ stage = "zero"
  /\ \/ /\ OnDevice(k)
        /\ PutCluster(k, Zero)
        /\ UNCHANGED <<arg, sb, stage, k>>
     \/ /\ ~ OnDevice(k)
        /\ stage' = "save"
        /\ UNCHANGED <<arg, sb, blk, k>>

\* Here k is the block number the loop has reached.
ResetFreeCluster ==
  /\ stage = "zero"
  /\ \/ /\ OnDevice(k)
        /\ PutCluster(k, Zero)
        /\ k' = k + sb.csize
        /\ UNCHANGED <<arg, sb, stage>>
     \/ /\ ~ OnDevice(k)
        /\ stage' = "save"
        /\ UNCHANGED <<arg, sb, blk, k>>

SaveSuperBlock ==
  /\ stage = "save"
  /\ PutBlock(0, Super(sb))
  /\ stage' = "done"
  /\ UNCHANGED <<arg, sb, k>>

Main == \/ FillInSuperBlock \/ FillInInodeTable \/ FillInRootDir
        \/ FillInFreeClusterList \/ ResetFreeCluster \/ SaveSuperBlock

\* The machine stops, or mksofs is killed.
Crash ==
  /\ stage \notin Stopped
  /\ stage' = "crashed"
  /\ UNCHANGED <<arg, sb, blk, k>>

Next == Main \/ Crash

Spec == Init /\ [][Next]_vars /\ WF_vars(Main)
-----------------------------------------------------------------------------
(* Properties *)

Contents == [kind : {"old", "volume", "root", "rest", "zero", "inodes",
                     "refs", "super"}]

\* The state of a run has the shape main() gives it, and the counters it
\* computes are words.
TypeOK ==
  /\ stage \in Stages
  /\ \A f \in {"ifree", "itail", "ctotal", "cfree", "crefs"} \cap DOMAIN sb :
       sb[f] \in 0 .. Word - 1
  /\ k \in Nat
  /\ DOMAIN blk = 0 .. arg.ntotal - 1
  /\ \A b \in DOMAIN blk : [kind |-> blk[b].kind] \in Contents

\* The reference clusters of the formatted device, in the superblock's order.
RefAt(c, j) == blk[ClusterStart(c)].ref[j]

\* Every block of a device mksofs reports as installed holds what its region
\* is for, and the regions tile the device: superblock, itsize blocks of
\* inodes, root directory, crefs reference clusters, free clusters.  (Its first
\* part, here and in the other modules, is that the state is well typed.)
RegionsTile ==
  /\ TypeOK
  /\ stage = "done" =>
    /\ 1 + sb.itsize + sb.ctotal * sb.csize = arg.ntotal
    /\ blk[0].kind = "super"
    /\ \A b \in 1 .. sb.itsize : blk[b].kind = "inodes"
    /\ \A c \in 0 .. sb.ctotal - 1 :
         /\ blk[ClusterStart(c)].kind =
              CASE c = 0 -> "root"
                [] c \in 1 .. sb.crefs -> "refs"
                [] OTHER -> IF arg.zero THEN "zero" ELSE "old"

\* Where a reference cluster lists free clusters: all but the link, and in the
\* tail cluster only what precedes the tail index.
ListPositions ==
  {p \in (1 .. sb.crefs) \X (0 .. RefsPerCluster(sb.csize) - 2) :
     p[1] = sb.tail.cluster => p[2] < sb.tail.idx}

\* On an installed device the reference clusters list every cluster that is
\* neither the root's nor a reference cluster, each once, before the tail
\* index, and cfree is their number.
FreeClustersListedOnce ==
  stage = "done" =>
    LET free == sb.crefs + 1 .. sb.ctotal - 1 IN
    /\ {RefAt(p[1], p[2]) : p \in ListPositions} = free
    /\ Cardinality(ListPositions) = sb.cfree
    /\ Cardinality(free) = sb.cfree

\* Inode in as the table on the device describes it.
DiskInode(in) ==
  LET b == blk[sb.itstart + in \div IPB] IN
  [free |-> b.free[in % IPB], next |-> b.next[in % IPB]]

\* On an installed device the list of free inodes starts at ihead, ends at
\* itail and runs through every inode but the root, ifree of them.
InodesListedOnce ==
  stage = "done" =>
    LET free == {in \in 0 .. sb.itotal - 1 : DiskInode(in).free}
        next == [in \in free |-> DiskInode(in).next]
    IN  /\ free = 1 .. sb.itotal - 1
        /\ Cardinality(free) = sb.ifree
        /\ sb.ihead \in free /\ sb.itail \in free
        /\ next[sb.itail] = NULL_REFERENCE
        \* one predecessor each, none for the head, so no cycle
        /\ Range(next) = (free \ {sb.ihead}) \cup {NULL_REFERENCE}
        /\ \A in \in free \ {sb.itail} : next[in] > in

\* Both lists, which the routines of freelists/ take over, are complete.
FreeListsComplete == FreeClustersListedOnce /\ InodesListedOnce

\* Unless the machine stops, mksofs ends: the device is installed or it fails.
Ends == <>(stage \in Stopped)

\* mksofs_SB.cpp:11-14: if something goes wrong during formatting the device
\* can never be mounted later on.
FailedFormatUnmountable ==
  stage \in {"failed", "crashed"} /\ (\E b \in DOMAIN blk : blk[b].kind = "inodes")
    => blk[0].kind # "volume"

\* mksofs_SB.cpp:90 drops a last reference cluster that is not needed, so all
\* of the crefs clusters belong to the list: following the last reference of
\* each from the head cluster one arrives at the tail cluster.
LinkedToTail ==
  stage = "done" /\ sb.crefs > 0 =>
    \A c \in 1 .. sb.crefs - 1 : RefAt(c, RefsPerCluster(sb.csize) - 1) = c + 1

\* mksofs_IT.cpp:16: inode 0, and only it, is in use, and describes the root.
RootInodeInUse == stage = "done" => blk[1].kind = "inodes"
=============================================================================
