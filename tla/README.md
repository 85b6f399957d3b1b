# SOFS16 in TLA+

SOFS16 is a small inode file system, mounted with FUSE, written in C++ in layers:

    mksofs                     formats a device
    sofsmount                  FUSE handlers, each under one mutex
      syscalls                 soMknod, soRename, soWrite, ...
        direntries             entries of a directory, path traversal
          filecluster          clusters of a file: direct, indirect, double indirect
            freelists          list of free inodes, list of free clusters
              dealers          superblock, inode table, cluster zone in memory
                rawdisk        blocks of the device

The TLA+ modules here model it layer by layer. TLC checks them on small instances; theorems about
the formatter, the lists of free inodes and of free clusters, the clusters of a file, directories, the
tree of names, the bytes of files and the mounted volume are proved with TLAPS for every value of the
constants.
`PROJECT.json` has, for every definition, the source lines it stands for. The routines of
`FreeClusters` that take the routine they call as a parameter (`AllocCluster`, `Deplete`,
`Replenish` and their parts) have the lines of `soAllocCluster`, `soDeplete` and `soReplenish`.

Paths below are relative to `src/src/`.

## Inventory

**mksofs** (`mksofs/`). State: the superblock in memory, the device. Operations: one stage after
the other (superblock computed, inode table, root directory, reference clusters, zeroed
clusters, superblock written). Hard: unsigned arithmetic at the edges (tiny devices, absurd inode
counts, free clusters that exactly fill their reference clusters); a write that fails, a
machine that stops between two writes. Correct when the regions tile the device and both free
lists are complete and agree with the superblock.

**Free inodes** (`freelists/alloc_inode.cpp`, `free_inode.cpp`). State: `ihead`, `itail`, `ifree`
in the superblock; a list threaded through the `next` field of free inodes, which in use is
`atime`. Operations: soAllocInode, soFreeInode. Hard: the order of three disk writes; head and
tail when the list is empty; memory against disk. Correct when no inode is handed out twice, the
list runs through every free inode, the counter agrees.

**Free clusters** (`freelists/*_cluster.cpp`, `replenish.cpp`, `deplete.cpp`). State: head cache,
tail cache (circular), a chain of reference clusters with an index into the head and the tail
cluster. Operations: soAllocCluster, soFreeCluster, which call soReplenish and soDeplete, which
call soDeplete and soAllocCluster. Hard: the nesting, with copies of clusters on the stack; empty
and full of a circular buffer; head and tail being one cluster. Correct when every free cluster
is listed once and no other is.

**File clusters** (`filecluster/`). State: `d[5]`, `i1[2]`, `i2`, `csize` of an open inode, and
reference clusters on disk. Operations: get, allocate, free from a position on, read, write.
Hard: ENOSPC between the two or three allocations of one call; early returns decided by a
running count of what is left. Correct when a cluster has one place, `csize` counts them, and
freeing frees what it should and nothing before.

**Directory entries** (`direntries/`, `syscalls/readdir.cpp`). State: an array of names and inode
numbers in the clusters of a file. Operations: get, add, delete (the last entry fills the gap),
rename, and the listing, one entry per FUSE call. Hard: five cases of delete; a listing with
changes in between. Correct when it is a partial function from names to inodes and a listing
shows what was there.

**System calls on names** (`syscalls/`: mknod, symlink, mkdir, link, unlink, rmdir, rename;
`direntries/traverse_path.cpp`). State: all of the above. Hard: a call that fails half way undoes
nothing. Correct when entries, reference counts and inodes in use agree and the directories are a
tree.

**System calls on data** (read, write, truncate, readlink). State: a file's size and clusters.
Operations: soRead, soWrite, soTruncate, soReadlink. Hard: the pieces of the first, middle and
last cluster; a write that runs out of space between two clusters; a size that grows by what is
overwritten; differences of lengths as signed words. Correct when what is read is what was written.

**Dealers** (`dealers/`). State: superblock, inode table and open counts in memory. Operations:
opening and closing the dealers; iOpen, iSave, iClose, iIncRefcount, iDecRefcount, sbSave. Hard: an
inode stays cached while its open count is not 0, exceptions leave counts up, unmounting saves
nothing, every call is a sequence of writes that may stop anywhere. Correct when a remount finds
what the calls have reported done.

**rawdisk** (blocks, clusters; errors), **core** (structures), **exception**: appear in the state
and answers of the models. **sofsmount** is the mutex that makes a call one step. **probing**
(log), **tools** (showblock, testtool), **lib** and **bin** (binaries without source, among them
soStat, soChmod, soAccess, soOpenFileSystem) are not modelled.

testtool calls each layer directly, so routines are modelled for more arguments than the layer above
passes: soFreeInode for any number, soFreeFileClusters from positions in every part, cluster numbers out of
range. Not for all: soFreeCluster is called for clusters somebody holds, and for numbers out of range;
soAllocFileCluster for positions without a cluster; file cluster `MaxClusters`, which the routines'
own test lets through, only where soTruncate passes it.

## Modules

| module | models | state ↔ code |
|---|---|---|
| `Format` | the layout mksofs computes | pure operators; word size a constant, subtraction modulo it |
| `Mksofs` | `main` and the `fillIn…` routines | `blk`: the device; `stage`, `k`: where main is; one step per block written |
| `MksofsProofs` | theorems about `Mksofs` and the operators of `Format` | |
| `InodePool` | what the two inode routines promise | a queue |
| `FreeInodes` | soAllocInode, soFreeInode, sbSave, mounting | `sb`, `dsb`: superblock in memory and on disk; `free`, `next`: INODE_FREE and the `next`/`atime` word |
| `FreeInodesCrash` | the same with crashes between the writes of a call | as above |
| `FreeInodesProofs` | theorems about `FreeInodes`, about its being an `InodePool`, and about crashes | |
| `FreeClusters` | the four cluster routines | `fl`: superblock fields and reference clusters |
| `FreeClustersProofs` | theorems about `FreeClusters` | |
| `FileClusters` | soGet/Alloc/FreeFileCluster(s) | `f`: inode fields, reference clusters, free set |
| `FileClustersProofs` | theorems about `FileClusters` | |
| `Directory` | what the entry routines promise | a partial function |
| `DirEntries` | the entry routines and soReaddir | `clus`, `size`: the array; `reader`: a listing |
| `DirEntriesProofs` | theorems about `DirEntries` | |
| `Namespace` | the seven calls on names | `type`, `refcount`, `dir`, `writable`, `pool` |
| `NamespaceProofs` | theorems about `Namespace` | |
| `ByteFile` | what soWrite and soTruncate promise | a partial function from positions to bytes |
| `FileData` | soRead, soWrite, soTruncate | `size`; `clus`: the file's clusters; `blind`: the positions behind a reference cluster that was linked and not written; `known`: the byte the last successful call left at a position |
| `FileDataProofs` | theorems about `FileData` | |
| `Dealers` | the dealers, and the parts of the free-list routines between two writes | pure operators on a volume: `sb`, `dsb`, `cache`, `count`, `disk` are psb, block 0, inode_table, count_table, the inode table on disk |
| `Volume` | the calls on files as sequences of dealer operations | `vol`: the volume with the cluster of the root directory; `call`, `todo`: the call being executed and what it has still to do |
| `VolumeProofs` | theorems about `Volume` and the operators of `Dealers` | |

`MC…` modules give values and symmetry sets for TLC. Composition is by abstraction: `Mksofs`
establishes what `FreeInodes` and `FreeClusters` start from (`FreeClusters` instantiates
`Format`); `FreeInodes` implements `InodePool` and `DirEntries` implements `Directory`, and
`Namespace` is built on the two abstract forms: inodes come from a set that, like the pool's
queue, never fills again once emptied, directories are partial functions. `FileData` implements
`ByteFile` and takes from `FileClusters` what its runs check: an allocation changes no other
cluster, a free takes none before its position and may leave some. Where `FileClusters` says
nothing, because an allocation has thrown half way or a loop reads past its array, `FileData` has
`blind` and `Ragged` (below).
`Volume` is the composition across the layers, `Dealers` under the calls of `syscalls/`: what the
other modules treat as one step is there a step per write.

How far the models go:

- A call is one step. sofsmount runs every call under `accessCR`; what interleaves is listings (one
  call per entry), crashes (`FreeInodesCrash`, `Mksofs`, `Volume`), exceptions and remounts. In
  `Volume` a call is a sequence of steps, none of which writes the disk more than once.
- `FreeClusters` ends after a call that reads or writes as head or tail cluster one that is none
  (`stray`), or that calls soReplenish inside soReplenish (`deep`: the inner one reads past the references
  of the head cluster; the smallest volume seen to do it has 30 clusters, with caches of three and five
  references per cluster); `FileClusters` when data is used that nobody wrote (`undefined`); `DirEntries` when
  soGetDirEntry finds the name behind its array (`overread`). What the program does then depends
  on data outside the model, so the properties are claimed up to that point.
- `FileClusters` takes free clusters from a set (the smallest member: which one makes no
  difference), so its properties do not depend on the faults of the list.
- In `DirEntries` ENOSPC may happen whenever a cluster is needed, and then the directory has not
  changed. So its properties are claimed of directories of at most `N_DIRECT` clusters, and of larger
  ones as long as no allocation has thrown half way. The tests of a name's letters and length are
  left out.
- In `FileData` an allocation may throw half way, with a reference cluster linked that nothing was
  written to (`alloc_filecluster.cpp:71`). What is behind it is `blind`: soGetFileCluster answers what the
  cluster held before. soRead then returns bytes of any cluster, or stops there (`Junk`, `Stop`); no
  byte the history knows is among them. A soWrite that comes to a blind position writes to
  whatever cluster is named there (the root directory's, number 0, on a device mksofs has zeroed), and
  a soTruncate that gets shorter counts down a `csize` that is short, and frees what it finds: both end
  the model (`WriteBlind`, `TruncateAstray`: `undefined`). So does a truncation that reads past its array
  (`free_fileclusters.cpp:157`), possible when a reference cluster of `i2` has none in its last place
  (`Ragged`), or to the length of the largest file, whose cluster lies past the references. What is
  claimed of a file is claimed until one of these happens to it, or its size is 2^31 (`huge`), and on the
  premise that no other file of the volume writes through such a reference cluster: it may hit
  clusters of any file. That soAllocCluster may answer NULL_REFERENCE (`free_clusters_null`) is a fault of
  the list and left out. A byte is a value that carries its buffer and the position it was
  written for; the bytes of a cluster just allocated are `Junk`.
- `Volume` has one directory of one cluster, files with one name and direct references. The lists of
  free inodes and clusters are sets in it; that a remount and a crash leave them lists is
  `FreeInodesCrash`. Its calls are those sofsmount passes on: the kernel has looked the name up.
- In `Namespace` directories may always be searched, calls that change nothing before they fail
  are no steps, and `Kernel` is what the Linux VFS refuses before soRename is called. Two paths of
  one directory are taken to be one path.

## Runs

Every passing run explores its instance completely. Each module has a type invariant `TypeOK`. In
`FreeInodes`, where it is proved, it is a property of its own; in the other modules it is the first
conjunct of a structural invariant: `RegionsTile`, `ListedOnce`, `Exclusive`, `Packed`, `NoDangling`,
`SizeCovers`, `NamesInUse`.

| run | shows | bounds and why they suffice |
|---|---|---|
| `mksofs` | an installed device is consistent; the formatter ends | devices of 8 to 20 blocks, 0 to 40 inodes asked for, 1 to 3 blocks per cluster, 2 inodes and 3 references per block, 6-bit words: no, one, two, three reference clusters, partly and exactly filled, and inode tables bigger than the device |
| `free_inodes` | the list is sound until emptied once; no double allocation; implements `InodePool` | five inodes: lists of 0 to 4, every order |
| `free_inodes_crash` | a crash inside a call loses inodes but never hands one out that is held | five inodes |
| `free_clusters` | no cluster twice in the list, none both listed and used, counter never too high, no double allocation | eight clusters, caches of two, four references per cluster: the chain grows and shrinks between 0 and 2 clusters and all nested calls happen |
| `file_clusters` | a cluster has one place; none drops out; `csize`; a free keeps what is before it | one direct, two indirect, one double indirect reference, two references per cluster, positions in each part; seven clusters, so calls run out half way |
| `dir_entries` | packed array, names once, listings, implements `Directory` | clusters of three entries (first, middle, last place), up to five entries, six names so that one is always missing |
| `namespace` | which inodes can be named, unreachable, wrongly counted | root and two inodes, three names, clusters of two entries, reference counts up to 3, one directory at a time without write permission: moves between two directories, replaced targets, second names, both limits |
| `file_data` | what is read back is what was written; the size covers the bytes written; implements `ByteFile` | seven clusters of two bytes, one direct, two behind `i1`, four in the two blocks behind `i2`; three writes (through all three kinds, over part of the first, and one that leaves holes before it), two lengths, sizes modulo 32: ENOSPC at every cluster, also half way in either block and in `i2`, writes and truncations after it, blocks without a last reference, lengths that differ by more than half a word |
| `volume` | on disk no name of a free inode, no shared cluster, no name lost, but for two windows of a crash; what an unmount can lose | root and two files in one block of the inode table, two clusters, two names, a directory of three entries, one handle left open per inode when a call begins: every call runs out of inodes, clusters and entries, with another file cached and unsaved in the same block |
| `free_inodes_listed` | a freed inode is not listed (violation) | as `free_inodes` |
| `free_clusters_null` | soAllocCluster answers NULL_REFERENCE: soReplenish gives the last reference cluster up and moves nothing (violation) | as `free_clusters` |
| `namespace_unlink` | soUnlink leaves the entry (violation) | two inodes, two names |

Deadlock is checked where the system may not stop (`free_inodes`, `free_inodes_crash`,
`namespace`, `volume`). It is off in `Mksofs` (a formatter ends), in `FreeClusters`, `FileClusters`,
`DirEntries` and `FileData` (they end at the point described above).

`dir_entries` uses a VIEW without the last answer, on which nothing depends, and symmetry in names
and inodes; `namespace` symmetry in names and in the inodes beside the root; `file_data` in
buffers; `volume` in names.

Fairness appears once: `WF_vars(Main)` in `Mksofs`. mksofs is one process that nothing waits for,
so it goes on as long as the machine does; a crash is a state of its own. No other module has
fairness: a file system need not be called.

The histories of `Namespace` say precisely what the calls do wrong, and the invariants that nothing
else goes wrong. `linked`: inodes that soLink named twice. `lost`: inodes taken by a creation that
failed (soMknod, soMkdir, soSymlink on ENOSPC; soMkdir always when the mode has no write
permission, since it sets the mode before it adds ".") and inodes whose name soRename replaced.
`half`: directories left with a wrong ".." or count (soRmdir in a parent that may not be written;
soRename of a directory that may not be written, or over a directory; a count at its limit).

The histories of `Volume` mark the two windows in which a crash does harm. `torn`: soTruncate has
saved the superblock with the freed clusters and not the inode that still refers to them; the
next file gets a cluster of this one. soUnlink has no such window, because the name goes first.
`stale`: soMknod, soSymlink, soUnlink or soRename has written the cluster of the directory and
not its size; the next entry overwrites one, or leaves a gap that a listing stops at. A rename can
then leave a file with two names and one link: soAddDirEntry finds the new name behind the size, or
its place taken, when the old one is deleted or still there; soUnlink of one of the names gives
the inode back, and the other names a free inode, later another file. Outside these windows
`NamesInUse`, `NoShare` and `NameKept` hold through every crash, exception and unmount. (The run has
two names, with which the second window does less than it can; three files, three names and a
directory of four entries show it, in an instance whose exploration takes longer than a run here
should.) What keeps a failed
soWrite from doing harm is that its inode stays cached: the clusters it was given are lost for the
volume when it is unmounted (`UnsavedOnlyAdds` says that nothing else is), and saved with the next
call that succeeds on the same file.

`FileData` shows why the size can grow by what is overwritten and reads still work: the size is
never below the number of bytes written (`SizeCovers`), and soRead compares it with counts only, so
a read of bytes that were written is never cut short (`ReadsAll`).

## What the code does not keep

Besides the three statements that runs refute, these are defined in the modules and violated. Each
can be seen by putting it into the configuration of the passing run in place of its properties.

| statement | module | the code |
|---|---|---|
| `FailedFormatUnmountable` | `Mksofs` | mksofs_SB.cpp:12 wants the magic number unset until the format is complete; block 0 is only written at the end, so that of the earlier volume stays (`mksofs_SB.cpp:21`, `mksofs_main.cpp:185`) |
| `FreesAll` | `FileClusters`, 11 clusters | filecluster.h:46 says that all clusters from a position on are freed; the routine returns after the first reference cluster it has emptied (`free_fileclusters.cpp:123`) |
| `UnmountSaves` | `Volume` | itdealer.h:39 says that closing the dealer saves all open inodes; it saves none (`itdealer.cpp:36`) |
| `ReadStopsAtEnd` | `FileData` | a read of more than the file holds answers one byte more than its size, from every position (`read.cpp:91`) |
| `LinkedToTail` | `Mksofs` | the last reference cluster, when empty, is counted and not linked (`mksofs_FCT.cpp:25`) |
| `RootInodeInUse` | `Mksofs` with `Devices <- MCTinyDevices` | below 8 blocks the inode table has no block (`mksofs_main.cpp:140`) |
| `AccessTimeKept` | `FreeInodes` | a stale tail's `atime` is overwritten (`free_inode.cpp:51`) |
| `HeadIsReferenceCluster` | `FreeClusters` | soReplenish takes the link from a stale copy (`replenish.cpp:115`) |
| `EveryClusterAccounted` | `FreeClusters` | the number of an emptied reference cluster overwrites a reference of a full tail cache (`replenish.cpp:101`) |
| `DataUntouched`, a part of `KeptApart` | `FreeClusters` with `Byte = 4` | the number of the head cluster goes through a `uint8_t` (`replenish.cpp:34`); the run `free_clusters` has `Byte` above every cluster number, and nothing is truncated in it |
| `HeadClusterCleared` | `FreeClusters` | soDeplete writes a stale copy back (`deplete.cpp:57`) |
| `NullNotWritten` | `FileClusters` | freeing the last cluster writes cluster NULL_REFERENCE (`free_fileclusters.cpp:95`) |
| `Defined` | `FileClusters`, 11 clusters | a loop tests the other loop's index (`free_fileclusters.cpp:157`) |
| `KeepsPrefix` without `~ f.short` | `FileClusters` | `csize` short after ENOSPC makes a free go too far (`alloc_filecluster.cpp:73`) |

## Proofs

Every theorem is about the specification that the run of its module checks, for every value of the
constants that the module's assumption admits. What is proved of each passing run:

| run | proved | left to TLC |
|---|---|---|
| `mksofs` | `RegionsTile`, `FreeListsComplete` | `Ends` |
| `free_inodes` | all: `TypeOK`, `ListSound`, `NeverOvercounts`, `HeldIsInUse`, `DiskIsCurrent`, `NoDoubleAlloc`, `PoolSpec` | |
| `free_inodes_crash` | all: `HeldNotFree`, `NoDoubleAlloc` | |
| `dir_entries` | all: `Packed`, `NamesOnce`, `ListsAll`, `ListsOnce`, `DirectorySpec` | |
| `namespace` | all: `NoDangling`, `OneName`, `ParentIsParent`, `CountsNames`, `NothingElseLost` | |
| `file_data` | all: `ReadsBack`, `SizeCovers`, `ReadsAll`, `ByteFileSpec` | |
| `file_clusters` | all: `Exclusive`, `NothingLost`, `CountExact`, `AllocOnly`, `KeepsPrefix` | |
| `volume` | all: `NamesInUse`, `NoShare`, `UnsavedOnlyAdds`, `LastCloseSaved`, `NameKept` | |
| `free_clusters` | `NeverOvercounts`, `NoDoubleAlloc`; `ListedOnce` and `KeptApart` on volumes of fewer clusters than `Byte`, and on all until a call is `stray` | |

Each proof has the same frame: an inductive invariant, a lemma that the initial states have it, one
lemma per action, and a last step by PTL. Every such invariant was first checked by TLC on the run
of its module. What follows is why each is needed.

**The formatter** (`MksofsProofs`). From `FormatAssumption` and `MksofsAssumption`, of which one part
is about the code's widths: an inode table as large as the device counts its inodes in a word
(rawdisk, whose byte offsets are ints, cannot reach a larger device). `IInv` says what is on the
device when main has come to a stage, block by block, and grows by one claim per stage. The heart is
`SuperblockSound`: the superblock is computed with unsigned subtractions that may wrap, and nothing
tests it; but once the inode table and the root directory have been *written*, which fails beyond
the device, no subtraction has wrapped, the regions add up to the device, there are as many
reference clusters as their lists need, and the tail index is the number of references in the last
one, in all cases of mksofs_SB.cpp:90-103; the first of them never happens. Positions of the
list and free clusters are then matched one to one by division with remainder (`NumberBelow`,
`PositionOf`, `NumberOnce`), which gives `Cardinality` its meaning. `FreeListsWritten` has a hypothesis,
`TableNeeded`: inodes are asked for, or the device has the eight blocks from which main's own
choice is not zero. Without it the statement is false (`RootInodeInUse` above).

**The list of free inodes** (`FreeInodesProofs`). From `FreeInodesAssumption` alone (there are at least
two inodes; NULL_REFERENCE and times are no inode numbers). `IInv` is the conjunction of the
properties with `TailIsInode` and `RootInUse`. None is
inductive alone: that an allocation leaves the list sound needs the head to be a free inode, which
is `ListSound`; that a free does needs the tail to be an inode (the code writes to it without a
test) and the freed inode not to be in the list, which are `TailIsInode` and `HeldIsInUse`; that the
counter stays below the number of free inodes when the list is gone needs `NeverOvercounts` of the
superblock on disk too, since a remount brings it back. `ListSound` says that there is an order of
all free inodes that the links follow; the witness after an allocation is the old order without
its first (`AllocatedList`), after a free the old order with the freed inode at its end
(`FreedList`).

**The list as a queue** (`FreeInodesProofs`). The refinement of `InodePool` maps the list to *the*
order of the free inodes, by CHOOSE. So what a step needs is that there is only one such order
(`OneList`): two lists that follow the same links from the same head agree up to the first place
where they differ, and there is none. That is the least-number principle (`SmallestOf`), which needs
no induction over an operator and comes from well-foundedness of the natural numbers. Once the list
has been emptied, the mapping is a pool that stays empty for good.

**Crashes** (`FreeInodesProofs`). `ListSound` does not survive a crash inside a call, so the
invariant is another one, `CInv`: the list is in one of three shapes. `Whole`: it runs from `ihead` to
`itail` through inodes nobody holds, and may go on by one inode that soFreeInode had appended when the
machine stopped. `Cut`: the head is the last inode it will give, because the word behind it is no
inode. `Dead`: the head is no inode. Every call, every crash at every write, and every remount leads from
one to another, and in none does an allocation reach an inode that somebody holds. That inodes get
lost meanwhile is the price, and is not excluded.

**Entries of a directory** (`DirEntriesProofs`). From `DirEntriesAssumption`. The clusters are read as
one table from place 0 to `size` (`Table`); two arithmetic lemmas say which cluster a place is in and
when a place is the first of its cluster. On the table each routine does one thing: `AfterDelete`,
whose five cases distinguish where the entry and the last one are, is one move of the last entry
and one drop of the last place, with its cluster if that was its first (`AfterDeleteLast`,
`AfterDeleteOther`). `IInv` says that the clusters are packed, the table has every name once, and of a
listing that what it has listed is before its position and what is due is not. The last is what
makes `ListsOnce` and `ListsAll` inductive: delete moves an entry only to the front, so a listed
entry stays before the position, and a due one is moved over it only by a delete that takes it off
the debt. The refinement maps the table to the function from its names to their inodes (`Entries`).

**The tree of names** (`NamespaceProofs`). From `NamespaceAssumption`; that inodes and names are finite
is part of it (the inode table has an end, a name fits its field) and `CountsNames` needs it,
since it counts. There are three invariants.
- `IInv`: `Tree`, that only directories have entries, no name leads to the root or, but for linked
  inodes, to a free inode, and no two names to one inode. The two last need each other: taking a name
  away frees an inode, and no other name may then lead to it.
- `FullInv`: as long as nothing is linked, also `Parents` and `Counts`. A step to a state without
  links starts in one, so the condition costs nothing. Counts change by one when a directory comes
  or goes among the names of another; what soRename, soRmdir and a full disk get wrong is in
  `half` and `lost`, and the proof shows that these histories leave nothing out.
- `ReachInv`: reachability as a statement about all closed sets: whatever set contains the root and
  the lost inodes and is closed under names contains every inode in use. `From` is defined as the
  least such set, so that no induction along paths is needed. That an empty directory is removed
  only, and that a directory is not moved below itself, is what keeps it.

**Bytes of a file** (`FileDataProofs`). From `FileDataAssumption` (clusters are not empty, there are
references of each kind, a word counts the largest file twice, a caller's byte is neither of the two
special ones). Three layers:

- Arithmetic: a position is one cluster and one offset (`DivMod`, `DivModUnique`, `DivMonotone`), from
  which `WritePiece` and `ReadPiece` say that soWrite and soRead, each with its own three cases and
  its own formula for the length of a piece, copy in cluster `i` exactly the offsets of the span asked
  for that lie in it.
- The invariant. `ReadsBack` is about all reads and not inductive; `KnownStored` is: each byte the
  history knows is in the cluster and at the offset where soRead looks. `SizeSmall` says that a
  size whose difference from a length looks positive to soTruncate has been noticed (`huge`), so
  that a truncation to a shorter length is never taken for a longer one. `Covered`, that the bytes
  written are no more than `size`, is inductive with these two: a write adds at most its count.
  That `blind` positions have no cluster of the file is part of `TypeOK`. With it a read that goes
  through blind positions, and wherever it stops there, shows no wrong byte at a known position.
- The refinement: the bytes that are not `Junk`, as a function of the position. A write is a write
  of its whole buffer; one that got no cluster `k` is a write of the bytes before `k`.

What the theorems take from elsewhere is the interface of `FileClusters` that the actions of `FileData`
state: `AllocOnly` and `KeepsPrefix`, which are theorems of the next module. What they say they say
of a file until `undefined` or, for the reads, `huge` (see "How far the models go").

**The clusters of a file** (`FileClustersProofs`). From `FileClustersAssumption` (every array of
references has at least one, there is a cluster). `i1`, `i2` and the reference clusters are seen as
one tree: a place is a node and a position in it, `Holds` says that there is a reference, `At` which.
Then a routine does one of two things. soAllocFileCluster links a free cluster at an empty place, up to
three times (`Links`); soFreeFileClusters cuts a set of places off, with what is below them, and frees
what they named (`Cut`). What both do to each part of the invariant is shown once, for any place and any
set.

`IInv` has four parts. `Sound`: a cluster is at one place or free, never both, never at two, and a free
one holds no references (or it would bring a tree with it when it is linked). `Counts`: `csize` is the
number of the places that count. `CountExact` is too weak to be inductive, because it says
nothing once an allocation has thrown half way, and soFreeFileClusters stops by `csize` in those states
too; so `Counts` says which places do not count then. `Whole` and `Complete` hold until that: every
reference cluster linked is written, every cluster is free or has a place.

The loops of soFreeFileClusters go over all references and stop when `csize` runs out. So what has to be
shown is that it does not run out too early, freeing less than is claimed or leaving a reference to a
freed cluster behind. `Loop1` and `Loop2` say that the running count is at least the number of places not
yet seen (`Rest1`, `Rest2`), that the state, with the copy of the `i2` cluster on the stack written
back, is the file at the call with places cut off that are not before the position (`Going`), and, in the
second loop, that it returns early only in the cases `LastErased` and `LastTop`; or else that it has
used data nobody wrote (`Stuck`), where the model ends. The two loops are recursive functions
in the model. That there are such functions, and that each round has the invariant, is shown
by the least index at which it fails (`SmallestOf`, from well-foundedness of the natural numbers), so
that no induction over an operator is needed. The last part turns the sets the properties are written with
(`Used`, `InRefClusters`, the sums of cardinalities) into places by bijections.

**The mounted volume** (`VolumeProofs`). From `DealersAssumption` (inodes and clusters are numbers, the
clusters finitely many) and `VolumeAssumption` (the cluster of the directory holds an entry). A call
is a program, `todo` what is left of it, and the proof is one of a program: `IInv` annotates each
place in each call with what the next operation finds. So the programs are named from their end to
their beginning (`Save(in, t)` is a save, a close and then `t`), the annotations say which of them
`todo` is, and every lemma `Step...` shows that an operation leads from one annotation to the next.
What holds everywhere is `Fit`: the entries are the first of the cluster, as many as the size says,
none with a name or inode of another (`Listed`); an inode with a name is in use on the disk and in
memory, and in neither superblock among the free (`Taken`); its clusters are its own and not free
(`Private`), and those the disk knows are in memory too (`Adds`). What makes it inductive is a way of
looking: an inode is what the calls see of it, the cached one if it is open and the one on the
disk if not (`Inodes`). Opening a handle does not change that, nor does closing one if the inode is
saved, which is why `LastCloseSaved` is not a property beside the others but what they rest on. The
annotations carry the rest: soUnlink gives an inode back when it is not `Linked` any more, soMknod
links one that is `Taken` and saved, soTruncate is the one call during which `Adds` fails, and an
exception (`ThrowMake`, `ThrowMove`, `ThrowRest`) is possible only where nothing but added clusters
is unsaved. A crash needs one lemma, `FitMount`: all that `Fit` says of memory holds of the disk, but
for the two windows, which are `torn` and `stale`. That soUnlink has none is seen in it: between the
first cluster freed and the inode given back, the file is not linked.

**The list of free clusters** (`FreeClustersProofs`). From `FreeClustersAssumption` (a cache has at least
two slots, a reference cluster is longer than a cache, words number the clusters). soReplenish
calls soDeplete, that soAllocCluster, and that would call soReplenish again, each with copies of clusters
on its stack. So for each routine a lemma first says what it does to every field, with what the
routine it calls may have done as a parameter (`...Is`, `...Type`); each invariant is then
shown for soReplenish and soDeplete alone, for each called by the other, and for the two calls. There are
three invariants, each built on the one before.

- `Counted`, the ranges and the counters. `cfree + crefs` never grows but by the cluster that
  soFreeCluster is given; `NeverOvercounts` is what keeps them within the volume.
- `Placed`: until a call is `stray`, every cluster is in one place: a slot of a cache, a position of a
  reference cluster from the index on, in use, or in the chain (`Sound`). `ListedOnce` and the first half of
  `KeptApart` are parts of it, and none of them is inductive without the others: a
  reference that soReplenish moves must not be one that is also in the tail cache, and the
  cluster the chain is extended by must not be one that a file holds. In the middle of soDeplete the
  tail cluster exists twice, on disk and in the routine's array, and soAllocCluster may take references
  out of the one on disk; neither may list anything that is elsewhere (`Buffered`, and `Instead` when the
  array is written back). What makes that work is `Quiet`: a soReplenish below soDeplete does not
  deplete again, because soDeplete has moved the reference at `out` already, or the cache is full and
  soReplenish's own test (`replenish.cpp:101`) keeps it from calling. `NoDoubleAlloc`
  needs to say something of the `stray` calls too: a head cluster that is none
  holds no references (`Trusted`), so nothing in use can come from it.
- `Kept`: the chain is in order. From the head cluster the links lead through a set of reference clusters,
  no two to the same one and none back to the head, and end at the tail cluster, which is `crefs - 1` links
  away, or the tail cluster is not among them (`InOrder`). There is a set and a distance of each of its
  clusters from the end, so no path has to be followed. The distance says that the head is the tail just when
  `crefs` is 1, and the routines compare their numbers with `<` (`replenish.cpp:76`); that a head
  numbered above the tail is taken for the end of the chain loses what lies between, and the second
  alternative stands for what is left. It follows that head and tail are reference clusters, or NULL_REFERENCE,
  or taken off the chain by this very call, so that no call touches a cluster of a file.

`Kept` has the hypothesis `CTotal < Byte`, as soReplenish has the head's number in a `uint8_t`
(`replenish.cpp:34`). It cannot be dropped: with `Byte = 4` TLC finds the call that reads another cluster
(`DataUntouched` above). On larger volumes `ListedApart` holds, up to the first such call. A volume of one
cluster is a case of its own: mksofs numbers its head cluster 1, and nothing can be allocated or freed.

Only model-checked: `Ends`, since the prover handles neither fairness nor ENABLED. The modules have no
RECURSIVE operators. Where a recursive function is
reasoned about (the loops of `FileClusters`) or a list is compared with another, the proof takes the least
counterexample over a number, which first-order provers can instantiate.

## Not modelled

- Seen while reading, without a model: soLink takes the directory of the new name from the old path
  (`link.cpp:45`; `Namespace` does the same). soReadlink refuses buffers smaller than a cluster and
  copies past its own for larger ones (`readlink.cpp`), and sofs_readlink answers 0 whatever it
  returns (`sofsmount.cpp:736`). soSymlink copies a path longer than a cluster past its buffer
  (`symlink.cpp:65`). Names of 62 letters (`symlink.cpp:57`).
- Widths: soGetMaxFileSize exceeds 32 bits from eight blocks per cluster on (`czdealer.cpp:75`);
  `FileDataAssumption`, which wants twice the largest size to fit in a word, leaves out seven as well;
  rawdisk computes the byte offset of a block in an int (`rawdisk.cpp:95`), sofsmount casts positions
  and counts to 32 bits (`sofsmount.cpp:435`). The models have them only as the word of `FileData` and
  of `Format`.
- Crashes in soMkdir, soRmdir, soLink and in moves between directories: `Volume` has one directory.
- Reference clusters in `Volume`: they are written as they change, and their loss is `FileClusters`.
- stat, chmod, chown, access, open and the like: in the binary library only.
- Printing tools, probing, options.

## Plan

Done: `Format`, `Mksofs`, `FreeInodes` with crashes, `FileClusters`, `DirEntries`, `Namespace`,
`FileData`, `Volume`, `FreeClusters`, each with proofs.

What could come next: how few free clusters a list whose chain was cut can still give out (`FreeClusters`),
crashes in calls on two directories (`Volume`), and a composition of `FileClusters` with the list.
