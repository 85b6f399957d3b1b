------------------------------- MODULE Volume -------------------------------
(***************************************************************************)
(* A mounted volume with one directory: the system calls as sequences of    *)
(* dealer operations and disk writes, the exception that abandons the rest  *)
(* of one, the machine that stops between two of them, and the unmount that *)
(* saves nothing.                                                            *)
(*                                                                         *)
(* An exception leaves the handles opened so far open: their inodes stay     *)
(* cached, changes and all, for as long as the mount lasts.                  *)
(*                                                                         *)
(* The directory is the root, with its entries in one cluster; "." and ".."  *)
(* are left out.  An entry that would need a second cluster finds no space.  *)
(* Files have one name (what soLink does is in Namespace), and only direct   *)
(* references: reference clusters are on the disk as soon as they change.    *)
(***************************************************************************)
EXTENDS Dealers, Sequences

CONSTANTS
  Name,
  DPC,       \* entries in the cluster
  NoEntry,   \* an empty entry
  MaxOpen    \* bound: no call is made on an inode with more handles left open

VARIABLES
  vol,     \* the volume
  call,    \* the system call being executed, or "none"
  todo,    \* the operations it has still to do
  torn,    \* history: the machine has stopped in soTruncate, the inode not saved yet
  stale    \* history: it has stopped with the directory's inode not saved yet

vars == <<vol, call, todo, torn, stale>>

Slot == 0 .. DPC - 1
File == Inode \ {Root}

ASSUME VolumeAssumption ==
  /\ DPC \in Nat \ {0} /\ MaxOpen \in Nat
  /\ NoEntry \notin [name : Name, in : File]

Init ==
  /\ vol = LET sb == [ifree |-> File, cfree |-> Cluster] IN
           [ sb |-> sb, dsb |-> sb,
             cache |-> [i \in Inode |-> Blank], count |-> [i \in Inode |-> 0],
             disk |-> [i \in Inode |-> IF i = Root THEN Blank ELSE [Blank EXCEPT !.free = TRUE]],
             dir |-> [s \in Slot |-> NoEntry] ]
  /\ call = "none" /\ todo = <<>>
  /\ torn = FALSE /\ stale = FALSE

-----------------------------------------------------------------------------
(* Entries.  soGetDirEntry looks at as many as the size says, soDeleteDirEntry *)
(* at all of the cluster.                                                     *)

\* An inode as the calls see it.
Inodes(z) == [i \in Inode |-> IF z.count[i] > 0 THEN z.cache[i] ELSE z.disk[i]]

\* Changed since it was read or saved.
Unsaved(in) == Inodes(vol)[in] # vol.disk[in]

\* What soGetDirEntry finds with the inodes f.
Visible(z, f) == {z.dir[s] : s \in {r \in Slot : r < f[Root].size}} \ {NoEntry}
Entries(z) == Visible(z, Inodes(z))

\* soAddDirEntry writes where the size says.
AddDirEntry(z, e) ==
  [z EXCEPT !.dir[z.cache[Root].size] = e, !.cache[Root].size = @ + 1]

Holding(z, n) == {s \in Slot : z.dir[s] # NoEntry /\ z.dir[s].name = n}
Least(S) == CHOOSE s \in S : \A r \in S : s <= r
Greatest(S) == CHOOSE s \in S : \A r \in S : r <= s

\* The last entry takes the place of the one deleted, unless the next is empty.
DeleteDirEntry(z, n) ==
  LET i == Least(Holding(z, n))
      last == Greatest({s \in Slot : z.dir[s] # NoEntry})
      alone == i = DPC - 1 \/ z.dir[i + 1] = NoEntry
  IN  [z EXCEPT !.dir = IF alone THEN [@ EXCEPT ![i] = NoEntry]
                        ELSE [@ EXCEPT ![i] = z.dir[last], ![last] = NoEntry],
                !.cache[Root].size = @ - 1]

-----------------------------------------------------------------------------
(* The operations calls are made of.  Each writes the disk at most once.      *)
Op(do, in) == [do |-> do, in |-> in, name |-> NoEntry]
Named(do, n, in) == [do |-> do, in |-> in, name |-> n]

\* Whether it throws.
Throws(z, op) ==
  \/ op.do \in {"save", "close", "inc", "dec"} /\ NotOpen(z, op.in)
  \/ op.do = "take" /\ z.sb.ifree = {}
  \/ op.do = "alloc" /\ z.sb.cfree = {}
  \/ op.do = "add" /\ \/ z.cache[Root].size >= DPC
                      \/ \E e \in Entries(z) : e.name = op.name
  \/ op.do = "delete" /\ Holding(z, op.name) = {}

Do(z, op) ==
  CASE op.do = "open" -> iOpen(z, op.in)
    [] op.do = "save" -> iSave(z, op.in)
    [] op.do = "close" -> iClose(z, op.in)
    [] op.do = "inc" -> iIncRefcount(z, op.in)
    [] op.do = "dec" -> iDecRefcount(z, op.in)
    [] op.do = "sbsave" -> sbSave(z)
    [] op.do = "take" -> TakeInode(z, op.in)
    [] op.do = "give" -> GiveInode(z, op.in)
    [] op.do = "alloc" -> AllocCluster(z, op.in)
    [] op.do = "free" -> FreeCluster(z, op.in)
    [] op.do = "add" -> AddDirEntry(z, [name |-> op.name, in |-> op.in])
    [] op.do = "delete" -> DeleteDirEntry(z, op.name)

SaveClose(in) == <<Op("save", in), Op("close", in)>>
soAllocInode(in) == <<Op("take", in), Op("save", in), Op("sbsave", in), Op("close", in)>>
soFreeInode(in) == <<Op("give", in), Op("save", in), Op("sbsave", in), Op("close", in)>>
soFreeFileClusters(in) ==
  [k \in 1 .. Cardinality(Inodes(vol)[in].refs) |-> Op("free", in)]

-----------------------------------------------------------------------------
(* The calls, for an inode or a name that is there, or is not, as sofsmount   *)
(* has found out before it calls.                                             *)

\* A mutant: the directory is not saved.
MknodDirUnsaved(n, in) ==
  <<Op("open", Root)>> \o soAllocInode(in)
  \o <<Op("open", in), Op("save", in), Named("add", n, in), Op("inc", in)>>
  \o SaveClose(in) \o <<Op("close", Root)>>
\* iSetAccess saves the inode, and so do those below.
Mknod(n, in) ==
  <<Op("open", Root)>> \o soAllocInode(in)
  \o <<Op("open", in), Op("save", in), Named("add", n, in), Op("inc", in)>>
  \o SaveClose(in) \o SaveClose(Root)

Symlink(n, in) ==
  <<Op("open", Root)>> \o soAllocInode(in)
  \o <<Op("open", in), Op("save", in), Op("inc", in), Op("alloc", in), Named("add", n, in)>>
  \o SaveClose(in) \o SaveClose(Root)

\* A mutant: the inode is given back before its name is gone.
UnlinkInodeFirst(n, in) ==
  <<Op("open", Root), Op("open", in), Op("dec", in)>>
  \o soFreeFileClusters(in) \o soFreeInode(in) \o <<Named("delete", n, in)>>
  \o SaveClose(in) \o SaveClose(Root)
Unlink(n, in) ==
  <<Op("open", Root), Op("open", in), Op("dec", in), Named("delete", n, in)>>
  \o soFreeFileClusters(in) \o soFreeInode(in)
  \o SaveClose(in) \o SaveClose(Root)

\* Within the directory; new may be there, and its inode is not given back.
Rename(n, new, in) ==
  <<Op("open", Root), Op("open", Root)>>
  \o (IF \E e \in Entries(vol) : e.name = new THEN <<Named("delete", new, in)>> ELSE <<>>)
  \o <<Named("delete", n, in), Named("add", new, in), Op("open", in)>>
  \o <<Op("save", Root), Op("save", Root), Op("save", in)>>
  \o <<Op("close", Root), Op("close", Root), Op("close", in)>>

\* soWrite where k clusters of the file are missing.
Write(in, k) == <<Op("open", in)>> \o [j \in 1 .. k |-> Op("alloc", in)] \o SaveClose(in)

\* A mutant: returns with the inode neither saved nor closed.
TruncateReturns(in) == <<Op("open", in)>> \o Tail(soFreeFileClusters(in))
\* soTruncate to less than a cluster: all clusters but one go.
Truncate(in) == <<Op("open", in)>> \o Tail(soFreeFileClusters(in)) \o SaveClose(in)

\* soRead, and every call that is refused, saves the inodes it has opened.
Read(in) == <<Op("open", in)>> \o SaveClose(in)

\* A call begins.
Calls(name, ops) ==
  /\ call = "none"
  /\ \A in \in Inode : vol.count[in] <= MaxOpen
  /\ call' = name /\ todo' = ops
  /\ UNCHANGED <<vol, torn, stale>>

Call ==
  \/ \E n \in Name, in \in File :
       /\ ~ \E e \in Entries(vol) : e.name = n
       /\ vol.sb.ifree # {} => in \in vol.sb.ifree
       /\ Calls("mknod", Mknod(n, in)) \/ Calls("symlink", Symlink(n, in))
  \/ \E e \in Entries(vol) :
       \/ Calls("unlink", Unlink(e.name, e.in))
       \/ \E new \in Name \ {e.name} : Calls("rename", Rename(e.name, new, e.in))
       \/ \E k \in 1 .. 2 : Calls("write", Write(e.in, k))
       \/ Inodes(vol)[e.in].refs # {} /\ Calls("truncate", Truncate(e.in))
       \/ Calls("read", Read(e.in))

\* A call goes on.
Step ==
  /\ call # "none" /\ ~ Throws(vol, Head(todo))
  /\ vol' = Do(vol, Head(todo))
  /\ todo' = Tail(todo)
  /\ call' = IF Tail(todo) = <<>> THEN "none" ELSE call
  /\ UNCHANGED <<torn, stale>>

\* A call ends with the error it has caught.
Catch ==
  /\ call # "none" /\ Throws(vol, Head(todo))
  /\ todo' = <<>> /\ call' = "none"
  /\ UNCHANGED <<vol, torn, stale>>

\* sofs_unmount and sofs_mount.
Remount ==
  /\ call = "none"
  /\ vol' = Mounted(vol)
  /\ UNCHANGED <<call, todo, torn, stale>>

\* The machine stops, or the process does, and the volume is mounted again.
Crash ==
  /\ call # "none"
  /\ vol' = Mounted(vol)
  /\ call' = "none" /\ todo' = <<>>
  /\ torn' = (torn \/ (call = "truncate" /\ \E i \in File : Unsaved(i)))
  /\ stale' = (stale \/ Unsaved(Root))

Next == Call \/ Step \/ Catch \/ Remount \/ Crash

Spec == Init /\ [][Next]_vars

-----------------------------------------------------------------------------
InodeType == [free : BOOLEAN, refs : SUBSET Cluster, refcount : 0 .. 1, size : 0 .. DPC]

TypeOK ==
  /\ vol.sb \in Superblock /\ vol.dsb \in Superblock
  /\ \A i \in Inode : /\ vol.cache[i] \in InodeType /\ vol.disk[i] \in InodeType
                      /\ vol.count[i] \in Nat
  /\ \A s \in Slot : vol.dir[s] = NoEntry \/ vol.dir[s] \in [name : Name, in : File]
  /\ (call = "none") = (todo = <<>>)
  /\ torn \in BOOLEAN /\ stale \in BOOLEAN

(* An entry on the disk names an inode that is in use on the disk, whatever   *)
(* call is half way and wherever the machine has stopped before, but for one  *)
(* place: between the write of a directory's cluster and the save of its      *)
(* inode.  From then on its size is wrong, entries past it are not looked at, *)
(* and a rename can leave a file with two names and one link, which soUnlink  *)
(* then gives back while the other name is still there.                       *)
NamesInUse ==
  /\ TypeOK
  /\ ~ stale => \A s \in Slot : vol.dir[s] # NoEntry => ~ vol.disk[vol.dir[s].in].free

(* Files do not share clusters, and none of theirs is free: neither now nor,  *)
(* the handles left open by exceptions having been forgotten, after the next  *)
(* mount.  A machine that stops in soTruncate, which frees the clusters       *)
(* before it saves the inode, ends that, and so does one that leaves a file   *)
(* two names.                                                                 *)
Apart(f, sb) ==
  LET named == {e.in : e \in Visible(vol, f)} IN
  \A i \in named : /\ f[i].refs \cap sb.cfree = {}
                   /\ \A j \in named \ {i} : f[i].refs \cap f[j].refs = {}
NoShare ==
  call = "none" /\ ~ torn /\ ~ stale =>
    Apart(Inodes(vol), vol.sb) /\ Apart(vol.disk, vol.dsb)

(* Between calls, all there is in memory and not on the disk is clusters that *)
(* a failed soWrite or soSymlink has added: the unmount, which saves nothing, *)
(* never loses anything a call has reported done, nor a free cluster.  (The   *)
(* count a failed soAllocInode takes is in FreeInodes: DiskIsCurrent.)  Where *)
(* the size of the directory is wrong, the entry soRename adds can find its   *)
(* place taken, and the removal of the old one stays unsaved.                 *)
UnsavedOnlyAdds ==
  call = "none" =>
    /\ vol.sb = vol.dsb
    /\ ~ stale => Inodes(vol)[Root] = vol.disk[Root]
    /\ \A i \in File : vol.disk[i].refs \subseteq Inodes(vol)[i].refs

(* The last handle of an inode is closed only when the inode is as it is on   *)
(* the disk: the next iOpen reads it from there.                              *)
LastCloseSaved ==
  [][\A i \in Inode : call # "none" /\ ~ Throws(vol, Head(todo)) /\ Head(todo) = Op("close", i)
                      /\ vol'.count[i] = 0 => vol.cache[i] = vol.disk[i]]_vars

(* A name disappears only by a call that deletes it.  Not so once the machine *)
(* has stopped between the write of a directory's cluster and the save of its *)
(* inode: the size is wrong on the disk, and the next entry overwrites one or *)
(* leaves a gap.                                                              *)
NameKept ==
  [][\A e \in Entries(vol) : ~ stale' /\ e \notin Entries(vol') =>
       call # "none" /\ Head(todo).do = "delete" /\ Head(todo).name = e.name]_vars

(* Violated.  itdealer.h:39 says that closing the dealer saves all open       *)
(* inodes; soCloseInodeTableDealer drops the clusters a failed soWrite has     *)
(* allocated, which stay allocated in the superblock.                          *)
UnmountSaves == [][call = "none" /\ vol' = Mounted(vol) => Inodes(vol') = Inodes(vol)]_vars
=============================================================================
