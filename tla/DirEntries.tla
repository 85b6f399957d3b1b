----------------------------- MODULE DirEntries -----------------------------
(***************************************************************************)
(* The entries of a directory (direntries/*_direntry.cpp, readdir.cpp): an  *)
(* array of names and inode numbers in the clusters of a file, DPC to a     *)
(* cluster, kept packed: a new entry goes behind the last, and the last     *)
(* entry fills the place of one that is deleted.  An unused place has an    *)
(* empty name.  A directory is listed one entry per call, while other calls *)
(* change it.                                                               *)
(*                                                                         *)
(* FileClusters says what the clusters of a file are; here they are a       *)
(* sequence, and soAllocFileCluster may throw ENOSPC.  The checks on the    *)
(* name (a slash, its length) come first in every routine and are left out. *)
(***************************************************************************)
EXTENDS Integers, FiniteSets, FiniteSetsExt, Functions, Sequences

CONSTANTS
  Name, Inode, NULL_REFERENCE,
  NoName,     \* the empty name
  DPC,        \* entries per cluster (8 * csize)
  EntrySize,  \* bytes of an entry (64)
  MaxFcn      \* file clusters of the largest file

ASSUME DirEntriesAssumption ==
  /\ DPC \in Nat \ {0, 1} /\ EntrySize \in Nat \ {0} /\ MaxFcn \in Nat \ {0}
  /\ NoName \notin Name /\ NULL_REFERENCE \notin Inode

VARIABLES
  clus,      \* the clusters of the directory, in order
  size,      \* its size in entries: the inode's size / EntrySize
  ret,       \* what the last call answered
  overread,  \* a call has found its name behind the end of an array
  reader     \* a listing: its position, and histories of names (see soReaddir)

dir == <<clus, size>>
vars == <<clus, size, ret, overread, reader>>

Slot == 0 .. DPC - 1
Nothing == [name |-> NoName, in |-> NULL_REFERENCE]
Entry(n, in) == [name |-> n, in |-> in]

Init ==
  /\ clus = <<>> /\ size = 0 /\ overread = FALSE
  /\ ret = [call |-> "none", in |-> NULL_REFERENCE, err |-> "OK"]
  /\ reader = [pos |-> 0, listed |-> {}, due |-> {}]

-----------------------------------------------------------------------------
(* Positions count the places of the directory from 0.                       *)

Place == 0 .. DPC * Len(clus) - 1
At(p) == clus[p \div DPC + 1][p % DPC]
Put(cs, p, e) == [cs EXCEPT ![p \div DPC + 1][p % DPC] = e]
Places(n) == {p \in Place : At(p).name = n}
Clusters == (size + DPC - 1) \div DPC

\* The last used place of a cluster.
LastUsed(c) == Max({j \in Slot : clus[c][j].name # NoName})

\* What soGetDirEntry comes to look at inside its array; it goes on to `size`
\* in every cluster, and past the array if a cluster has fewer places.
Scanned == {p \in Place : p \div DPC < Clusters /\ p % DPC < size}
\* A mutant: only the first cluster is searched.
FoundInFirst(n) == {p \in Places(n) : p < DPC}

Found(n) == Places(n) \cap Scanned
Overreads(n) == size > DPC /\ ~ \E p \in Found(n) : p < DPC
Lookup(n) == IF Found(n) = {} THEN NULL_REFERENCE ELSE At(Min(Found(n))).in

-----------------------------------------------------------------------------
Answer(call, in, err) == ret' = [call |-> call, in |-> in, err |-> err]
Fails(call, err) == Answer(call, NULL_REFERENCE, err) /\ UNCHANGED <<clus, size, reader>>

\* A name is found behind the array: what follows is anybody's guess.
Astray == overread' = TRUE /\ UNCHANGED <<clus, size, ret, reader>>

soGetDirEntry(n) ==
  \/ Overreads(n) /\ Astray
  \/ /\ Answer("get", Lookup(n), "OK")
     /\ UNCHANGED <<clus, size, overread, reader>>

Full == size >= MaxFcn

Store(n, in) == clus' = Put(clus, size, Entry(n, in))
StoreInNew(n, in) ==
  clus' = Append(clus, [j \in Slot |-> IF j = 0 THEN Entry(n, in) ELSE Nothing])

\* The write permission of the directory comes before everything about it.
Denied ==
  /\ \E call \in {"add", "delete", "rename"} : Fails(call, "EACCES")
  /\ UNCHANGED overread

soAddDirEntry(n, in) ==
  \/ Overreads(n) /\ Astray
  \/ /\ UNCHANGED overread
     /\ \/ Lookup(n) # NULL_REFERENCE /\ Fails("add", "EEXIST")
        \/ Lookup(n) = NULL_REFERENCE /\ Full /\ Fails("add", "ENOMEM")
        \/ /\ Lookup(n) = NULL_REFERENCE /\ ~ Full
           /\ size \div DPC >= Len(clus)
           /\ Fails("add", "ENOSPC")
        \/ /\ Lookup(n) = NULL_REFERENCE /\ ~ Full
           /\ IF size \div DPC < Len(clus) THEN Store(n, in) ELSE StoreInNew(n, in)
           /\ size' = size + 1
           /\ Answer("add", NULL_REFERENCE, "OK")
           /\ UNCHANGED reader

\* A mutant: the last cluster stays though it has become empty.
FillFromLastKept(p) ==
  LET c == Len(clus) k == LastUsed(c) IN Put(Put(clus, p, clus[c][k]), DPC * (c - 1) + k, Nothing)

\* A mutant: the last entry's name moves and its inode number stays behind.
FillFromLastNameOnly(p) ==
  LET c == Len(clus)
      k == LastUsed(c)
      filled == Put(clus, p, [At(p) EXCEPT !.name = clus[c][k].name])
  IN  IF k = 0 THEN SubSeq(filled, 1, c - 1) ELSE Put(filled, DPC * (c - 1) + k, Nothing)

\* The last entry of the last cluster takes the place; a cluster left empty
\* is freed.
FillFromLast(p) ==
  LET c == Len(clus)
      k == LastUsed(c)
      filled == Put(clus, p, clus[c][k])
  IN  IF k = 0 THEN SubSeq(filled, 1, c - 1) ELSE Put(filled, DPC * (c - 1) + k, Nothing)

\* A mutant: the entries behind move up by one.
AfterDeleteShifts(p) ==
  [c \in 1 .. (size + DPC - 2) \div DPC |-> [j \in Slot |->
    LET q == DPC * (c - 1) + j
    IN  IF q < p THEN At(q) ELSE IF q + 1 < size THEN At(q + 1) ELSE Nothing]]

\* What a delete at place p leaves of the clusters: the entry is the last and
\* not the first of its cluster; the first and only; in the last place of the
\* last cluster; elsewhere in the last cluster; in another cluster.
AfterDelete(p) ==
  LET c == p \div DPC + 1
      i == p % DPC
      lastCluster == c = Len(clus)
      followed == i < DPC - 1 /\ clus[c][i + 1].name # NoName
      k == LastUsed(c)
  IN  IF i \in 1 .. DPC - 2 /\ ~ followed THEN Put(clus, p, Nothing)
      ELSE IF i = 0 /\ ~ followed THEN SubSeq(clus, 1, c - 1)
      ELSE IF i = DPC - 1 /\ lastCluster THEN Put(clus, p, Nothing)
      ELSE IF lastCluster THEN Put(Put(clus, p, clus[c][k]), DPC * (c - 1) + k, Nothing)
      ELSE FillFromLast(p)

\* soDeleteDirEntry looks at every place of every cluster.
soDeleteDirEntry(n) ==
  LET p == Min(Places(n))
      after == AfterDelete(p)
      moved == IF p < reader.pos /\ p < size - 1 THEN {after[p \div DPC + 1][p % DPC].name}
               ELSE {}
  IN
  /\ UNCHANGED overread
  /\ \/ Places(n) = {} /\ Fails("delete", "ENOENT")
     \/ /\ Places(n) # {}
        /\ clus' = after
        /\ size' = size - 1
        /\ Answer("delete", At(p).in, "OK")
        /\ reader' = [reader EXCEPT !.listed = @ \ {n}, !.due = @ \ ({n} \cup moved)]

\* The clusters soRenameDirEntry reads until it has found the name; it divides
\* bytes by entries, and soGetFileCluster throws EINVAL past MaxFcn.
RenameReads ==
  (size * EntrySize) \div DPC + (IF size % DPC # 0 THEN 1 ELSE 0)

soRenameDirEntry(n, new) ==
  \/ n # new /\ Places(n) # {} /\ Overreads(new) /\ Astray
  \/ /\ UNCHANGED overread
     /\ \/ n = new /\ Fails("rename", "OK")
        \/ /\ n # new /\ Places(n) = {}
           /\ Fails("rename", IF RenameReads - 1 > MaxFcn THEN "EINVAL" ELSE "ENOENT")
        \/ /\ n # new /\ Places(n) # {} /\ Lookup(new) # NULL_REFERENCE
           /\ Fails("rename", "EEXIST")
        \/ /\ n # new /\ Places(n) # {} /\ Lookup(new) = NULL_REFERENCE
           /\ LET p == Min(Places(n)) IN clus' = Put(clus, p, Entry(new, At(p).in))
           /\ Answer("rename", NULL_REFERENCE, "OK")
           /\ reader' = [reader EXCEPT !.listed = @ \ {n}, !.due = @ \ {n}]
           /\ UNCHANGED size

-----------------------------------------------------------------------------
(* soReaddir answers the entry at the position the last call left; FUSE lets *)
(* other calls in between.  Histories: reader.listed, the names it has       *)
(* listed and that are there since; reader.due, those there since the        *)
(* listing began, not listed yet and not moved over what was.                *)
AtEnd == reader.pos >= size
Names == {At(p).name : p \in Place} \ {NoName}

\* A mutant: always the first cluster.
HereInFirst == clus[1][reader.pos % DPC].name
Here == At(reader.pos).name

soReaddir ==
  /\ ~ AtEnd
  /\ reader' = [pos |-> reader.pos + 1,
                 listed |-> reader.listed \cup {Here},
                 due |-> reader.due \ {Here}]
  /\ UNCHANGED <<clus, size, ret, overread>>

\* A listing begins.
Rewind ==
  /\ reader' = [pos |-> 0, listed |-> {}, due |-> Names]
  /\ UNCHANGED <<clus, size, ret, overread>>

Call ==
  \/ Denied
  \/ \E n \in Name :
       \/ soGetDirEntry(n)
       \/ soDeleteDirEntry(n)
       \/ \E in \in Inode : soAddDirEntry(n, in)
       \/ \E new \in Name : soRenameDirEntry(n, new)

Next == ~ overread /\ (Call \/ soReaddir \/ Rewind)

Spec == Init /\ [][Next]_vars

-----------------------------------------------------------------------------
(* Every cluster has its DPC places, and the directory never has more        *)
(* entries than it may.                                                      *)
TypeOK ==
  /\ \A c \in DOMAIN clus : clus[c] \in [Slot -> [name : Name \cup {NoName},
                                                  in : Inode \cup {NULL_REFERENCE}]]
  /\ size \in 0 .. MaxFcn
  /\ overread \in BOOLEAN
  /\ reader \in [pos : 0 .. MaxFcn, listed : SUBSET Name, due : SUBSET Name]

(* The inode's size and the clusters agree: the used places are the first    *)
(* `size` ones, so that soAddDirEntry, which goes by size, and               *)
(* soDeleteDirEntry, which goes by empty names, mean the same place by the   *)
(* last; and no cluster is kept without an entry.                            *)
Packed ==
  /\ TypeOK
  /\ Len(clus) = Clusters
  /\ \A p \in Place : At(p).name # NoName <=> p < size

(* No two entries have one name, though soGetDirEntry, by which soAddDirEntry *)
(* decides, does not look at what soDeleteDirEntry looks at.                  *)
NamesOnce == \A p, q \in Place : At(p).name = At(q).name /\ p # q => At(p).name = NoName

(* A listing never answers an entry twice, whatever is deleted meanwhile: the *)
(* last entry is moved only to the front.                                     *)
ListsOnce == [][soReaddir => Here \notin reader.listed]_vars

(* A listing that has come to the end has missed no entry that was there all  *)
(* the time, except one that a delete has moved over what was listed already. *)
ListsAll == AtEnd => reader.due = {}

(* The operations implement a function from names to inode numbers.           *)
Entries == [n \in Names |-> At(Min(Places(n))).in]
Abstract == INSTANCE Directory WITH entries <- Entries
DirectorySpec == Abstract!Spec
=============================================================================
