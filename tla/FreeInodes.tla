----------------------------- MODULE FreeInodes -----------------------------
(***************************************************************************)
(* The list of free inodes (freelists/alloc_inode.cpp, free_inode.cpp) on   *)
(* the superblock and inode-table dealers.                                  *)
(*                                                                         *)
(* The list is threaded through the inode table: the superblock has its     *)
(* head, tail and length, each free inode the number of the next one, in a  *)
(* word that holds the access time when the inode is in use (the union in   *)
(* inode.h).  Both operations save the inodes they change at once, so one   *)
(* copy of the table is enough; the superblock has a memory copy and a disk *)
(* copy, which sbSave makes equal.  One call is one step: the callers hold  *)
(* the file system's only mutex.  FreeInodesCrash cuts a call short.        *)
(***************************************************************************)
EXTENDS Integers, FiniteSets

CONSTANTS
  ITotal,         \* number of inodes, itotal
  NULL_REFERENCE, \* end of list
  Now             \* any value of time(NULL)

\* A time in seconds is far beyond any inode number, and neither is null.
ASSUME FreeInodesAssumption ==
  /\ ITotal \in Nat \ {0, 1}
  /\ NULL_REFERENCE \notin 0 .. ITotal
  /\ Now \notin 0 .. ITotal
  /\ Now # NULL_REFERENCE

Inode == 0 .. ITotal - 1
Root == 0
Word == Inode \cup {NULL_REFERENCE, Now}

VARIABLES
  sb,    \* the superblock in memory: ifree, ihead, itail
  dsb,   \* the same fields on the disk
  free,  \* free[in]: INODE_FREE is set in inode in's mode
  next,  \* next[in]: the word shared by `next` and `atime`
  held,  \* history: inodes handed out and not freed since
  ret    \* history: what the last call answered

vars == <<sb, dsb, free, next, held, ret>>

Superblocks == [ifree : 0 .. ITotal, ihead : Word, itail : Word]

Answer(call, in, err) == [call |-> call, in |-> in, err |-> err]
NoAnswer == Answer("none", NULL_REFERENCE, "OK")

\* iOpen takes the numbers of the table only.
IOpens(in) == in \in Inode

-----------------------------------------------------------------------------
\* The table and the superblock as mksofs leaves them.
Init ==
  /\ sb = [ifree |-> ITotal - 1, ihead |-> 1, itail |-> ITotal - 1]
  /\ dsb = sb
  /\ free = [in \in Inode |-> in # Root]
  /\ next = [in \in Inode |-> IF in = Root THEN Now
                            ELSE IF in = ITotal - 1 THEN NULL_REFERENCE
                            ELSE in + 1]
  /\ held = {}
  /\ ret = NoAnswer

-----------------------------------------------------------------------------
\* Mutant: the count is not tested first.
AllocBadHeadUntested ==
  /\ ~ IOpens(sb.ihead)
  /\ sb' = [sb EXCEPT !.ifree = @ - 1]
  /\ ret' = Answer("alloc", NULL_REFERENCE, "EINVAL")
  /\ UNCHANGED <<dsb, free, next, held>>

\* Mutant: the free mark stays.
AllocInodeStillFree ==
  /\ sb.ifree # 0
  /\ IOpens(sb.ihead)
  /\ sb' = [sb EXCEPT !.ifree = @ - 1, !.ihead = next[sb.ihead]]
  /\ next' = [next EXCEPT ![sb.ihead] = Now]
  /\ dsb' = sb'
  /\ held' = held \cup {sb.ihead}
  /\ ret' = Answer("alloc", sb.ihead, "OK")
  /\ UNCHANGED free

\* Mutant: the head stays.
AllocInodeTwice ==
  /\ sb.ifree # 0
  /\ IOpens(sb.ihead)
  /\ sb' = [sb EXCEPT !.ifree = @ - 1]
  /\ free' = [free EXCEPT ![sb.ihead] = FALSE]
  /\ next' = [next EXCEPT ![sb.ihead] = Now]
  /\ dsb' = sb'
  /\ held' = held \cup {sb.ihead}
  /\ ret' = Answer("alloc", sb.ihead, "OK")

\* Mutant: the superblock is not saved.
AllocInodeUnsaved ==
  /\ sb.ifree # 0
  /\ IOpens(sb.ihead)
  /\ sb' = [sb EXCEPT !.ifree = @ - 1, !.ihead = next[sb.ihead]]
  /\ free' = [free EXCEPT ![sb.ihead] = FALSE]
  /\ next' = [next EXCEPT ![sb.ihead] = Now]
  /\ held' = held \cup {sb.ihead}
  /\ ret' = Answer("alloc", sb.ihead, "OK")
  /\ UNCHANGED dsb

AllocNoSpace ==
  /\ sb.ifree = 0
  /\ ret' = Answer("alloc", NULL_REFERENCE, "ENOSPC")
  /\ UNCHANGED <<sb, dsb, free, next, held>>

\* ifree is decremented before iOpen throws, and the superblock not saved.
AllocBadHead ==
  /\ sb.ifree # 0
  /\ ~ IOpens(sb.ihead)
  /\ sb' = [sb EXCEPT !.ifree = @ - 1]
  /\ ret' = Answer("alloc", NULL_REFERENCE, "EINVAL")
  /\ UNCHANGED <<dsb, free, next, held>>

AllocInode ==
  /\ sb.ifree # 0
  /\ IOpens(sb.ihead)
  /\ sb' = [sb EXCEPT !.ifree = @ - 1, !.ihead = next[sb.ihead]]
  /\ free' = [free EXCEPT ![sb.ihead] = FALSE]
  /\ next' = [next EXCEPT ![sb.ihead] = Now]     \* atime = time(NULL)
  /\ dsb' = sb'
  /\ held' = held \cup {sb.ihead}
  /\ ret' = Answer("alloc", sb.ihead, "OK")

-----------------------------------------------------------------------------
\* The code's own test lets in = itotal pass; iOpen stops it.
FreeInvalid(in) ==
  /\ \/ in < 1 \/ in > ITotal
     \/ ~ IOpens(in)
  /\ ret' = Answer("free", in, "EINVAL")
  /\ UNCHANGED <<sb, dsb, free, next, held>>

\* Mutant: an inode that is already free is counted again.
FreeAlreadyFreeCounted(in) ==
  /\ in \in Inode \ {Root}
  /\ free[in]
  /\ sb' = [sb EXCEPT !.ifree = (@ + 1) % (ITotal + 1)]
  /\ dsb' = sb'
  /\ ret' = Answer("free", in, "OK")
  /\ UNCHANGED <<free, next, held>>

FreeAlreadyFree(in) ==
  /\ in \in Inode \ {Root}
  /\ free[in]
  /\ ret' = Answer("free", in, "OK")
  /\ UNCHANGED <<sb, dsb, free, next, held>>

\* The first free inode of a list whose tail is null also becomes its head.
Anchored(in) ==
  IF sb.itail = NULL_REFERENCE
    THEN [sb EXCEPT !.ihead = in, !.itail = in]
    ELSE sb

\* Mutant: the freed inode keeps the word it had.
FreeInodeUnterminated(in) ==
  /\ in \in Inode \ {Root}
  /\ ~ free[in]
  /\ IOpens(Anchored(in).itail)
  /\ sb' = [Anchored(in) EXCEPT !.ifree = @ + 1, !.itail = in]
  /\ free' = [free EXCEPT ![in] = TRUE]
  /\ next' = [next EXCEPT ![Anchored(in).itail] = in]
  /\ dsb' = sb'
  /\ held' = held \ {in}
  /\ ret' = Answer("free", in, "OK")

\* Mutant: the superblock is not saved.
FreeInodeUnsaved(in) ==
  /\ in \in Inode \ {Root}
  /\ ~ free[in]
  /\ IOpens(Anchored(in).itail)
  /\ sb' = [Anchored(in) EXCEPT !.ifree = @ + 1, !.itail = in]
  /\ free' = [free EXCEPT ![in] = TRUE]
  /\ next' = [next EXCEPT ![Anchored(in).itail] = in, ![in] = NULL_REFERENCE]
  /\ held' = held \ {in}
  /\ ret' = Answer("free", in, "OK")
  /\ UNCHANGED dsb

\* Mutant: the freed inode goes before the head.
FreeInodeInFront(in) ==
  /\ in \in Inode \ {Root}
  /\ ~ free[in]
  /\ IOpens(Anchored(in).itail)
  /\ sb' = [Anchored(in) EXCEPT !.ifree = @ + 1,
              !.ihead = IF @ = NULL_REFERENCE THEN @ ELSE in]
  /\ free' = [free EXCEPT ![in] = TRUE]
  /\ next' = [next EXCEPT ![in] = sb.ihead]
  /\ dsb' = sb'
  /\ held' = held \ {in}
  /\ ret' = Answer("free", in, "OK")

FreeInode(in) ==
  /\ in \in Inode \ {Root}
  /\ ~ free[in]
  /\ IOpens(Anchored(in).itail)
  /\ sb' = [Anchored(in) EXCEPT !.ifree = @ + 1, !.itail = in]
  /\ free' = [free EXCEPT ![in] = TRUE]
  /\ next' = [next EXCEPT ![Anchored(in).itail] = in, ![in] = NULL_REFERENCE]
  /\ dsb' = sb'
  /\ held' = held \ {in}
  /\ ret' = Answer("free", in, "OK")

-----------------------------------------------------------------------------
\* Any operation on the list of free clusters saves the whole superblock.
SbSave ==
  /\ dsb' = sb
  /\ ret' = NoAnswer
  /\ UNCHANGED <<sb, free, next, held>>

\* Unmounting saves nothing; mounting reads block 0 again.
Remount ==
  /\ sb' = dsb
  /\ ret' = NoAnswer
  /\ UNCHANGED <<dsb, free, next, held>>

Next ==
  \/ AllocNoSpace \/ AllocBadHead \/ AllocInode
  \/ \E in \in 0 .. ITotal + 1 : FreeInvalid(in) \/ FreeAlreadyFree(in) \/ FreeInode(in)
  \/ SbSave \/ Remount

Spec == Init /\ [][Next]_vars

-----------------------------------------------------------------------------
(* Properties *)

FreeSet == {in \in Inode : free[in]}

TypeOK ==
  /\ sb \in Superblocks
  /\ dsb \in Superblocks
  /\ free \in [Inode -> BOOLEAN]
  /\ next \in [Inode -> Word]
  /\ held \subseteq Inode \ {Root}
  /\ ret.call \in {"none", "alloc", "free"}
  /\ ret.err \in {"OK", "EINVAL", "ENOSPC"}

\* q is the list a superblock s describes: it starts at ihead, follows the
\* next words and ends, at itail and null, after ifree inodes.
IsList(s, q) ==
  /\ q[1] = s.ihead
  /\ \A n \in 1 .. s.ifree - 1 : next[q[n]] = q[n + 1]
  /\ q[s.ifree] = s.itail
  /\ next[s.itail] = NULL_REFERENCE

\* Orders in which a list can run through all the free inodes.
Orders(s) ==
  {q \in [1 .. s.ifree -> FreeSet] :
     /\ \A m, n \in 1 .. s.ifree : q[m] = q[n] => m = n
     /\ \A in \in FreeSet : \E n \in 1 .. s.ifree : q[n] = in}

\* As long as the list has never been emptied, head, tail, length, the next
\* words and the free marks agree: the list runs through every inode marked
\* free, once, in memory and on the disk alike.
ListSound ==
  \A s \in {sb, dsb} :
    s.ihead # NULL_REFERENCE => s.ifree > 0 /\ \E q \in Orders(s) : IsList(s, q)

\* An inode is handed out only if nobody has it.
NoDoubleAlloc ==
  [][ret'.call = "alloc" /\ ret'.err = "OK" => ret'.in \notin held /\ ret'.in # Root]_vars

\* The superblock, in memory or on the disk, never counts more free inodes
\* than there are, whatever failed allocations and remounts came before.
NeverOvercounts ==
  /\ sb.ifree <= Cardinality(FreeSet)
  /\ dsb.ifree <= Cardinality(FreeSet)

\* Every inode but the root's is either with somebody or marked free.
HeldIsInUse == held = Inode \ ({Root} \cup FreeSet)

\* A remount can only give back the counts failed allocations took: the list
\* itself is on the disk after every call.
DiskIsCurrent ==
  /\ dsb.ihead = sb.ihead
  /\ dsb.itail = sb.itail
  /\ sb.ifree <= dsb.ifree
  /\ sb.ihead # NULL_REFERENCE => dsb.ifree = sb.ifree

\* The list, as a queue.
Queue ==
  IF sb.ihead = NULL_REFERENCE THEN <<>>
  ELSE CHOOSE q \in Orders(sb) : IsList(sb, q)

Stranded == IF sb.ihead = NULL_REFERENCE THEN FreeSet ELSE {}

\* The list implements the pool: inodes leave in the order they came.
Pool == INSTANCE InodePool WITH queue <- Queue, stranded <- Stranded
PoolSpec == Pool!Spec

-----------------------------------------------------------------------------
(* What the repository says and the code does not do *)

\* freelists.h:47: a freed inode is inserted into the list of free inodes.
FreedIsListed == free # [in \in Inode |-> FALSE] => sb.ihead # NULL_REFERENCE

\* inode.h:52: the next word is only used when the inode is free, so freeing
\* one inode leaves the access time of the others in use alone.
AccessTimeKept ==
  [][\A in \in Inode : ~ free[in] /\ ~ free'[in] => next'[in] = next[in]]_vars
=============================================================================
