-------------------------- MODULE FreeInodesProofs --------------------------
(***************************************************************************)
(* Theorems about the list of free inodes, for any number of inodes: first  *)
(* in a machine that does not stop, then with crashes inside the calls.     *)
(*                                                                         *)
(* Without crashes the inductive invariant is the conjunction of the        *)
(* invariants TLC checks with two facts about the superblock and the root:  *)
(* the tail is always an inode, and the root's inode is never free.  The    *)
(* witness for ListSound after an allocation is the old order without its   *)
(* first inode, and after a free the old order with the freed inode         *)
(* appended.  The invariant with crashes is explained where it begins.      *)
(***************************************************************************)
EXTENDS FreeInodesCrash, FiniteSetTheorems, WellFoundedInduction, SequenceTheorems,
        TLAPS

TailIsInode == sb.itail \in Inode \ {Root}
RootInUse == ~ free[Root]

IInv ==
  /\ TypeOK
  /\ ListSound
  /\ NeverOvercounts
  /\ HeldIsInUse
  /\ DiskIsCurrent
  /\ TailIsInode
  /\ RootInUse

-----------------------------------------------------------------------------
(* Facts about free inodes *)

\* There are finitely many inodes, ITotal - 1 of them beside the root's.
LEMMA InodesFinite ==
  /\ IsFiniteSet(Inode \ {Root})
  /\ Cardinality(Inode \ {Root}) = ITotal - 1
<1>1. Inode \ {Root} = 1 .. ITotal - 1
  BY FreeInodesAssumption DEF Inode, Root
<1>2. /\ 1 \in Int /\ ITotal - 1 \in Int
      /\ ~ (1 > ITotal - 1) /\ (ITotal - 1) - 1 + 1 = ITotal - 1
  BY FreeInodesAssumption
<1>3. /\ IsFiniteSet(1 .. ITotal - 1)
      /\ Cardinality(1 .. ITotal - 1) = (ITotal - 1) - 1 + 1
  BY <1>2, FS_Interval
<1>4. QED
  BY <1>1, <1>2, <1>3

\* The free inodes are never the root's, so they are fewer than ITotal.
LEMMA FreeSetFinite ==
  ASSUME RootInUse
  PROVE  /\ FreeSet \subseteq Inode \ {Root}
         /\ IsFiniteSet(FreeSet)
         /\ Cardinality(FreeSet) \in Nat
         /\ Cardinality(FreeSet) <= ITotal - 1
<1>1. FreeSet \subseteq Inode \ {Root}
  BY DEF FreeSet, RootInUse
<1>2. QED
  BY <1>1, InodesFinite, FS_Subset, FS_CardinalityType

\* As long as there is a list, its head is a free inode, and so is its tail.
LEMMA HeadIsFree ==
  ASSUME IInv, sb.ihead # NULL_REFERENCE
  PROVE  sb.ihead \in FreeSet /\ sb.itail \in FreeSet
<1>1. PICK q \in Orders(sb) : sb.ifree > 0 /\ IsList(sb, q)
  BY DEF IInv, ListSound
<1>2. 1 \in 1 .. sb.ifree /\ sb.ifree \in 1 .. sb.ifree
  BY <1>1, FreeInodesAssumption DEF IInv, TypeOK, Superblocks
<1>3. QED
  BY <1>1, <1>2 DEF Orders, IsList

\* A head that iOpen accepts is a free inode; one it does not is null.
LEMMA HeadOpens ==
  ASSUME IInv
  PROVE  IOpens(sb.ihead) <=> sb.ihead # NULL_REFERENCE
<1>1. NULL_REFERENCE \notin Inode
  BY FreeInodesAssumption DEF Inode
<1>2. QED
  BY <1>1, HeadIsFree DEF IOpens, FreeSet

-----------------------------------------------------------------------------
(* The formatted table *)

\* The formatted volume: every inode but the root's is listed in order.
LEMMA InitIInv == Init => IInv
<1> SUFFICES ASSUME Init PROVE IInv
  OBVIOUS
<1> USE FreeInodesAssumption
<1>0. /\ sb.ifree = ITotal - 1 /\ sb.ihead = 1 /\ sb.itail = ITotal - 1
      /\ dsb = sb
      /\ sb = [ifree |-> ITotal - 1, ihead |-> 1, itail |-> ITotal - 1]
      /\ ITotal - 1 \in Inode \ {Root} /\ 1 \in Inode
      /\ ITotal - 1 \in 0 .. ITotal
  BY DEF Init, Inode, Root
<1>1. TypeOK
  <2>1. sb \in Superblocks
    BY <1>0 DEF Superblocks, Word
  <2>2. free \in [Inode -> BOOLEAN]
    BY DEF Init
  <2>3. next \in [Inode -> Word]
    BY DEF Init, Word, Inode, Root
  <2>4. ret.call = "none" /\ ret.err = "OK"
    BY DEF Init, NoAnswer, Answer
  <2>5. QED
    BY <1>0, <2>1, <2>2, <2>3, <2>4 DEF TypeOK, Init
<1>f. \A in \in Inode : free[in] = (in # Root)
  BY Zenon DEF Init
<1>2. FreeSet = 1 .. ITotal - 1
  <2>1. FreeSet = {in \in Inode : in # Root}
    BY <1>f, Zenon DEF FreeSet
  <2>2. QED
    BY <2>1 DEF Inode, Root
<1>3. Inode \ {Root} = 1 .. ITotal - 1
  BY DEF Inode, Root
<1>4. ListSound
  <2> DEFINE q == [n \in 1 .. ITotal - 1 |-> n]
  <2>1. q \in Orders(sb)
    BY <1>0, <1>2 DEF Orders
  <2>2. IsList(sb, q)
    <3>1. \A n \in 1 .. ITotal - 2 : next[n] = n + 1
      BY DEF Init, Inode, Root
    <3>2. next[ITotal - 1] = NULL_REFERENCE
      BY DEF Init, Inode, Root
    <3>3. QED
      BY <1>0, <3>1, <3>2 DEF IsList
  <2>3. sb.ifree > 0 /\ dsb = sb
    BY <1>0
  <2>4. QED
    BY <2>1, <2>2, <2>3 DEF ListSound
<1>4a. Cardinality(FreeSet) = ITotal - 1
  BY <1>2, <1>3, InodesFinite
<1>5. NeverOvercounts
  BY <1>0, <1>4a DEF NeverOvercounts
<1>6. HeldIsInUse
  BY <1>2, <1>3 DEF HeldIsInUse, Init
<1>7. DiskIsCurrent
  BY <1>0 DEF DiskIsCurrent
<1>8. TailIsInode
  BY <1>0 DEF TailIsInode
<1>9. RootInUse
  <2>1. Root \in Inode
    BY DEF Root, Inode
  <2>2. QED
    BY <1>f, <2>1, Zenon DEF RootInUse
<1>10. QED
  BY <1>1, <1>4, <1>5, <1>6, <1>7, <1>8, <1>9 DEF IInv

-----------------------------------------------------------------------------
(* The steps *)

\* Calls that change nothing but the answer.
LEMMA StutterIInv ==
  ASSUME IInv, UNCHANGED <<sb, dsb, free, next, held>>,
         ret'.call \in {"none", "alloc", "free"},
         ret'.err \in {"OK", "EINVAL", "ENOSPC"}
  PROVE  IInv'
BY DEF IInv, TypeOK, ListSound, NeverOvercounts, HeldIsInUse, DiskIsCurrent,
       TailIsInode, RootInUse, FreeSet, Orders, IsList

\* A failed allocation only makes the count in memory smaller, and the list
\* is then null.
LEMMA AllocBadHeadIInv == IInv /\ AllocBadHead => IInv'
<1> SUFFICES ASSUME IInv, AllocBadHead PROVE IInv'
  OBVIOUS
<1>1. sb.ihead = NULL_REFERENCE
  BY HeadOpens DEF AllocBadHead
<1>2. /\ sb'.ifree = sb.ifree - 1
      /\ sb'.ihead = sb.ihead /\ sb'.itail = sb.itail
      /\ sb' \in Superblocks
      /\ sb.ifree \in Nat \ {0}
  BY FreeInodesAssumption DEF AllocBadHead, IInv, TypeOK, Superblocks
<1>3. TypeOK'
  BY <1>2 DEF AllocBadHead, IInv, TypeOK, Answer
<1>4. ListSound'
  BY <1>1, <1>2 DEF ListSound, AllocBadHead, IInv, DiskIsCurrent
<1>5. NeverOvercounts'
  <2>1. Cardinality(FreeSet) \in Nat
    BY FreeSetFinite DEF IInv
  <2>2. QED
    BY <1>2, <2>1 DEF NeverOvercounts, AllocBadHead, IInv, FreeSet
<1>6. DiskIsCurrent'
  BY <1>1, <1>2, FreeInodesAssumption
     DEF DiskIsCurrent, AllocBadHead, IInv, TypeOK, Superblocks
<1>7. HeldIsInUse' /\ TailIsInode' /\ RootInUse'
  BY <1>2 DEF HeldIsInUse, TailIsInode, RootInUse, AllocBadHead, IInv, FreeSet
<1>8. QED
  BY <1>3, <1>4, <1>5, <1>6, <1>7 DEF IInv

\* What is left of the list after an allocation is its tail.
LEMMA AllocatedList ==
  ASSUME IInv, AllocInode, next[sb.ihead] # NULL_REFERENCE,
         NEW q \in Orders(sb), IsList(sb, q),
         NEW p, p = [n \in 1 .. sb.ifree - 1 |-> q[n + 1]]
  PROVE  sb'.ifree = sb.ifree - 1 /\ sb'.ifree > 0 /\ p \in Orders(sb)' /\ IsList(sb, p)'
<1> DEFINE h == sb.ihead
<1> USE FreeInodesAssumption
<1>1. h # NULL_REFERENCE /\ h \in FreeSet /\ h \in Inode \ {Root} /\ sb.itail \in FreeSet
  BY HeadOpens, HeadIsFree, FreeSetFinite DEF AllocInode, IInv
<1>2. sb.ifree > 0
  BY <1>1 DEF IInv, ListSound
<1>3. /\ sb.ifree \in Nat \ {0} /\ sb.ifree <= ITotal
      /\ sb'.ifree = sb.ifree - 1
      /\ sb'.ihead = next[h] /\ sb'.itail = sb.itail
  BY <1>1, <1>2 DEF AllocInode, IInv, TypeOK, Superblocks
<1>4. FreeSet' = FreeSet \ {h}
  BY <1>1 DEF FreeSet, AllocInode, IInv, TypeOK
<1>5. q[1] = h /\ q[sb.ifree] = sb.itail /\ next[sb.itail] = NULL_REFERENCE
  BY <1>2 DEF IsList
<1>6. sb.ifree > 1
  BY <1>3, <1>5
<1>7. \A n \in 1 .. sb.ifree : q[n] \in FreeSet /\ (q[n] = h => n = 1)
  BY <1>2, <1>3, <1>5 DEF Orders
<1>8. \A n \in 1 .. sb.ifree - 1 : n + 1 \in 1 .. sb.ifree /\ n + 1 # 1
  BY <1>3
<1>9. p \in [1 .. sb'.ifree -> FreeSet']
  BY <1>3, <1>4, <1>7, <1>8
<1>10. \A m, n \in 1 .. sb'.ifree : p[m] = p[n] => m = n
  BY <1>2, <1>3, <1>8 DEF Orders
<1>11. \A in \in FreeSet' : \E n \in 1 .. sb'.ifree : p[n] = in
  <2> SUFFICES ASSUME NEW in \in FreeSet' PROVE \E n \in 1 .. sb'.ifree : p[n] = in
    OBVIOUS
  <2>1. PICK n \in 1 .. sb.ifree : q[n] = in
    BY <1>2, <1>4 DEF Orders
  <2>2. n # 1
    BY <1>4, <1>5, <2>1
  <2>3. n - 1 \in 1 .. sb'.ifree /\ p[n - 1] = in
    BY <1>3, <2>1, <2>2
  <2>4. QED
    BY <2>3
<1>12. p \in Orders(sb)'
  BY <1>9, <1>10, <1>11 DEF Orders
<1>13. \A in \in FreeSet' : next'[in] = next[in]
  BY <1>1, <1>4 DEF AllocInode, IInv, TypeOK, FreeSet
<1>14. p[1] = sb'.ihead
  <2>1. next[q[1]] = q[2]
    BY <1>2, <1>3, <1>6 DEF IsList
  <2>2. QED
    BY <1>3, <1>5, <1>6, <2>1
<1>15. \A n \in 1 .. sb'.ifree - 1 : next'[p[n]] = p[n + 1]
  <2> SUFFICES ASSUME NEW n \in 1 .. sb'.ifree - 1 PROVE next'[p[n]] = p[n + 1]
    OBVIOUS
  <2>1. n \in 1 .. sb'.ifree /\ n + 1 \in 1 .. sb.ifree - 1 /\ n \in 1 .. sb.ifree - 1
    BY <1>3
  <2>2. next'[p[n]] = next[q[n + 1]]
    BY <1>9, <1>13, <2>1
  <2>3. next[q[n + 1]] = q[(n + 1) + 1]
    BY <1>2, <2>1 DEF IsList
  <2>4. QED
    BY <2>1, <2>2, <2>3
<1>16. p[sb'.ifree] = sb'.itail
  BY <1>3, <1>5, <1>6
<1>17. next'[sb'.itail] = NULL_REFERENCE
  <2>1. sb.itail # h
    BY <1>5
  <2>2. QED
    BY <1>1, <1>3, <1>4, <1>5, <1>13, <2>1
<1>18. IsList(sb, p)'
  BY <1>14, <1>15, <1>16, <1>17 DEF IsList
<1>19. QED
  BY <1>3, <1>6, <1>12, <1>18

\* An allocation takes the first inode of the list.
LEMMA AllocInodeIInv == IInv /\ AllocInode => IInv'
<1> SUFFICES ASSUME IInv, AllocInode PROVE IInv'
  OBVIOUS
<1> DEFINE h == sb.ihead
<1> USE FreeInodesAssumption
<1>1. h # NULL_REFERENCE /\ h \in FreeSet /\ h \in Inode \ {Root} /\ sb.itail \in FreeSet
  BY HeadOpens, HeadIsFree, FreeSetFinite DEF AllocInode, IInv
<1>2. PICK q \in Orders(sb) : sb.ifree > 0 /\ IsList(sb, q)
  BY <1>1 DEF IInv, ListSound
<1>3. /\ sb.ifree \in Nat \ {0} /\ sb.ifree <= ITotal
      /\ sb'.ifree = sb.ifree - 1
      /\ sb'.ihead = next[h] /\ sb'.itail = sb.itail
      /\ next[h] \in Word
  BY <1>1, <1>2 DEF AllocInode, IInv, TypeOK, Superblocks
<1>4. FreeSet' = FreeSet \ {h}
  BY <1>1 DEF FreeSet, AllocInode, IInv, TypeOK
<1>5. TypeOK'
  <2>1. sb' \in Superblocks
    <3>1. sb' = [ifree |-> sb.ifree - 1, ihead |-> next[h], itail |-> sb.itail]
      BY DEF AllocInode, IInv, TypeOK, Superblocks
    <3>2. sb.ifree - 1 \in 0 .. ITotal /\ sb.itail \in Word
      BY <1>3 DEF IInv, TypeOK, Superblocks
    <3>3. QED
      BY <1>3, <3>1, <3>2 DEF Superblocks
  <2>2. free' \in [Inode -> BOOLEAN] /\ next' \in [Inode -> Word]
    BY DEF AllocInode, IInv, TypeOK, Word
  <2>3. held' \subseteq Inode \ {Root}
    BY <1>1 DEF AllocInode, IInv, TypeOK
  <2>4. QED
    BY <2>1, <2>2, <2>3 DEF TypeOK, AllocInode, Answer
<1>6. ASSUME next[h] # NULL_REFERENCE
      PROVE  sb'.ifree > 0 /\ \E p \in Orders(sb)' : IsList(sb, p)'
  <2>1. PICK p : p = [n \in 1 .. sb.ifree - 1 |-> q[n + 1]]
    OBVIOUS
  <2>2. QED
    BY <1>2, <1>6, <2>1, AllocatedList
<1>7. ListSound'
  <2>1. dsb' = sb'
    BY DEF AllocInode
  <2>2. sb'.ihead # NULL_REFERENCE =>
          sb'.ifree > 0 /\ \E p \in Orders(sb)' : IsList(sb, p)'
    BY <1>3, <1>6
  <2>3. QED
    BY <2>1, <2>2 DEF ListSound, Orders, IsList
<1>8. NeverOvercounts'
  <2>1. /\ Cardinality(FreeSet) \in Nat
        /\ Cardinality(FreeSet \ {h}) = Cardinality(FreeSet) - 1
    BY <1>1, FreeSetFinite, FS_RemoveElement DEF IInv
  <2>2. QED
    BY <1>3, <1>4, <2>1 DEF NeverOvercounts, AllocInode, IInv
<1>9. HeldIsInUse'
  BY <1>1, <1>4 DEF HeldIsInUse, AllocInode, IInv
<1>10. DiskIsCurrent'
  BY <1>3, <1>5 DEF DiskIsCurrent, AllocInode, TypeOK, Superblocks
<1>11. TailIsInode' /\ RootInUse'
  BY <1>1, <1>3 DEF TailIsInode, RootInUse, AllocInode, IInv, TypeOK, Inode, Root
<1>12. QED
  BY <1>5, <1>7, <1>8, <1>9, <1>10, <1>11 DEF IInv

\* What is left of the list after a free is the list and the freed inode.
LEMMA FreedList ==
  ASSUME IInv, NEW in \in 0 .. ITotal + 1, FreeInode(in), sb.ihead # NULL_REFERENCE,
         NEW q \in Orders(sb), IsList(sb, q),
         NEW p, p = [n \in 1 .. sb.ifree + 1 |-> IF n <= sb.ifree THEN q[n] ELSE in]
  PROVE  sb'.ifree = sb.ifree + 1 /\ sb'.ifree > 0 /\ p \in Orders(sb)' /\ IsList(sb, p)'
<1> USE FreeInodesAssumption
<1> DEFINE t == sb.itail
<1> DEFINE n0 == sb.ifree
<1>1. /\ in \in Inode \ {Root} /\ in \notin FreeSet
      /\ t \in Inode \ {Root} /\ t # NULL_REFERENCE
      /\ Anchored(in) = sb
  BY DEF FreeInode, FreeSet, IInv, TailIsInode, Anchored, Inode
<1>2. FreeSet' = FreeSet \cup {in}
  BY <1>1 DEF FreeSet, FreeInode, IInv, TypeOK
<1>3. /\ n0 \in Nat \ {0}
      /\ sb' = [ifree |-> n0 + 1, ihead |-> sb.ihead, itail |-> in]
      /\ sb'.ifree = n0 + 1 /\ sb'.ifree - 1 = n0
  <2>1. n0 > 0
    BY DEF IInv, ListSound
  <2>2. n0 \in Nat
    BY DEF IInv, TypeOK, Superblocks
  <2>3. sb' = [ifree |-> n0 + 1, ihead |-> sb.ihead, itail |-> in]
    BY <1>1 DEF FreeInode, IInv, TypeOK, Superblocks
  <2>4. QED
    BY <2>1, <2>2, <2>3
<1>4. /\ \A n \in 1 .. n0 : p[n] = q[n] /\ q[n] \in FreeSet /\ q[n] # in
      /\ p[n0 + 1] = in
      /\ \A n \in 1 .. n0 + 1 : n \in 1 .. n0 \/ n = n0 + 1
      /\ \A n \in 1 .. n0 : n \in 1 .. n0 + 1
      /\ 1 \in 1 .. n0 /\ n0 \in 1 .. n0 /\ n0 + 1 \in 1 .. n0 + 1
  <2>1. /\ \A n \in 1 .. n0 + 1 : n \in 1 .. n0 \/ n = n0 + 1
        /\ \A n \in 1 .. n0 : n \in 1 .. n0 + 1 /\ n <= n0
        /\ 1 \in 1 .. n0 /\ n0 \in 1 .. n0
        /\ n0 + 1 \in 1 .. n0 + 1 /\ ~ (n0 + 1 <= n0)
    BY <1>3
  <2>2. \A n \in 1 .. n0 : q[n] \in FreeSet
    BY DEF Orders
  <2>3. \A n \in 1 .. n0 : p[n] = q[n]
    BY <2>1
  <2>4. p[n0 + 1] = in
    BY <2>1
  <2>5. QED
    BY <1>1, <2>1, <2>2, <2>3, <2>4
<1>5. p \in Orders(sb)'
  <2>1. p \in [1 .. n0 + 1 -> FreeSet']
    BY <1>2, <1>4
  <2>2. \A m, n \in 1 .. n0 + 1 : p[m] = p[n] => m = n
    <3>1. \A m, n \in 1 .. n0 : q[m] = q[n] => m = n
      BY DEF Orders
    <3> QED BY ONLY <1>4, <3>1
  <2>3. \A x \in FreeSet' : \E n \in 1 .. n0 + 1 : p[n] = x
    BY <1>2, <1>4 DEF Orders
  <2>4. sb'.ifree = n0 + 1
    BY <1>3
  <2>5. QED
    BY <2>1, <2>2, <2>3, <2>4 DEF Orders
<1>6. /\ next'[t] = in /\ next'[in] = NULL_REFERENCE
      /\ \A x \in FreeSet : x # t => next'[x] = next[x]
  <2>1. t # in
    BY <1>1, HeadIsFree
  <2>2. QED
    BY <1>1, <2>1 DEF FreeInode, IInv, TypeOK, FreeSet
<1>7. q[n0] = t /\ \A n \in 1 .. n0 - 1 : q[n] # t
  <2>1. q[n0] = t
    BY DEF IsList
  <2>2. ASSUME NEW n \in 1 .. n0 - 1 PROVE q[n] # t
    <3>1. n \in 1 .. n0 /\ n # n0
      BY <1>3
    <3>2. QED
      BY <1>4, <2>1, <3>1 DEF Orders
  <2>3. QED
    BY <2>1, <2>2
<1>8. \A n \in 1 .. n0 : next'[p[n]] = p[n + 1]
  <2> SUFFICES ASSUME NEW n \in 1 .. n0 PROVE next'[p[n]] = p[n + 1]
    OBVIOUS
  <2>1. CASE n = n0
    BY <1>4, <1>6, <1>7, <2>1
  <2>2. CASE n # n0
    <3>1. n \in 1 .. n0 - 1 /\ n + 1 \in 1 .. n0
      BY <1>3, <2>2
    <3>2. next[q[n]] = q[n + 1]
      BY <3>1 DEF IsList
    <3>3. next'[q[n]] = next[q[n]]
      BY <1>4, <1>6, <1>7, <3>1
    <3>4. QED
      BY <1>4, <3>1, <3>2, <3>3
  <2>3. QED
    BY <2>1, <2>2
<1>9. IsList(sb, p)'
  <2>1. p[1] = sb'.ihead
    BY <1>3, <1>4 DEF IsList
  <2>2. \A n \in 1 .. sb'.ifree - 1 : next'[p[n]] = p[n + 1]
    BY <1>3, <1>8
  <2>3. p[sb'.ifree] = sb'.itail /\ next'[sb'.itail] = NULL_REFERENCE
    BY <1>3, <1>4, <1>6
  <2>4. QED
    BY <2>1, <2>2, <2>3 DEF IsList
<1>10. sb'.ifree > 0
  BY <1>3
<1>11. QED
  BY <1>3, <1>5, <1>9, <1>10

\* A free appends the inode after the tail, if there is still a list.
LEMMA FreeInodeIInv ==
  ASSUME IInv, NEW in \in 0 .. ITotal + 1, FreeInode(in)
  PROVE  IInv'
<1> USE FreeInodesAssumption
<1> DEFINE t == sb.itail
<1>1. /\ in \in Inode \ {Root} /\ in \notin FreeSet
      /\ t \in Inode \ {Root} /\ t # NULL_REFERENCE
      /\ Anchored(in) = sb
  BY DEF FreeInode, FreeSet, IInv, TailIsInode, Anchored, Inode
<1>2. FreeSet' = FreeSet \cup {in}
  BY <1>1 DEF FreeSet, FreeInode, IInv, TypeOK
<1>3. RootInUse'
  BY <1>1 DEF RootInUse, FreeInode, IInv, TypeOK, Inode, Root
<1>4. /\ Cardinality(FreeSet) \in Nat
      /\ Cardinality(FreeSet') = Cardinality(FreeSet) + 1
      /\ Cardinality(FreeSet') <= ITotal - 1
  <2>1. /\ IsFiniteSet(FreeSet) /\ Cardinality(FreeSet) \in Nat
        /\ FreeSet \subseteq Inode \ {Root}
    BY FreeSetFinite DEF IInv
  <2>2. Cardinality(FreeSet \cup {in}) = Cardinality(FreeSet) + 1
    BY <1>1, <2>1, FS_AddElement
  <2>3. Cardinality(FreeSet \cup {in}) <= Cardinality(Inode \ {Root})
    BY <1>1, <2>1, InodesFinite, FS_Subset
  <2>4. QED
    BY <1>2, <2>1, <2>2, <2>3, InodesFinite
<1>5. /\ sb.ifree \in Nat /\ sb.ifree <= Cardinality(FreeSet)
      /\ sb.ihead \in Word /\ t \in Word /\ in \in Word
  BY <1>1 DEF IInv, TypeOK, Superblocks, NeverOvercounts, Word
<1>6. sb' = [ifree |-> sb.ifree + 1, ihead |-> sb.ihead, itail |-> in] /\ dsb' = sb'
  BY <1>1 DEF FreeInode, IInv, TypeOK, Superblocks
<1>7. TypeOK'
  <2>1. sb.ifree + 1 \in 0 .. ITotal
    BY <1>4, <1>5
  <2>2. sb' \in Superblocks
    BY <1>5, <1>6, <2>1 DEF Superblocks
  <2>3. next' \in [Inode -> Word]
    <3>1. NULL_REFERENCE \in Word /\ in \in Word
      BY <1>5 DEF Word
    <3>2. next' = [next EXCEPT ![t] = in, ![in] = NULL_REFERENCE]
      BY <1>1 DEF FreeInode
    <3>3. QED
      BY <1>1, <3>1, <3>2 DEF IInv, TypeOK
  <2>4. free' \in [Inode -> BOOLEAN]
    BY DEF FreeInode, IInv, TypeOK
  <2>5. held' \subseteq Inode \ {Root}
    BY DEF FreeInode, IInv, TypeOK
  <2>6. QED
    BY <1>6, <2>2, <2>3, <2>4, <2>5 DEF TypeOK, FreeInode, Answer
<1>8. ASSUME sb.ihead # NULL_REFERENCE
      PROVE  sb'.ifree > 0 /\ \E p \in Orders(sb)' : IsList(sb, p)'
  <2>1. PICK q \in Orders(sb) : sb.ifree > 0 /\ IsList(sb, q)
    BY <1>8 DEF IInv, ListSound
  <2>2. PICK p : p = [n \in 1 .. sb.ifree + 1 |-> IF n <= sb.ifree THEN q[n] ELSE in]
    OBVIOUS
  <2>3. QED
    BY <1>8, <2>1, <2>2, FreedList
<1>9. ListSound'
  <2>1. sb'.ihead = sb.ihead /\ dsb' = sb'
    BY <1>6
  <2>2. sb'.ihead # NULL_REFERENCE =>
          sb'.ifree > 0 /\ \E p \in Orders(sb)' : IsList(sb, p)'
    BY <1>8, <2>1
  <2>3. QED
    BY <2>1, <2>2 DEF ListSound, Orders, IsList
<1>10. NeverOvercounts'
  BY <1>4, <1>5, <1>6 DEF NeverOvercounts
<1>11. HeldIsInUse'
  BY <1>1, <1>2 DEF HeldIsInUse, FreeInode, IInv
<1>12. DiskIsCurrent'
  BY <1>5, <1>6 DEF DiskIsCurrent
<1>13. TailIsInode'
  BY <1>1, <1>6 DEF TailIsInode
<1>14. QED
  BY <1>3, <1>7, <1>9, <1>10, <1>11, <1>12, <1>13 DEF IInv

\* Saving the superblock makes the disk's copy the one in memory.
LEMMA SbSaveIInv == IInv /\ SbSave => IInv'
<1> SUFFICES ASSUME IInv, SbSave PROVE IInv'
  OBVIOUS
<1>1. sb' = sb /\ dsb' = sb /\ FreeSet' = FreeSet
  BY DEF SbSave, FreeSet
<1>2. TypeOK'
  BY <1>1 DEF SbSave, IInv, TypeOK, NoAnswer, Answer
<1>3. ListSound'
  BY <1>1 DEF SbSave, IInv, ListSound, Orders, IsList
<1>4. NeverOvercounts' /\ DiskIsCurrent'
  BY <1>1 DEF IInv, NeverOvercounts, DiskIsCurrent, TypeOK, Superblocks
<1>5. HeldIsInUse' /\ TailIsInode' /\ RootInUse'
  BY <1>1 DEF SbSave, IInv, HeldIsInUse, TailIsInode, RootInUse
<1>6. QED
  BY <1>2, <1>3, <1>4, <1>5 DEF IInv

\* Mounting makes the copy in memory the disk's.
LEMMA RemountIInv == IInv /\ Remount => IInv'
<1> SUFFICES ASSUME IInv, Remount PROVE IInv'
  OBVIOUS
<1>1. sb' = dsb /\ dsb' = dsb /\ FreeSet' = FreeSet
  BY DEF Remount, FreeSet
<1>2. TypeOK'
  BY <1>1 DEF Remount, IInv, TypeOK, NoAnswer, Answer
<1>3. ListSound'
  BY <1>1 DEF Remount, IInv, ListSound, Orders, IsList
<1>4. NeverOvercounts' /\ DiskIsCurrent'
  BY <1>1 DEF IInv, NeverOvercounts, DiskIsCurrent, TypeOK, Superblocks
<1>5. HeldIsInUse' /\ TailIsInode' /\ RootInUse'
  BY <1>1 DEF Remount, IInv, HeldIsInUse, TailIsInode, RootInUse, DiskIsCurrent
<1>6. QED
  BY <1>2, <1>3, <1>4, <1>5 DEF IInv

\* Every step keeps the invariant.
LEMMA NextIInv == IInv /\ [Next]_vars => IInv'
<1> SUFFICES ASSUME IInv, [Next]_vars PROVE IInv'
  OBVIOUS
<1>1. CASE AllocNoSpace
  BY <1>1, StutterIInv DEF AllocNoSpace, Answer
<1>2. CASE AllocBadHead
  BY <1>2, AllocBadHeadIInv
<1>3. CASE AllocInode
  BY <1>3, AllocInodeIInv
<1>4. ASSUME NEW in \in 0 .. ITotal + 1, FreeInvalid(in) PROVE IInv'
  BY <1>4, StutterIInv DEF FreeInvalid, Answer
<1>5. ASSUME NEW in \in 0 .. ITotal + 1, FreeAlreadyFree(in) PROVE IInv'
  BY <1>5, StutterIInv DEF FreeAlreadyFree, Answer
<1>6. ASSUME NEW in \in 0 .. ITotal + 1, FreeInode(in) PROVE IInv'
  BY <1>6, FreeInodeIInv
<1>7. CASE SbSave
  BY <1>7, SbSaveIInv
<1>8. CASE Remount
  BY <1>8, RemountIInv
<1>9. CASE UNCHANGED vars
  BY <1>9, StutterIInv DEF vars, IInv, TypeOK
<1>10. QED
  BY <1>1, <1>2, <1>3, <1>4, <1>5, <1>6, <1>7, <1>8, <1>9 DEF Next

-----------------------------------------------------------------------------
(* The theorems *)

\* The invariant holds of every reachable state.
THEOREM Invariance == Spec => []IInv
<1>1. Init => IInv
  BY InitIInv
<1>2. IInv /\ [Next]_vars => IInv'
  BY NextIInv
<1>3. QED
  BY <1>1, <1>2, PTL DEF Spec

\* soAllocInode and soFreeInode keep the types of the superblock and the table:
\* the number of free inodes never leaves 0 .. ITotal, and no list word is
\* anything but an inode, null or a time.
THEOREM TypeCorrect == Spec => []TypeOK
<1>1. IInv => TypeOK
  BY DEF IInv
<1>2. QED
  BY <1>1, Invariance, PTL

\* Until it has been emptied, the list runs through every free inode once.
THEOREM ListIsSound == Spec => []ListSound
<1>1. IInv => ListSound
  BY DEF IInv
<1>2. QED
  BY <1>1, Invariance, PTL

\* The superblock never counts more free inodes than there are.
THEOREM NoOvercount == Spec => []NeverOvercounts
<1>1. IInv => NeverOvercounts
  BY DEF IInv
<1>2. QED
  BY <1>1, Invariance, PTL

\* A remount gives back the superblock in memory, but for failed allocations.
THEOREM DiskCurrent == Spec => []DiskIsCurrent
<1>1. IInv => DiskIsCurrent
  BY DEF IInv
<1>2. QED
  BY <1>1, Invariance, PTL

\* Every inode but the root's is held or marked free, never both.
THEOREM HeldInUse == Spec => []HeldIsInUse
<1>1. IInv => HeldIsInUse
  BY DEF IInv
<1>2. QED
  BY <1>1, Invariance, PTL

\* soAllocInode never answers with an inode somebody holds, nor the root's.
THEOREM NoInodeTwice == Spec => NoDoubleAlloc
<1> DEFINE Fresh == ret'.call = "alloc" /\ ret'.err = "OK"
                      => ret'.in \notin held /\ ret'.in # Root
<1>1. IInv /\ [Next]_vars => [Fresh]_vars
  <2> SUFFICES ASSUME IInv, Next PROVE Fresh
    OBVIOUS
  <2>1. CASE AllocInode
    <3>1. ret'.in = sb.ihead
      BY <2>1 DEF AllocInode, Answer
    <3>2. sb.ihead \in FreeSet
      BY <2>1, HeadOpens, HeadIsFree DEF AllocInode
    <3>3. QED
      BY <3>1, <3>2, FreeSetFinite DEF IInv, HeldIsInUse
  <2>2. CASE AllocNoSpace \/ AllocBadHead
    BY <2>2 DEF AllocNoSpace, AllocBadHead, Answer
  <2>3. ASSUME NEW in \in 0 .. ITotal + 1,
               FreeInvalid(in) \/ FreeAlreadyFree(in) \/ FreeInode(in)
        PROVE  Fresh
    BY <2>3 DEF FreeInvalid, FreeAlreadyFree, FreeInode, Answer
  <2>4. CASE SbSave \/ Remount
    BY <2>4 DEF SbSave, Remount, NoAnswer, Answer
  <2>5. QED
    BY <2>1, <2>2, <2>3, <2>4 DEF Next
<1>2. QED
  BY <1>1, Invariance, PTL DEF NoDoubleAlloc, Spec

-----------------------------------------------------------------------------
(* soAllocInode and soFreeInode implement the pool of InodePool: free inodes  *)
(* are handed out in the order they were freed.  The queue of the pool is the *)
(* order in which the list runs through the free inodes.  There is only one   *)
(* (OneList), so whatever order a step is shown to leave is the queue after   *)
(* it.                                                                        *)

-----------------------------------------------------------------------------
(* The list is unique *)

\* A set of natural numbers that is not empty has a smallest one.
LEMMA SmallestOf ==
  ASSUME NEW T \in SUBSET Nat, T # {}
  PROVE  \E m \in T : \A k \in T : m <= k
<1> DEFINE R == OpToRel(<, Nat)
<1>1. IsWellFoundedOn(R, Nat)
  BY NatLessThanWellFounded
<1>2. \A x, y \in Nat : x < y => <<x, y>> \in R
  BY DEF OpToRel
<1> HIDE DEF R
<1>3. PICK x \in T : \A y \in T : ~ (<<y, x>> \in R)
  BY <1>1, WFMin
<1>4. ASSUME NEW k \in T PROVE x <= k
  <2>1. k \in Nat /\ x \in Nat
    OBVIOUS
  <2>2. ~ (k < x)
    BY <1>2, <1>3, <2>1
  <2>3. QED
    BY <2>1, <2>2
<1>5. QED
  BY <1>4

\* p is a walk of n inodes from h along the words f.
Walk(p, n, h, f) ==
  /\ p \in [1 .. n -> Inode]
  /\ p[1] = h
  /\ \A k \in 1 .. n - 1 : f[p[k]] = p[k + 1]

\* There is one walk of each length from an inode.
LEMMA SameWalk ==
  ASSUME NEW n \in Nat, NEW h, NEW f, NEW p, NEW q, Walk(p, n, h, f), Walk(q, n, h, f)
  PROVE  p = q
<1> USE DEF Walk
<1> DEFINE T == {k \in 1 .. n : p[k] # q[k]}
<1>1. ASSUME T # {} PROVE FALSE
  <2>1. T \in SUBSET Nat
    OBVIOUS
  <2>2. PICK m \in T : \A k \in T : m <= k
    BY <1>1, <2>1, SmallestOf
  <2>3. m \in 1 .. n /\ p[m] # q[m] /\ m # 1
    OBVIOUS
  <2>4. m - 1 \in 1 .. n - 1 /\ m - 1 \in 1 .. n /\ (m - 1) + 1 = m /\ ~ (m <= m - 1)
    BY <2>3
  <2>5. p[m - 1] = q[m - 1]
    BY <2>2, <2>4
  <2>6. f[p[m - 1]] = p[m] /\ f[q[m - 1]] = q[m]
    BY <2>4
  <2>7. QED
    BY <2>3, <2>5, <2>6
<1>2. \A k \in 1 .. n : p[k] = q[k]
  BY <1>1
<1>3. QED
  BY <1>2

\* A list the superblock describes is the queue: there is no second one.
LEMMA QueueIs ==
  ASSUME sb.ifree \in Nat, sb.ihead # NULL_REFERENCE,
         NEW q \in Orders(sb), IsList(sb, q)
  PROVE  Queue = q
<1>1. PICK p : p = CHOOSE r \in Orders(sb) : IsList(sb, r)
  OBVIOUS
<1>2. p \in Orders(sb) /\ IsList(sb, p)
  BY <1>1
<1>3. Walk(p, sb.ifree, sb.ihead, next) /\ Walk(q, sb.ifree, sb.ihead, next)
  BY <1>2 DEF Orders, IsList, Walk, FreeSet
<1>4. p = q
  BY <1>3, SameWalk
<1>5. QED
  BY <1>1, <1>4 DEF Queue

\* The same of the state a step leaves.
LEMMA QueueWillBe ==
  ASSUME (sb.ifree \in Nat)', (sb.ihead # NULL_REFERENCE)',
         NEW q, (q \in Orders(sb))', IsList(sb, q)'
  PROVE  Queue' = q
<1>1. PICK p : p = (CHOOSE r \in Orders(sb) : IsList(sb, r))'
  OBVIOUS
<1>2. (p \in Orders(sb))' /\ IsList(sb, p)'
  BY <1>1
<1>3. Walk(p, sb'.ifree, sb'.ihead, next') /\ Walk(q, sb'.ifree, sb'.ihead, next')
  BY <1>2 DEF Orders, IsList, Walk, FreeSet
<1>4. p = q
  BY <1>3, SameWalk
<1>5. QED
  BY <1>1, <1>4 DEF Queue

\* Without a list the queue is empty, and with one it is not.
LEMMA QueueEmpty ==
  ASSUME IInv
  PROVE  (Queue = <<>>) <=> (sb.ihead = NULL_REFERENCE)
<1>1. CASE sb.ihead = NULL_REFERENCE
  BY <1>1 DEF Queue
<1>2. CASE sb.ihead # NULL_REFERENCE
  <2>1. PICK q \in Orders(sb) : sb.ifree > 0 /\ IsList(sb, q)
    BY <1>2 DEF IInv, ListSound
  <2>2. sb.ifree \in Nat
    BY DEF IInv, TypeOK, Superblocks
  <2>3. Queue = q
    BY <1>2, <2>1, <2>2, QueueIs
  <2>4. q # <<>>
    BY <2>1, <2>2 DEF Orders
  <2>5. QED
    BY <1>2, <2>3, <2>4
<1>3. QED
  BY <1>1, <1>2

\* As long as there is a list, the queue is the list, and so holds every free
\* inode; without one the free inodes are stranded.
LEMMA QueueIsList ==
  ASSUME IInv, sb.ihead # NULL_REFERENCE
  PROVE  /\ sb.ifree \in Nat \ {0}
         /\ Queue \in Orders(sb) /\ IsList(sb, Queue)
         /\ Queue[1] = sb.ihead
         /\ Stranded = {}
<1>1. PICK q \in Orders(sb) : sb.ifree > 0 /\ IsList(sb, q)
  BY DEF IInv, ListSound
<1>2. sb.ifree \in Nat \ {0}
  BY <1>1 DEF IInv, TypeOK, Superblocks
<1>3. Queue = q
  BY <1>1, <1>2, QueueIs
<1>4. QED
  BY <1>1, <1>2, <1>3 DEF IsList, Stranded

-----------------------------------------------------------------------------
(* Every step of the list is a step of the pool *)

\* The formatted list is the pool's first queue.
LEMMA InitPool == Init => Pool!Init
<1> SUFFICES ASSUME Init PROVE Pool!Init
  OBVIOUS
<1> USE FreeInodesAssumption
<1>1. IInv
  BY InitIInv
<1>2. /\ sb.ifree = ITotal - 1 /\ sb.ihead = 1 /\ sb.itail = ITotal - 1
      /\ ITotal - 1 \in Nat /\ 1 # NULL_REFERENCE
  BY DEF Init
<1>3. FreeSet = 1 .. ITotal - 1
  <2>1. \A in \in Inode : free[in] = (in # Root)
    BY Zenon DEF Init
  <2>2. FreeSet = {in \in Inode : in # Root}
    BY <2>1, Zenon DEF FreeSet
  <2>3. QED
    BY <2>2 DEF Inode, Root
<1>4. PICK q : q = [n \in 1 .. ITotal - 1 |-> n]
  OBVIOUS
<1>5. q \in Orders(sb)
  BY <1>2, <1>3, <1>4 DEF Orders
<1>6. IsList(sb, q)
  <2>1. \A n \in 1 .. ITotal - 2 : next[n] = n + 1
    BY DEF Init, Inode, Root
  <2>2. next[ITotal - 1] = NULL_REFERENCE
    BY DEF Init, Inode, Root
  <2>3. QED
    BY <1>2, <1>4, <2>1, <2>2 DEF IsList
<1>7. Queue = q
  BY <1>2, <1>5, <1>6, QueueIs
<1>8. Stranded = {}
  BY <1>2 DEF Stranded
<1>9. held = {} /\ ret = Pool!NoAnswer
  BY DEF Init, NoAnswer, Answer, Pool!NoAnswer, Pool!Answer
<1>10. QED
  BY <1>4, <1>7, <1>8, <1>9 DEF Pool!Init

\* A step that leaves the list alone leaves the queue and the stranded alone.
LEMMA SameQueue ==
  ASSUME UNCHANGED <<free, next>>, sb'.ihead = sb.ihead, sb'.itail = sb.itail,
         sb.ihead # NULL_REFERENCE => sb'.ifree = sb.ifree
  PROVE  UNCHANGED <<Queue, Stranded>>
<1>1. FreeSet' = FreeSet
  BY DEF FreeSet
<1>2. Stranded' = Stranded
  BY <1>1 DEF Stranded
<1>3. CASE sb.ihead = NULL_REFERENCE
  BY <1>2, <1>3 DEF Queue
<1>4. CASE sb.ihead # NULL_REFERENCE
  <2>1. Orders(sb)' = Orders(sb)
    BY <1>1, <1>4 DEF Orders
  <2>2. \A q : IsList(sb, q)' <=> IsList(sb, q)
    BY <1>4 DEF IsList
  <2>3. (CHOOSE q \in Orders(sb) : IsList(sb, q))' = CHOOSE q \in Orders(sb) : IsList(sb, q)
    BY <2>1, <2>2
  <2>4. QED
    BY <1>2, <1>4, <2>3 DEF Queue
<1>5. QED
  BY <1>3, <1>4

\* soAllocInode hands out the head of the queue.
LEMMA AllocInodePool == IInv /\ AllocInode => Pool!Alloc
<1> SUFFICES ASSUME IInv, AllocInode PROVE Pool!Alloc
  OBVIOUS
<1> USE FreeInodesAssumption
<1>1. sb.ihead # NULL_REFERENCE
  BY HeadOpens DEF AllocInode
<1>2. /\ sb.ifree \in Nat \ {0} /\ Queue[1] = sb.ihead /\ Stranded = {} /\ Queue # <<>>
      /\ Queue \in [1 .. sb.ifree -> FreeSet]
  BY <1>1, QueueIsList, QueueEmpty DEF Orders
<1>3. PICK q : q = Queue
  OBVIOUS
<1>4. q \in Orders(sb) /\ IsList(sb, q)
  BY <1>1, <1>3, QueueIsList
<1>5. Queue \in Seq(FreeSet) /\ Len(Queue) = sb.ifree /\ Head(Queue) = sb.ihead
  BY <1>2
<1>6. PICK p : p = [n \in 1 .. sb.ifree - 1 |-> q[n + 1]]
  OBVIOUS
<1>7. Tail(q) = p
  <2>1. q \in Seq(FreeSet) /\ q # <<>> /\ Len(q) = sb.ifree
    BY <1>2, <1>3, <1>5
  <2>2. /\ Tail(q) \in Seq(FreeSet) /\ Len(Tail(q)) = sb.ifree - 1
        /\ \A n \in 1 .. Len(Tail(q)) : Tail(q)[n] = q[n + 1]
    BY <2>1, HeadTailProperties
  <2>3. \A n \in 1 .. sb.ifree - 1 : n + 1 \in 1 .. sb.ifree /\ p[n] = q[n + 1]
    BY <1>2, <1>6
  <2>4. sb.ifree - 1 \in Nat /\ \A n \in 1 .. sb.ifree - 1 : p[n] \in FreeSet
    BY <1>2, <1>3, <2>3
  <2>5. p \in [1 .. sb.ifree - 1 -> FreeSet]
    BY <1>6, <2>4
  <2>6. p \in Seq(FreeSet) /\ Len(p) = sb.ifree - 1
    BY <2>4, <2>5
  <2>7. QED
    BY <2>2, <2>3, <2>6, SeqEqual
<1>8. sb'.ihead = next[sb.ihead] /\ sb'.ifree = sb.ifree - 1 /\ IInv'
  BY AllocInodeIInv DEF AllocInode, IInv, TypeOK, Superblocks
<1>9. Queue' = p /\ Stranded' = {}
  <2>1. CASE next[sb.ihead] # NULL_REFERENCE
    <3>1. sb'.ifree > 0 /\ p \in Orders(sb)' /\ IsList(sb, p)'
      BY <1>4, <1>6, <2>1, AllocatedList
    <3>2. Queue' = p
      BY <1>2, <1>8, <2>1, <3>1, QueueWillBe
    <3>3. Stranded' = {}
      BY <1>8, <2>1 DEF Stranded
    <3>4. QED
      BY <3>2, <3>3
  <2>2. CASE next[sb.ihead] = NULL_REFERENCE
    <3>1. sb.ifree = 1
      <4>1. CASE sb.ifree > 1
        <5>1. next[q[1]] = q[2] /\ q[2] \in FreeSet
          BY <1>2, <1>4, <4>1 DEF IsList, Orders
        <5>2. q[1] = sb.ihead
          BY <1>2, <1>3
        <5>3. NULL_REFERENCE \notin FreeSet
          BY DEF FreeSet, Inode
        <5>4. QED
          BY <2>2, <5>1, <5>2, <5>3
      <4>2. QED
        BY <1>2, <4>1
    <3>2. Queue' = <<>> /\ p = <<>>
      BY <1>6, <1>8, <2>2, <3>1 DEF Queue
    <3>3. FreeSet = {sb.ihead}
      BY <1>2, <1>3, <1>4, <3>1 DEF Orders
    <3>4. FreeSet' = {}
      BY <3>3 DEF FreeSet, AllocInode, IInv, TypeOK
    <3>5. QED
      BY <3>2, <3>4 DEF Stranded
  <2>3. QED
    BY <2>1, <2>2
<1>10. held' = held \cup {Head(Queue)} /\ ret' = Pool!Answer("alloc", Head(Queue), "OK")
  BY <1>5 DEF AllocInode, Answer, Pool!Answer
<1>11. QED
  BY <1>2, <1>3, <1>7, <1>9, <1>10 DEF Pool!Alloc

\* A failed allocation finds the queue empty, and EINVAL betrays a stranded
\* inode: the superblock still counts it.
LEMMA AllocFailsPool == IInv /\ (AllocNoSpace \/ AllocBadHead) => Pool!AllocFails
<1> SUFFICES ASSUME IInv, AllocNoSpace \/ AllocBadHead PROVE Pool!AllocFails
  OBVIOUS
<1>1. sb.ihead = NULL_REFERENCE
  <2>1. CASE AllocNoSpace
    BY <2>1, QueueIsList DEF AllocNoSpace
  <2>2. CASE AllocBadHead
    BY <2>2, HeadOpens DEF AllocBadHead
  <2>3. QED
    BY <2>1, <2>2
<1>2. UNCHANGED <<free, next, held>> /\ sb'.ihead = sb.ihead /\ sb'.itail = sb.itail
  BY DEF AllocNoSpace, AllocBadHead, IInv, TypeOK, Superblocks
<1>3. UNCHANGED <<Queue, Stranded, held>>
  BY <1>1, <1>2, SameQueue
<1>4. Queue = <<>>
  BY <1>1, QueueEmpty
<1>5. CASE AllocNoSpace
  <2>1. ret' = Pool!Answer("alloc", NULL_REFERENCE, "ENOSPC")
    BY <1>5 DEF AllocNoSpace, Answer, Pool!Answer
  <2>2. QED
    BY <1>3, <1>4, <2>1 DEF Pool!AllocFails
<1>6. CASE AllocBadHead
  <2>1. ret' = Pool!Answer("alloc", NULL_REFERENCE, "EINVAL")
    BY <1>6 DEF AllocBadHead, Answer, Pool!Answer
  <2>2. FreeSet # {}
    <3>1. sb.ifree \in Nat \ {0} /\ sb.ifree <= Cardinality(FreeSet)
      BY <1>6, FreeInodesAssumption
         DEF AllocBadHead, IInv, TypeOK, Superblocks, NeverOvercounts
    <3>2. CASE FreeSet = {}
      BY <3>1, <3>2, FS_EmptySet
    <3>3. QED
      BY <3>2
  <2>3. Stranded # {}
    BY <1>1, <2>2 DEF Stranded
  <2>4. QED
    BY <1>3, <1>4, <2>1, <2>3 DEF Pool!AllocFails
<1>7. QED
  BY <1>5, <1>6

\* soFreeInode puts the inode at the end of the queue, or strands it.
LEMMA FreeInodePool ==
  ASSUME IInv, NEW in \in 0 .. ITotal + 1, FreeInode(in)
  PROVE  Pool!Free(in)
<1> USE FreeInodesAssumption
<1>1. /\ in \in Inode \ {Root} /\ in \notin FreeSet /\ Anchored(in) = sb
      /\ FreeSet' = FreeSet \cup {in}
  <2>1. in \in Inode \ {Root} /\ in \notin FreeSet
    BY DEF FreeInode, FreeSet
  <2>2. Anchored(in) = sb
    BY DEF IInv, TailIsInode, Anchored, Inode
  <2>3. FreeSet' = FreeSet \cup {in}
    BY <2>1 DEF FreeInode, FreeSet, IInv, TypeOK
  <2>4. QED
    BY <2>1, <2>2, <2>3
<1>2. in \in held /\ held' = held \ {in}
  BY <1>1 DEF FreeInode, IInv, HeldIsInUse
<1>3. sb'.ihead = sb.ihead /\ sb'.ifree = sb.ifree + 1 /\ sb.ifree \in Nat
  BY <1>1 DEF FreeInode, IInv, TypeOK, Superblocks
<1>4. ret' = Pool!Answer("free", in, "OK")
  BY DEF FreeInode, Answer, Pool!Answer
<1>5. CASE sb.ihead = NULL_REFERENCE
  <2>1. Queue = <<>> /\ Queue' = Queue
    BY <1>3, <1>5 DEF Queue
  <2>2. Stranded' = Stranded \cup {in}
    BY <1>1, <1>3, <1>5 DEF Stranded
  <2>3. QED
    BY <1>2, <1>4, <2>1, <2>2 DEF Pool!Free
<1>6. CASE sb.ihead # NULL_REFERENCE
  <2>1. PICK q : q = Queue
    OBVIOUS
  <2>2. q \in Orders(sb) /\ IsList(sb, q) /\ sb.ifree \in Nat \ {0} /\ q # <<>>
    BY <1>6, <2>1, QueueIsList, QueueEmpty
  <2>3. PICK p : p = [n \in 1 .. sb.ifree + 1 |-> IF n <= sb.ifree THEN q[n] ELSE in]
    OBVIOUS
  <2>4. p \in Orders(sb)' /\ IsList(sb, p)'
    BY <1>6, <2>2, <2>3, FreedList
  <2>5. Queue' = p
    BY <1>3, <1>6, <2>4, QueueWillBe
  <2>6. q \in Seq(Inode) /\ Len(q) = sb.ifree
    BY <2>2 DEF Orders, FreeSet
  <2>7. Append(q, in) = p
    <3>1. /\ Append(q, in) \in Seq(Inode) /\ Len(Append(q, in)) = sb.ifree + 1
          /\ \A n \in 1 .. sb.ifree : Append(q, in)[n] = q[n]
          /\ Append(q, in)[sb.ifree + 1] = in
      BY <1>1, <2>6, AppendProperties
    <3>2. p \in Seq(Inode) /\ Len(p) = sb.ifree + 1
      <4>1. \A n \in 1 .. sb.ifree : q[n] \in Inode
        BY <2>2 DEF Orders, FreeSet
      <4>2. p \in [1 .. sb.ifree + 1 -> Inode]
        BY <1>1, <2>2, <2>3, <4>1
      <4>3. QED
        BY <2>2, <4>2
    <3>3. \A n \in 1 .. sb.ifree + 1 : Append(q, in)[n] = p[n]
      BY <2>2, <2>3, <3>1
    <3>4. QED
      BY <3>1, <3>2, <3>3, SeqEqual
  <2>8. Stranded' = Stranded
    BY <1>3, <1>6 DEF Stranded
  <2>9. QED
    BY <1>2, <1>4, <2>1, <2>2, <2>5, <2>7, <2>8 DEF Pool!Free
<1>7. QED
  BY <1>5, <1>6

\* Freeing what is free, or what is no inode, changes nothing.
LEMMA FreeNothingPool ==
  ASSUME IInv, NEW in \in 0 .. ITotal + 1, FreeAlreadyFree(in) \/ FreeInvalid(in)
  PROVE  Pool!FreeAgain(in) \/ Pool!FreeFails(in)
<1> USE FreeInodesAssumption
<1>1. UNCHANGED <<Queue, Stranded, held>>
  BY SameQueue DEF FreeAlreadyFree, FreeInvalid
<1>2. CASE FreeAlreadyFree(in)
  <2>1. in \in FreeSet /\ ret' = Pool!Answer("free", in, "OK")
    BY <1>2 DEF FreeAlreadyFree, FreeSet, Answer, Pool!Answer
  <2>2. CASE sb.ihead = NULL_REFERENCE
    BY <1>1, <2>1, <2>2 DEF Stranded, Pool!FreeAgain
  <2>3. CASE sb.ihead # NULL_REFERENCE
    <3>1. \E n \in DOMAIN Queue : Queue[n] = in
      BY <2>1, <2>3, QueueIsList DEF Orders
    <3>2. in \in Pool!Range(Queue)
      BY <3>1 DEF Pool!Range
    <3>3. QED
      BY <1>1, <2>1, <3>2 DEF Pool!FreeAgain
  <2>4. QED
    BY <2>2, <2>3
<1>3. CASE FreeInvalid(in)
  <2>1. in \notin Pool!Inode \ {Pool!Root} /\ ret' = Pool!Answer("free", in, "EINVAL")
    BY <1>3 DEF FreeInvalid, IOpens, Inode, Answer, Pool!Inode, Pool!Root, Pool!Answer
  <2>2. QED
    BY <1>1, <2>1 DEF Pool!FreeFails
<1>4. QED
  BY <1>2, <1>3

\* Saving the superblock or mounting again leaves the pool as it was.
LEMMA OtherCallPool == IInv /\ (SbSave \/ Remount) => Pool!OtherCall
<1> SUFFICES ASSUME IInv, SbSave \/ Remount PROVE Pool!OtherCall
  OBVIOUS
<1>1. UNCHANGED <<free, next, held>> /\ sb'.ihead = sb.ihead /\ sb'.itail = sb.itail
  BY DEF SbSave, Remount, IInv, DiskIsCurrent
<1>2. sb.ihead # NULL_REFERENCE => sb'.ifree = sb.ifree
  BY DEF SbSave, Remount, IInv, DiskIsCurrent
<1>3. UNCHANGED <<Queue, Stranded>>
  BY <1>1, <1>2, SameQueue
<1>4. ret' = Pool!NoAnswer
  BY DEF SbSave, Remount, NoAnswer, Answer, Pool!NoAnswer, Pool!Answer
<1>5. QED
  BY <1>1, <1>3, <1>4 DEF Pool!OtherCall

\* Every step of the list is a step of the pool, or changes nothing.
LEMMA NextPool == IInv /\ [Next]_vars => [Pool!Next]_(Pool!vars)
<1> SUFFICES ASSUME IInv, [Next]_vars PROVE [Pool!Next]_(Pool!vars)
  OBVIOUS
<1>1. CASE AllocNoSpace \/ AllocBadHead
  BY <1>1, AllocFailsPool DEF Pool!Next
<1>2. CASE AllocInode
  BY <1>2, AllocInodePool DEF Pool!Next
<1>3. ASSUME NEW in \in 0 .. ITotal + 1,
             FreeInvalid(in) \/ FreeAlreadyFree(in) \/ FreeInode(in)
      PROVE  Pool!Next
  BY <1>3, FreeInodePool, FreeNothingPool DEF Pool!Next
<1>4. CASE SbSave \/ Remount
  BY <1>4, OtherCallPool DEF Pool!Next
<1>5. CASE UNCHANGED vars
  <2>1. UNCHANGED <<sb, free, next, held, ret>>
    BY <1>5 DEF vars
  <2>2. UNCHANGED <<Queue, Stranded>>
    BY <2>1, SameQueue
  <2>3. QED
    BY <2>1, <2>2 DEF Pool!vars
<1>6. QED
  BY <1>1, <1>2, <1>3, <1>4, <1>5 DEF Next

-----------------------------------------------------------------------------
\* The list of free inodes implements the pool: whatever was allocated, freed,
\* failed, saved and mounted before, inodes leave in the order they came.
THEOREM ListImplementsPool == Spec => PoolSpec
<1>1. Init => Pool!Init
  BY InitPool
<1>2. IInv /\ [Next]_vars => [Pool!Next]_(Pool!vars)
  BY NextPool
<1>3. QED
  BY <1>1, <1>2, Invariance, PTL DEF Spec, PoolSpec, Pool!Spec
-----------------------------------------------------------------------------
(* When the machine may stop inside a call, for any number of crashes.        *)
(*                                                                            *)
(* What a crash does to the list is one of three things, and each step leads  *)
(* from one of them to another.  Whole: the list runs from ihead to itail and  *)
(* may go on by one inode that a free cut short has appended and no superblock *)
(* knows of.  Cut: the head is the only inode the list can still hand out,     *)
(* since the word behind it is no inode: a cut allocation left a time there,   *)
(* or everything before the appended inode is gone.  Dead: the head is no      *)
(* inode, and no allocation succeeds any more.  In none of them does the list  *)
(* come to an inode that somebody holds.                                       *)

Usable == Inode \ {Root}

Ends == [ifree : Int, ihead : Word, itail : Usable]

CrashTypes ==
  /\ sb \in Ends /\ dsb \in Ends
  /\ dsb.ihead = sb.ihead /\ dsb.itail = sb.itail
  /\ free \in [Inode -> BOOLEAN]
  /\ next \in [Inode -> Word]
  /\ held \subseteq Usable

\* An inode nobody holds, with no inode behind it.
Loose(in) == in \in Usable \ held /\ next[in] \notin Inode

Dead == sb.ihead \notin Inode
Cut == Loose(sb.ihead) /\ sb.itail # sb.ihead

\* The list from head to tail, in order.
Chain(k, q) ==
  /\ q \in [1 .. k -> Usable \ held]
  /\ \A m, n \in 1 .. k : q[m] = q[n] => m = n
  /\ q[1] = sb.ihead /\ q[k] = sb.itail
  /\ \A n \in 1 .. k - 1 : next[q[n]] = q[n + 1]

BeyondTail ==
  next[sb.itail] \in Inode => Loose(next[sb.itail]) /\ next[sb.itail] # sb.itail

HeldEnd == \A in \in held : next[in] \notin Inode

Whole ==
  /\ \E k \in Nat \ {0} : \E q \in [1 .. k -> Usable \ held] : Chain(k, q)
  /\ BeyondTail
  /\ HeldEnd

CInv == CrashTypes /\ HeldNotFree /\ (Dead \/ Cut \/ Whole)

-----------------------------------------------------------------------------
(* The formatted table *)

\* Neither null nor a time is the number of an inode.
LEMMA NotInodes == NULL_REFERENCE \notin Inode /\ Now \notin Inode
BY FreeInodesAssumption DEF Inode

\* mksofs leaves the list from 1 to ITotal - 1, whole and with nothing behind
\* its end.
LEMMA InitCInv == Init => CInv
<1> SUFFICES ASSUME Init PROVE CInv
  OBVIOUS
<1>1. 1 \in Usable /\ ITotal - 1 \in Usable /\ ITotal - 1 \in Int /\ held = {}
  BY FreeInodesAssumption DEF Init, Usable, Inode, Root
<1>2. sb \in Ends /\ dsb = sb
  BY <1>1, FreeInodesAssumption DEF Init, Ends, Word, Usable
<1>3. next \in [Inode -> Word] /\ free \in [Inode -> BOOLEAN]
  <2>1. ASSUME NEW in \in Inode, in # ITotal - 1 PROVE in + 1 \in Inode
    BY <2>1, FreeInodesAssumption DEF Inode
  <2>2. QED
    BY <2>1 DEF Init, Word
<1>4. CrashTypes /\ HeldNotFree
  BY <1>1, <1>2, <1>3 DEF CrashTypes, HeldNotFree
<1>5. Whole
  <2> DEFINE q == [n \in 1 .. ITotal - 1 |-> n]
  <2>1. ITotal - 1 \in Nat \ {0}
    BY FreeInodesAssumption
  <2>2. q \in [1 .. ITotal - 1 -> Usable \ held]
    BY <1>1, FreeInodesAssumption DEF Usable, Inode, Root
  <2>3. Chain(ITotal - 1, q)
    <3>1. q[1] = sb.ihead /\ q[ITotal - 1] = sb.itail
      <4>1. sb.ihead = 1 /\ sb.itail = ITotal - 1
        BY DEF Init
      <4>2. 1 \in 1 .. ITotal - 1 /\ ITotal - 1 \in 1 .. ITotal - 1
        BY FreeInodesAssumption
      <4>3. q[1] = 1 /\ q[ITotal - 1] = ITotal - 1
        BY <4>2
      <4>4. QED
        BY <4>1, <4>3
    <3>2. ASSUME NEW n \in 1 .. (ITotal - 1) - 1 PROVE next[q[n]] = q[n + 1]
      BY FreeInodesAssumption DEF Init, Inode, Root
    <3>3. QED
      BY <2>2, <3>1, <3>2 DEF Chain
  <2>4. BeyondTail /\ HeldEnd
    BY <1>1, NotInodes, FreeInodesAssumption DEF BeyondTail, HeldEnd, Init, Usable, Root
  <2>5. QED
    BY <2>1, <2>2, <2>3, <2>4 DEF Whole
<1>6. QED
  BY <1>4, <1>5 DEF CInv

-----------------------------------------------------------------------------
(* The calls and the crashes *)

\* The head of the list, if it is an inode, is one that nobody holds.
LEMMA HeadNotHeld ==
  ASSUME CInv, sb.ihead \in Inode
  PROVE  sb.ihead \in Usable \ held
<1>1. CASE Cut
  BY <1>1 DEF Cut, Loose
<1>2. CASE Whole
  <2>1. PICK k \in Nat \ {0} : \E q \in [1 .. k -> Usable \ held] : Chain(k, q)
    BY <1>2 DEF Whole
  <2>2. PICK q \in [1 .. k -> Usable \ held] : Chain(k, q)
    BY <2>1
  <2>3. 1 \in 1 .. k
    OBVIOUS
  <2>4. QED
    BY <2>2, <2>3 DEF Chain
<1>3. QED
  BY <1>1, <1>2 DEF CInv, Dead

\* A step that leaves the inodes and both ends of the list alone.
LEMMA ListKept ==
  ASSUME CInv, UNCHANGED <<free, next, held>>, sb' \in Ends, dsb' \in Ends,
         sb'.ihead = sb.ihead, sb'.itail = sb.itail,
         dsb'.ihead = sb.ihead, dsb'.itail = sb.itail
  PROVE  CInv'
<1>1. CrashTypes' /\ HeldNotFree'
  BY DEF CInv, CrashTypes, HeldNotFree, Ends
<1>2. CASE Dead
  BY <1>1, <1>2 DEF CInv, Dead
<1>3. CASE Cut
  BY <1>1, <1>3 DEF CInv, Cut, Loose
<1>4. CASE Whole
  <2>1. PICK k \in Nat \ {0} : \E q \in [1 .. k -> Usable \ held] : Chain(k, q)
    BY <1>4 DEF Whole
  <2>2. PICK q \in [1 .. k -> Usable \ held] : Chain(k, q)
    BY <2>1
  <2>3. Chain(k, q)'
    BY <2>2 DEF Chain
  <2>4. BeyondTail' /\ HeldEnd'
    BY <1>4 DEF Whole, BeyondTail, HeldEnd, Loose
  <2>5. QED
    BY <1>1, <2>2, <2>3, <2>4 DEF CInv, Whole
<1>5. QED
  BY <1>2, <1>3, <1>4 DEF CInv

\* The head leaves the list: soAllocInode, or what a crash keeps of it.
LEMMA AllocKeeps == ASSUME CInv, AllocInode PROVE CInv'
<1>0. PICK h : h = sb.ihead
  OBVIOUS
<1>1. h \in Inode /\ h \in Usable \ held
  BY <1>0, HeadNotHeld DEF AllocInode, IOpens
<1>2. /\ next' = [next EXCEPT ![h] = Now] /\ free' = [free EXCEPT ![h] = FALSE]
      /\ held' = held \cup {h} /\ dsb' = sb'
      /\ sb' = [sb EXCEPT !.ifree = @ - 1, !.ihead = next[h]]
  BY <1>0 DEF AllocInode
<1>3. sb' \in Ends /\ sb'.ihead = next[h] /\ sb'.itail = sb.itail
  <2>1. sb \in Ends /\ next[h] \in Word
    BY <1>1 DEF CInv, CrashTypes
  <2>2. sb' = [ifree |-> sb.ifree - 1, ihead |-> next[h], itail |-> sb.itail]
    BY <1>2, <2>1 DEF Ends
  <2>3. sb.ifree - 1 \in Int /\ sb.itail \in Usable
    BY <2>1 DEF Ends
  <2>4. QED
    BY <2>1, <2>2, <2>3 DEF Ends
<1>4. next' \in [Inode -> Word] /\ next'[h] = Now
      /\ \A in \in Inode \ {h} : next'[in] = next[in]
  BY <1>1, <1>2 DEF CInv, CrashTypes, Word
<1>5. CrashTypes' /\ HeldNotFree'
  <2>1. free' \in [Inode -> BOOLEAN] /\ held' \subseteq Usable
    BY <1>1, <1>2 DEF CInv, CrashTypes, Usable
  <2>2. ASSUME NEW in \in held' PROVE ~ free'[in]
    <3>1. CASE in = h
      BY <1>1, <1>2, <3>1 DEF CInv, CrashTypes
    <3>2. CASE in # h
      <4>1. in \in held /\ in \in Inode
        BY <1>2, <2>1, <2>2, <3>2 DEF Usable
      <4>2. free'[in] = free[in]
        BY <1>1, <1>2, <3>2, <4>1 DEF CInv, CrashTypes
      <4>3. ~ free[in]
        BY <4>1 DEF CInv, HeldNotFree
      <4>4. QED
        BY <4>2, <4>3
    <3>3. QED
      BY <3>1, <3>2
  <2>3. QED
    BY <1>2, <1>3, <1>4, <2>1, <2>2 DEF CrashTypes, HeldNotFree
<1>6. CASE next[h] \notin Inode
  BY <1>3, <1>5, <1>6 DEF CInv, Dead
<1>7. CASE next[h] \in Inode
  <2>1. Whole
    BY <1>0, <1>1, <1>7 DEF CInv, Dead, Cut, Loose
  <2>2. PICK k \in Nat \ {0} : \E q \in [1 .. k -> Usable \ held] : Chain(k, q)
    BY <2>1 DEF Whole
  <2>3. PICK q \in [1 .. k -> Usable \ held] : Chain(k, q)
    BY <2>2
  <2>4. HeldEnd'
    BY <1>1, <1>2, <1>4, <2>1, NotInodes DEF Whole, HeldEnd, CInv, CrashTypes, Usable
  <2>5. CASE k = 1
    <3>1. h = sb.itail
      BY <1>0, <2>3, <2>5 DEF Chain
    <3>2. Loose(next[h]) /\ next[h] # h
      BY <1>7, <2>1, <3>1 DEF Whole, BeyondTail
    <3>3. next'[next[h]] = next[next[h]]
      BY <1>4, <1>7, <3>2
    <3>4. Cut'
      BY <1>2, <1>3, <3>1, <3>2, <3>3 DEF Cut, Loose
    <3>5. QED
      BY <1>5, <3>4 DEF CInv
  <2>6. CASE k # 1
    <3> DEFINE r == [n \in 1 .. k - 1 |-> q[n + 1]]
    <3>1. k - 1 \in Nat \ {0} /\ 1 \in 1 .. k - 1 /\ 1 \in 1 .. k /\ k \in 1 .. k
      BY <2>6
    <3>2. \A n \in 1 .. k - 1 : n + 1 \in 1 .. k /\ q[n + 1] # h /\ q[n + 1] \in Usable \ held
      BY <1>0, <2>3, <3>1 DEF Chain
    <3>3. r \in [1 .. k - 1 -> (Usable \ held)']
      BY <1>2, <3>2
    <3>4. \A m, n \in 1 .. k - 1 : r[m] = r[n] => m = n
      BY <2>3, <3>2 DEF Chain
    <3>5. r[1] = next[h] /\ r[k - 1] = sb.itail
      <4>1. r[1] = q[2] /\ r[k - 1] = q[k] /\ q[1] = h
        BY <1>0, <2>3, <3>1 DEF Chain
      <4>2. QED
        BY <2>3, <3>1, <4>1 DEF Chain
    <3>6. ASSUME NEW n \in 1 .. k - 1 - 1 PROVE next'[r[n]] = r[n + 1]
      <4>1. n + 1 \in 1 .. k - 1 /\ n \in 1 .. k - 1 /\ r[n] = q[n + 1] /\ r[n + 1] = q[n + 1 + 1]
        BY <3>1
      <4>2. next[q[n + 1]] = q[n + 1 + 1]
        BY <2>3, <4>1 DEF Chain
      <4>3. next'[q[n + 1]] = next[q[n + 1]]
        BY <1>4, <3>2, <4>1 DEF Usable
      <4>4. QED
        BY <4>1, <4>2, <4>3
    <3>7. Chain(k - 1, r)'
      BY <1>3, <3>3, <3>4, <3>5, <3>6 DEF Chain
    <3>8. sb.itail # h /\ sb.itail \in Inode
      BY <1>0, <2>3, <2>6, <3>1 DEF Chain, CInv, CrashTypes, Ends, Usable
    <3>9. BeyondTail'
      <4>1. next'[sb.itail] = next[sb.itail]
        BY <1>4, <3>8
      <4>2. ASSUME next[sb.itail] \in Inode
            PROVE  Loose(next[sb.itail])' /\ next[sb.itail] # sb.itail
        <5>1. Loose(next[sb.itail]) /\ next[sb.itail] # sb.itail
          BY <2>1, <4>2 DEF Whole, BeyondTail
        <5>2. next[h] = q[2] /\ q[2] \in Usable
          BY <1>0, <2>3, <3>1, <3>2 DEF Chain
        <5>3. next[sb.itail] # h
          BY <5>1, <1>7 DEF Loose
        <5>4. QED
          BY <1>2, <1>4, <4>1, <4>2, <5>1, <5>3 DEF Loose
      <4>3. QED
        BY <1>3, <4>1, <4>2 DEF BeyondTail
    <3>10. Whole'
      BY <2>4, <3>1, <3>3, <3>7, <3>9 DEF Whole
    <3>11. QED
      BY <1>5, <3>10 DEF CInv
  <2>7. QED
    BY <2>5, <2>6
<1>8. QED
  BY <1>6, <1>7
\* The head is saved as in use, and the superblock that is read again still
\* begins the list at it.
LEMMA CrashInAllocKeeps == ASSUME CInv, CrashInAlloc PROVE CInv'
<1>0. PICK h : h = sb.ihead
  OBVIOUS
<1>1. h \in Inode /\ h \in Usable \ held
  BY <1>0, HeadNotHeld DEF CrashInAlloc, IOpens
<1>2. /\ next' = [next EXCEPT ![h] = Now] /\ free' = [free EXCEPT ![h] = FALSE]
      /\ held' = held /\ sb' = dsb /\ dsb' = dsb
  BY <1>0 DEF CrashInAlloc, Reboot
<1>3. sb' \in Ends /\ dsb' \in Ends /\ sb'.ihead = h /\ sb'.itail = sb.itail
  BY <1>0, <1>2 DEF CInv, CrashTypes
<1>4. next' \in [Inode -> Word] /\ next'[h] = Now
      /\ \A in \in Inode \ {h} : next'[in] = next[in]
  BY <1>1, <1>2 DEF CInv, CrashTypes, Word
<1>5. CrashTypes' /\ HeldNotFree'
  <2>1. free' \in [Inode -> BOOLEAN] /\ held' \subseteq Usable
    BY <1>1, <1>2 DEF CInv, CrashTypes, Usable
  <2>2. ASSUME NEW in \in held' PROVE ~ free'[in]
    <3>1. in \in held /\ in \in Inode /\ in # h
      BY <1>1, <1>2, <2>1, <2>2 DEF Usable
    <3>2. free'[in] = free[in]
      BY <1>1, <1>2, <3>1 DEF CInv, CrashTypes
    <3>3. QED
      BY <3>1, <3>2 DEF CInv, HeldNotFree
  <2>3. QED
    BY <1>2, <1>3, <1>4, <2>1, <2>2 DEF CrashTypes, HeldNotFree
<1>6. Loose(h)'
  BY <1>1, <1>2, <1>4, NotInodes DEF Loose
<1>7. CASE sb.itail # h
  BY <1>3, <1>5, <1>6, <1>7 DEF CInv, Cut
<1>8. CASE sb.itail = h
  <2>1. Whole
    BY <1>0, <1>1, <1>8 DEF CInv, Dead, Cut
  <2> DEFINE q == [n \in 1 .. 1 |-> h]
  <2>2. q \in [1 .. 1 -> (Usable \ held)']
    BY <1>1, <1>2
  <2>3. Chain(1, q)'
    BY <1>3, <1>8, <2>2 DEF Chain
  <2>4. BeyondTail'
    BY <1>3, <1>4, <1>8, NotInodes DEF BeyondTail
  <2>5. HeldEnd'
    <3>1. ASSUME NEW in \in held' PROVE next'[in] = next[in]
      BY <1>1, <1>2, <1>4, <3>1 DEF CInv, CrashTypes, Usable
    <3>2. QED
      BY <1>2, <2>1, <3>1 DEF Whole, HeldEnd
  <2> HIDE DEF q
  <2>6. Whole'
    <3>1. (\E k \in Nat \ {0} : \E r \in [1 .. k -> Usable \ held] : Chain(k, r))'
      <4>1. 1 \in Nat \ {0}
        OBVIOUS
      <4>2. \E r \in [1 .. 1 -> (Usable \ held)'] : Chain(1, r)'
        BY <2>2, <2>3
      <4>3. QED
        BY <4>1, <4>2
    <3>2. QED
      BY <2>4, <2>5, <3>1 DEF Whole
  <2>7. QED
    BY <1>5, <2>6 DEF CInv
<1>9. QED
  BY <1>7, <1>8

\* The list does not come to an inode that is freed, since its holder had it;
\* whatever of the free is written, the head stays.
LEMMA FreeAtCutKeeps ==
  ASSUME CInv, Cut, NEW in \in held,
         CrashTypes', HeldNotFree', held' = held \ {in},
         sb'.ihead = sb.ihead, sb'.itail \in {sb.itail, in},
         \A i \in Inode \ {sb.itail, in} : next'[i] = next[i]
  PROVE  CInv'
<1>1. sb.ihead \in Usable \ held /\ sb.ihead \in Inode /\ sb.itail # sb.ihead /\ in # sb.ihead
  BY DEF Cut, Loose, Usable
<1>2. next'[sb.ihead] = next[sb.ihead]
  BY <1>1
<1>3. Cut'
  BY <1>1, <1>2 DEF Cut, Loose
<1>4. QED
  BY <1>3 DEF CInv
\* The freed inode comes behind the tail in its word: with the superblock
\* saved it is the new tail, without it it lies beyond the tail.
LEMMA FreeAtWholeKeeps ==
  ASSUME CInv, Whole, NEW in \in held,
         CrashTypes', HeldNotFree', held' = held \ {in},
         sb'.ihead = sb.ihead,
         next'[sb.itail] = in, next'[in] \notin Inode,
         sb'.itail = sb.itail \/ sb'.itail = in,
         \A i \in Inode \ {sb.itail, in} : next'[i] = next[i]
  PROVE  CInv'
<1>1. PICK k \in Nat \ {0} : \E q \in [1 .. k -> Usable \ held] : Chain(k, q)
  BY DEF Whole
<1>2. PICK q \in [1 .. k -> Usable \ held] : Chain(k, q)
  BY <1>1
<1>3. /\ 1 \in 1 .. k /\ k \in 1 .. k
      /\ q[1] = sb.ihead /\ q[k] = sb.itail
      /\ \A n \in 1 .. k : q[n] \in Usable \ held /\ q[n] # in
  BY <1>2 DEF Chain
<1>4. sb.itail \in Usable \ held /\ sb.itail # in /\ in \in Usable
  BY <1>3 DEF CInv, CrashTypes
<1>5. HeldEnd'
  <2>1. ASSUME NEW i \in held' PROVE next'[i] \notin Inode
    <3>1. i \in held /\ i \in Inode \ {sb.itail, in}
      BY <1>4, <2>1 DEF CInv, CrashTypes, Usable
    <3>2. QED
      BY <3>1 DEF Whole, HeldEnd
  <2>2. QED
    BY <2>1 DEF HeldEnd
<1>6. ASSUME NEW n \in 1 .. k - 1 PROVE next'[q[n]] = q[n + 1]
  <2>1. n \in 1 .. k /\ n # k
    OBVIOUS
  <2>2. q[n] # sb.itail
    BY <1>2, <1>3, <2>1 DEF Chain
  <2>3. q[n] \in Inode \ {sb.itail, in}
    BY <1>3, <2>1, <2>2 DEF Usable
  <2>4. QED
    BY <1>2, <2>3 DEF Chain
<1>7. CASE sb'.itail = sb.itail
  <2>1. q \in [1 .. k -> (Usable \ held)']
    BY <1>3
  <2>2. Chain(k, q)'
    BY <1>2, <1>6, <1>7, <2>1 DEF Chain
  <2>3. BeyondTail'
    BY <1>4, <1>7 DEF BeyondTail, Loose
  <2>4. Whole'
    BY <1>5, <2>1, <2>2, <2>3 DEF Whole
  <2>5. QED
    BY <2>4 DEF CInv
<1>8. CASE sb'.itail = in
  <2> DEFINE r == [n \in 1 .. k + 1 |-> IF n = k + 1 THEN in ELSE q[n]]
  <2>1. k + 1 \in Nat \ {0} /\ k + 1 \in 1 .. k + 1 /\ 1 \in 1 .. k + 1 /\ 1 # k + 1
    OBVIOUS
  <2>2. \A n \in 1 .. k + 1 : n # k + 1 => n \in 1 .. k
    OBVIOUS
  <2>3. r[k + 1] = in /\ \A n \in 1 .. k : r[n] = q[n]
    OBVIOUS
  <2>4. r \in [1 .. k + 1 -> (Usable \ held)']
    BY <1>3, <1>4, <2>2
  <2> HIDE DEF r
  <2>5. ASSUME NEW m \in 1 .. k + 1, NEW n \in 1 .. k + 1, r[m] = r[n] PROVE m = n
    <3>1. CASE m = k + 1 \/ n = k + 1
      <4>1. \A l \in 1 .. k : r[l] # r[k + 1]
        BY <1>3, <2>3
      <4>2. QED
        BY <2>2, <2>5, <3>1, <4>1
    <3>2. CASE m # k + 1 /\ n # k + 1
      <4>1. m \in 1 .. k /\ n \in 1 .. k
        BY <2>2, <3>2
      <4>2. q[m] = q[n]
        BY <2>3, <2>5, <4>1
      <4>3. QED
        BY <1>2, <4>1, <4>2 DEF Chain
    <3>3. QED
      BY <3>1, <3>2
  <2>6. ASSUME NEW n \in 1 .. (k + 1) - 1 PROVE next'[r[n]] = r[n + 1]
    <3>1. CASE n = k
      BY <1>3, <2>3, <3>1
    <3>2. CASE n # k
      <4>1. n \in 1 .. k - 1 /\ n \in 1 .. k /\ n + 1 \in 1 .. k
        BY <3>2
      <4>2. QED
        BY <1>6, <2>3, <4>1
    <3>3. QED
      BY <3>1, <3>2
  <2>7. r[1] = sb.ihead /\ r[k + 1] = in
    BY <1>3, <2>3
  <2>8. Chain(k + 1, r)'
    BY <1>8, <2>3, <2>4, <2>5, <2>6, <2>7 DEF Chain
  <2>9. BeyondTail'
    BY <1>8 DEF BeyondTail
  <2>10. Whole'
    BY <1>5, <2>1, <2>4, <2>8, <2>9 DEF Whole
  <2>11. QED
    BY <2>10 DEF CInv
<1>9. QED
  BY <1>7, <1>8
\* What soFreeInode, whole or cut short, leaves of the types and of the marks.
LEMMA FreedTypes ==
  ASSUME CInv, NEW in \in held, sb' \in Ends, dsb' \in Ends,
         dsb'.ihead = sb'.ihead, dsb'.itail = sb'.itail,
         next' \in [Inode -> Word], held' = held \ {in},
         free' = free \/ free' = [free EXCEPT ![in] = TRUE]
  PROVE  CrashTypes' /\ HeldNotFree'
<1>1. free' \in [Inode -> BOOLEAN] /\ held' \subseteq Usable
  BY DEF CInv, CrashTypes
<1>2. ASSUME NEW i \in held' PROVE ~ free'[i]
  <2>1. i \in held /\ i \in Inode /\ i # in
    BY <1>1, <1>2 DEF Usable
  <2>2. free'[i] = free[i]
    BY <2>1 DEF CInv, CrashTypes
  <2>3. QED
    BY <2>1, <2>2 DEF CInv, HeldNotFree
<1>3. QED
  BY <1>1, <1>2 DEF CrashTypes, HeldNotFree

\* The words after soFreeInode: the tail's names the freed inode, the freed
\* inode's ends the list, or is what its holder's was.
LEMMA FreedWords ==
  ASSUME CInv, NEW in \in held, NEW t, t = sb.itail,
         \/ next' = [next EXCEPT ![t] = in]
         \/ next' = [next EXCEPT ![t] = in, ![in] = NULL_REFERENCE]
  PROVE  /\ next' \in [Inode -> Word]
         /\ \A i \in Inode \ {t, in} : next'[i] = next[i]
         /\ t # in => next'[t] = in /\ (next[in] \notin Inode => next'[in] \notin Inode)
<1>1. t \in Inode /\ in \in Inode /\ in \in Word /\ NULL_REFERENCE \in Word
  BY DEF CInv, CrashTypes, Ends, Usable, Word
<1>2. next \in [Inode -> Word]
  BY DEF CInv, CrashTypes
<1>3. QED
  BY <1>1, <1>2, NotInodes

\* A free, whole or cut, keeps the invariant.
LEMMA FreeKeeps ==
  ASSUME CInv, NEW in \in held, sb' \in Ends, dsb' \in Ends,
         dsb'.ihead = sb'.ihead, dsb'.itail = sb'.itail,
         sb'.ihead = sb.ihead, sb'.itail = sb.itail \/ sb'.itail = in,
         held' = held \ {in},
         free' = free \/ free' = [free EXCEPT ![in] = TRUE],
         \/ next' = [next EXCEPT ![sb.itail] = in]
         \/ next' = [next EXCEPT ![sb.itail] = in, ![in] = NULL_REFERENCE]
  PROVE  CInv'
<1>1. PICK t : t = sb.itail
  OBVIOUS
<1>2. \/ next' = [next EXCEPT ![t] = in]
      \/ next' = [next EXCEPT ![t] = in, ![in] = NULL_REFERENCE]
  BY <1>1
<1>3. /\ next' \in [Inode -> Word]
      /\ \A i \in Inode \ {t, in} : next'[i] = next[i]
      /\ t # in => next'[t] = in /\ (next[in] \notin Inode => next'[in] \notin Inode)
  BY <1>1, <1>2, FreedWords
<1>4. CrashTypes' /\ HeldNotFree'
  BY <1>3, FreedTypes
<1>5. CASE Dead
  BY <1>4, <1>5 DEF CInv, Dead
<1>6. CASE Cut
  <2>1. \A i \in Inode \ {sb.itail, in} : next'[i] = next[i]
    BY <1>1, <1>3
  <2>2. sb'.itail \in {sb.itail, in}
    OBVIOUS
  <2>3. QED
    BY <1>4, <1>6, <2>1, <2>2, FreeAtCutKeeps
<1>7. CASE Whole
  <2>1. sb.itail \notin held
    <3>1. PICK k \in Nat \ {0} : \E q \in [1 .. k -> Usable \ held] : Chain(k, q)
      BY <1>7 DEF Whole
    <3>2. PICK q \in [1 .. k -> Usable \ held] : Chain(k, q)
      BY <3>1
    <3>3. k \in 1 .. k
      OBVIOUS
    <3>4. QED
      BY <3>2, <3>3 DEF Chain
  <2>2. t # in /\ next[in] \notin Inode
    BY <1>1, <1>7, <2>1 DEF Whole, HeldEnd
  <2>3. next'[sb.itail] = in /\ next'[in] \notin Inode
        /\ \A i \in Inode \ {sb.itail, in} : next'[i] = next[i]
    BY <1>1, <1>3, <2>2
  <2>4. QED
    BY <1>4, <1>7, <2>3, FreeAtWholeKeeps
<1>8. QED
  BY <1>5, <1>6, <1>7 DEF CInv

\* soFreeInode leaves the head alone, and its tail is the freed inode.
LEMMA FreeInodeKeeps ==
  ASSUME CInv, NEW in \in held, FreeInode(in)
  PROVE  CInv'
<1>1. sb \in Ends /\ in \in Usable
  BY DEF CInv, CrashTypes
<1>2. Anchored(in) = sb
  BY <1>1, NotInodes DEF Anchored, Ends, Usable
<1>3. sb' = [sb EXCEPT !.ifree = @ + 1, !.itail = in]
  BY <1>2 DEF FreeInode
<1>4. sb' = [ifree |-> sb.ifree + 1, ihead |-> sb.ihead, itail |-> in]
  BY <1>1, <1>3 DEF Ends
<1>5. sb.ifree + 1 \in Int /\ sb.ihead \in Word
  BY <1>1 DEF Ends
<1>6. sb' \in Ends /\ sb'.ihead = sb.ihead /\ sb'.itail = in
  BY <1>1, <1>4, <1>5 DEF Ends
<1>7. /\ next' = [next EXCEPT ![sb.itail] = in, ![in] = NULL_REFERENCE]
      /\ free' = [free EXCEPT ![in] = TRUE] /\ held' = held \ {in} /\ dsb' = sb'
  BY <1>2 DEF FreeInode
<1>8. QED
  BY <1>6, <1>7, FreeKeeps

\* A crash inside soFreeInode leaves the superblock as it was.
LEMMA CrashInFreeKeeps ==
  ASSUME CInv, NEW in \in held, NEW saved \in {1, 2}, CrashInFree(in, saved)
  PROVE  CInv'
<1>1. sb \in Ends /\ dsb \in Ends /\ dsb.ihead = sb.ihead /\ dsb.itail = sb.itail
  BY DEF CInv, CrashTypes
<1>2. Anchored(in) = sb
  BY <1>1, NotInodes DEF Anchored, Ends, Usable
<1>3. sb' = dsb /\ dsb' = dsb /\ held' = held \ {in}
  BY DEF CrashInFree, Reboot
<1>4. CASE saved = 1
  <2>1. next' = [next EXCEPT ![sb.itail] = in] /\ free' = free
    BY <1>2, <1>4 DEF CrashInFree
  <2>2. QED
    BY <1>1, <1>3, <2>1, FreeKeeps
<1>5. CASE saved # 1
  <2>1. /\ next' = [next EXCEPT ![sb.itail] = in, ![in] = NULL_REFERENCE]
        /\ free' = [free EXCEPT ![in] = TRUE]
    BY <1>2, <1>5 DEF CrashInFree
  <2>2. QED
    BY <1>1, <1>3, <2>1, FreeKeeps
<1>6. QED
  BY <1>4, <1>5

-----------------------------------------------------------------------------
(* The invariant and what follows from it *)

\* Each step keeps the invariant.
LEMMA NextCInv == ASSUME CInv, [NextCrash]_vars PROVE CInv'
<1> USE DEF CrashTypes
<1>1. sb \in Ends /\ dsb \in Ends /\ dsb.ihead = sb.ihead /\ dsb.itail = sb.itail
  BY DEF CInv
<1>2. CASE AllocNoSpace
  BY <1>1, <1>2, ListKept DEF AllocNoSpace
<1>3. CASE AllocBadHead
  <2>1. sb' = [ifree |-> sb.ifree - 1, ihead |-> sb.ihead, itail |-> sb.itail]
    BY <1>1, <1>3 DEF AllocBadHead, Ends
  <2>2. sb.ifree - 1 \in Int /\ sb.ihead \in Word /\ sb.itail \in Usable
    BY <1>1 DEF Ends
  <2>3. sb' \in Ends /\ sb'.ihead = sb.ihead /\ sb'.itail = sb.itail
    BY <2>1, <2>2 DEF Ends
  <2>4. QED
    BY <1>1, <1>3, <2>3, ListKept DEF AllocBadHead
<1>4. CASE AllocInode
  BY <1>4, AllocKeeps
<1>5. ASSUME NEW in \in 0 .. ITotal + 1, FreeInvalid(in) \/ FreeAlreadyFree(in)
      PROVE  CInv'
  BY <1>1, <1>5, ListKept DEF FreeInvalid, FreeAlreadyFree
<1>6. ASSUME NEW in \in held, FreeInode(in) PROVE CInv'
  BY <1>6, FreeInodeKeeps
<1>7. CASE SbSave
  BY <1>1, <1>7, ListKept DEF SbSave
<1>8. CASE Remount
  BY <1>1, <1>8, ListKept DEF Remount
<1>9. CASE CrashInAlloc
  BY <1>9, CrashInAllocKeeps
<1>10. ASSUME NEW in \in held, NEW saved \in {1, 2}, CrashInFree(in, saved) PROVE CInv'
  BY <1>10, CrashInFreeKeeps
<1>11. CASE UNCHANGED vars
  BY <1>1, <1>11, ListKept DEF vars
<1>12. QED
  BY <1>2, <1>3, <1>4, <1>5, <1>6, <1>7, <1>8, <1>9, <1>10, <1>11 DEF NextCrash

\* Every inode the list can still come to is one that nobody holds.
THEOREM CrashInvariance == SpecCrash => []CInv
<1>1. Init => CInv
  BY InitCInv
<1>2. CInv /\ [NextCrash]_vars => CInv'
  BY NextCInv
<1>3. QED
  BY <1>1, <1>2, PTL DEF SpecCrash

\* Wherever soAllocInode and soFreeInode are cut short, however often, an
\* inode somebody holds is not marked free on the disk (HeldNotFree).
THEOREM HeldStayInUse == SpecCrash => []HeldNotFree
<1>1. CInv => HeldNotFree
  BY DEF CInv
<1>2. QED
  BY <1>1, CrashInvariance, PTL

\* After any crashes soAllocInode still answers no inode that somebody holds,
\* and never the root's (NoDoubleAlloc).
THEOREM NoInodeTwiceAfterCrash == SpecCrash => NoDoubleAlloc
<1>1. ASSUME CInv, [NextCrash]_vars
      PROVE  [ret'.call = "alloc" /\ ret'.err = "OK" => ret'.in \notin held /\ ret'.in # Root]_vars
  <2> SUFFICES ASSUME NextCrash, ret'.call = "alloc", ret'.err = "OK"
               PROVE  ret'.in \notin held /\ ret'.in # Root
    BY <1>1
  <2>1. CASE AllocInode
    <3>1. sb.ihead \in Usable \ held
      BY <1>1, <2>1, HeadNotHeld DEF AllocInode, IOpens
    <3>2. ret'.in = sb.ihead
      BY <2>1 DEF AllocInode, Answer
    <3>3. QED
      BY <3>1, <3>2 DEF Usable
  <2>2. CASE AllocNoSpace \/ AllocBadHead
    BY <2>2 DEF AllocNoSpace, AllocBadHead, Answer
  <2>3. ASSUME NEW in \in 0 .. ITotal + 1, FreeInvalid(in) \/ FreeAlreadyFree(in)
        PROVE  FALSE
    BY <2>3 DEF FreeInvalid, FreeAlreadyFree, Answer
  <2>4. ASSUME NEW in \in held, FreeInode(in) PROVE FALSE
    BY <2>4 DEF FreeInode, Answer
  <2>5. CASE SbSave \/ Remount \/ CrashInAlloc
    BY <2>5 DEF SbSave, Remount, CrashInAlloc, Reboot, NoAnswer, Answer
  <2>6. ASSUME NEW in \in held, NEW saved \in {1, 2}, CrashInFree(in, saved) PROVE FALSE
    BY <2>6 DEF CrashInFree, Reboot, NoAnswer, Answer
  <2>7. QED
    BY <2>1, <2>2, <2>3, <2>4, <2>5, <2>6 DEF NextCrash
<1>2. QED
  BY <1>1, CrashInvariance, PTL DEF SpecCrash, NoDoubleAlloc
=============================================================================
