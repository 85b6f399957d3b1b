-------------------------- MODULE DirEntriesProofs --------------------------
(***************************************************************************)
(* Theorems about the entries of a directory, for every number of entries   *)
(* to a cluster, of clusters, of names and of inodes.                       *)
(*                                                                         *)
(* The clusters are read as one table, from place 0 to the size: each       *)
(* routine changes it in one place, and a delete, with its five cases, is   *)
(* one move of the last entry and one drop of the last place.  What names   *)
(* and listings have to do with each other is then said of the table alone. *)
(***************************************************************************)
EXTENDS DirEntries, SequenceTheorems, TLAPS

Cell == [name : Name \cup {NoName}, in : Inode \cup {NULL_REFERENCE}]
Row == [Slot -> Cell]

\* The places of n clusters, the entry in one of them, and one more in use.
Places0(n) == 0 .. DPC * n - 1
Read(cs, p) == cs[p \div DPC + 1][p % DPC]
Needs(s) == (s + DPC - 1) \div DPC

\* The first s places are in use, and no cluster is without one.
PackedTo(cs, s) ==
  /\ cs \in Seq(Row) /\ s \in Nat
  /\ Len(cs) = Needs(s)
  /\ \A p \in Places0(Len(cs)) : Read(cs, p).name # NoName <=> p < s

Used(s) == 0 .. s - 1
Table(cs, s) == [p \in Used(s) |-> Read(cs, p)]

\* Every entry has a name of its own and an inode.
Distinct(t, s) ==
  /\ t \in [Used(s) -> [name : Name, in : Inode]]
  /\ \A p, q \in Used(s) : t[p].name = t[q].name => p = q

\* What is listed is before the position, what is due is not.
Follows(r, t, s) ==
  /\ r \in [pos : 0 .. MaxFcn, listed : SUBSET Name, due : SUBSET Name]
  /\ \A n \in r.listed : \E p \in Used(s) : p < r.pos /\ t[p].name = n
  /\ \A n \in r.due : \E p \in Used(s) : p >= r.pos /\ t[p].name = n

IInv ==
  /\ PackedTo(clus, size) /\ size <= MaxFcn /\ overread \in BOOLEAN
  /\ Distinct(Table(clus, size), size)
  /\ Follows(reader, Table(clus, size), size)
-----------------------------------------------------------------------------
(* Clusters and places *)

\* A number is a cluster and a place in it.
LEMMA DivMod ==
  ASSUME NEW p \in Nat
  PROVE  /\ p \div DPC \in Nat /\ p % DPC \in Slot
         /\ p = (p \div DPC) * DPC + (p % DPC)
BY DirEntriesAssumption DEF Slot

\* And the only ones.
LEMMA DivModUnique ==
  ASSUME NEW i \in Nat, NEW x \in Slot
  PROVE  /\ i * DPC + x \in Nat
         /\ (i * DPC + x) \div DPC = i
         /\ (i * DPC + x) % DPC = x
BY DirEntriesAssumption DEF Slot

\* Clusters follow one another.
LEMMA Later ==
  ASSUME NEW i \in Nat, NEW j \in Nat, i < j
  PROVE  i * DPC + DPC <= j * DPC /\ i * DPC \in Nat /\ j * DPC \in Nat
<1>1. PICK k \in Nat : j = i + 1 + k
  BY j - i - 1 \in Nat
<1>2. /\ j * DPC = i * DPC + DPC + k * DPC
      /\ k * DPC \in Nat /\ i * DPC \in Nat /\ j * DPC \in Nat
  BY <1>1, DirEntriesAssumption
<1>3. QED
  BY <1>2, DirEntriesAssumption

\* The places of the first n clusters.
LEMMA InClusters ==
  ASSUME NEW n \in Nat, NEW p \in Nat
  PROVE  p \in Places0(n) <=> p \div DPC < n
<1>1. p \div DPC \in Nat /\ p % DPC \in 0 .. DPC - 1 /\ p = (p \div DPC) * DPC + (p % DPC)
  BY DivMod DEF Slot
<1>2. DPC \in Nat \ {0} /\ n * DPC \in Nat /\ n * DPC = DPC * n /\ (p \div DPC) * DPC \in Nat
  BY <1>1, DirEntriesAssumption
<1>3. CASE p \div DPC < n
  <2>1. (p \div DPC) * DPC + DPC <= n * DPC
    BY <1>1, <1>3, Later
  <2>2. QED
    BY <1>1, <1>2, <1>3, <2>1 DEF Places0
<1>4. CASE p \div DPC >= n
  <2>1. (p \div DPC) * DPC >= n * DPC
    <3>1. CASE p \div DPC = n
      BY <1>2, <3>1
    <3>2. CASE n < p \div DPC
      <4>1. n * DPC + DPC <= (p \div DPC) * DPC
        BY <1>1, <3>2, Later
      <4>2. QED
        BY <1>2, <4>1
    <3>3. QED
      BY <1>1, <1>4, <3>1, <3>2
  <2>2. QED
    BY <1>1, <1>2, <1>4, <2>1 DEF Places0
<1>5. QED
  BY <1>1, <1>3, <1>4

\* One cluster and one place in it make one number.
LEMMA SamePlace ==
  ASSUME NEW p \in Nat, NEW q \in Nat, p \div DPC = q \div DPC, p % DPC = q % DPC
  PROVE  p = q
<1>1. p = (p \div DPC) * DPC + (p % DPC)
  BY DivMod
<1>2. q = (q \div DPC) * DPC + (q % DPC)
  BY DivMod
<1>3. QED
  BY <1>1, <1>2

\* The clusters that hold s entries end with that of the last.
LEMMA NeedsLast ==
  ASSUME NEW s \in Nat \ {0}
  PROVE  Needs(s) = (s - 1) \div DPC + 1 /\ s - 1 \in Nat /\ (s - 1) \div DPC \in Nat
<1>1. PICK a \in Nat : a = (s - 1) \div DPC
  BY s - 1 \in Nat, DivMod
<1>2. PICK x \in Slot : x = (s - 1) % DPC
  BY s - 1 \in Nat, DivMod
<1>3. s - 1 \in Nat /\ s - 1 = a * DPC + x
  <2>1. s - 1 \in Nat
    OBVIOUS
  <2>2. s - 1 = ((s - 1) \div DPC) * DPC + ((s - 1) % DPC)
    BY <2>1, DivMod
  <2>3. QED
    BY <1>1, <1>2, <2>1, <2>2
<1>4. (a + 1) * DPC = a * DPC + DPC /\ a * DPC \in Nat /\ DPC \in Nat
  BY DirEntriesAssumption
<1>5. s + DPC - 1 = (a + 1) * DPC + x
  <2>1. s = a * DPC + x + 1 /\ x \in Nat
    BY <1>3, <1>4 DEF Slot
  <2>2. QED
    BY <1>4, <2>1
<1>6. a + 1 \in Nat
  OBVIOUS
<1>7. (s + DPC - 1) \div DPC = a + 1
  BY <1>5, <1>6, DivModUnique
<1>8. QED
  BY <1>1, <1>3, <1>7 DEF Needs

\* Or, where no entry begins a cluster, with that of the next.
LEMMA NeedsNext ==
  ASSUME NEW s \in Nat
  PROVE  /\ s % DPC = 0 => Needs(s) = s \div DPC
         /\ s % DPC # 0 => Needs(s) = s \div DPC + 1
<1>1. PICK a \in Nat : a = s \div DPC
  BY DivMod
<1>2. PICK x \in Slot : x = s % DPC
  BY DivMod
<1>3. s = a * DPC + x
  <2>1. s = (s \div DPC) * DPC + (s % DPC)
    BY DivMod
  <2>2. QED
    BY <1>1, <1>2, <2>1
<1>4. (a + 1) * DPC = a * DPC + DPC /\ a * DPC \in Nat /\ DPC \in Nat \ {0} /\ a + 1 \in Nat
  BY DirEntriesAssumption
<1>5. CASE x = 0
  <2>1. s + DPC - 1 = a * DPC + (DPC - 1) /\ DPC - 1 \in Slot
    BY <1>3, <1>4, <1>5 DEF Slot
  <2>2. (s + DPC - 1) \div DPC = a
    BY <2>1, DivModUnique
  <2>3. QED
    BY <1>1, <1>2, <1>5, <2>2 DEF Needs
<1>6. CASE x # 0
  <2>1. s + DPC - 1 = (a + 1) * DPC + (x - 1) /\ x - 1 \in Slot
    BY <1>3, <1>4, <1>6 DEF Slot
  <2>2. (s + DPC - 1) \div DPC = a + 1
    BY <1>4, <2>1, DivModUnique
  <2>3. QED
    BY <1>1, <1>2, <1>6, <2>2 DEF Needs
<1>7. QED
  BY <1>5, <1>6

\* The number of clusters in use is a number.
LEMMA NeedsType == ASSUME NEW s \in Nat PROVE Needs(s) \in Nat
BY DivMod, NeedsNext

\* Every entry in use is in a cluster.
LEMMA UsedInClusters ==
  ASSUME NEW s \in Nat, NEW p \in Used(s)
  PROVE  p \in Nat /\ p \in Places0(Needs(s)) /\ s \in Nat \ {0}
<1>1. p \in Nat /\ p < s /\ s \in Nat \ {0}
  BY DEF Used
<1>2. s + DPC - 1 \in Nat /\ DPC \in Nat \ {0}
  BY DirEntriesAssumption
<1>3. PICK a \in Nat : a = (s - 1) \div DPC
  BY <1>1, NeedsLast
<1>4. s - 1 \in Nat /\ s - 1 = a * DPC + ((s - 1) % DPC) /\ (s - 1) % DPC \in 0 .. DPC - 1
  BY <1>1, <1>3, DivMod DEF Slot
<1>5. DPC * (a + 1) = a * DPC + DPC /\ a * DPC \in Nat
  BY <1>2
<1>6. p <= DPC * (a + 1) - 1
  BY <1>1, <1>2, <1>4, <1>5
<1>7. QED
  BY <1>1, <1>3, <1>6, NeedsLast DEF Places0

-----------------------------------------------------------------------------
(* Reading and writing places *)

\* The cluster of a place, and what is in it.
LEMMA ReadType ==
  ASSUME NEW cs \in Seq(Row), NEW p \in Places0(Len(cs))
  PROVE  /\ p \in Nat /\ p \div DPC + 1 \in 1 .. Len(cs) /\ p % DPC \in Slot
         /\ cs[p \div DPC + 1] \in Row /\ Read(cs, p) \in Cell
<1>1. Len(cs) \in Nat
  OBVIOUS
<1>2. p \in Nat
  BY <1>1, DirEntriesAssumption DEF Places0
<1>3. p \div DPC < Len(cs) /\ p \div DPC \in Nat /\ p % DPC \in Slot
  BY <1>1, <1>2, InClusters, DivMod
<1>4. p \div DPC + 1 \in 1 .. Len(cs)
  BY <1>1, <1>3
<1>5. cs[p \div DPC + 1] \in Row
  BY <1>4, ElementOfSeq
<1>6. QED
  BY <1>2, <1>3, <1>4, <1>5 DEF Read, Row

\* A write changes the place it is for and no other.
LEMMA PutRead ==
  ASSUME NEW cs \in Seq(Row), NEW p \in Places0(Len(cs)), NEW e \in Cell
  PROVE  /\ Put(cs, p, e) \in Seq(Row) /\ Len(Put(cs, p, e)) = Len(cs)
         /\ Read(Put(cs, p, e), p) = e
         /\ \A q \in Places0(Len(cs)) \ {p} : Read(Put(cs, p, e), q) = Read(cs, q)
<1>1. PICK c \in 1 .. Len(cs) : c = p \div DPC + 1
  BY ReadType
<1>2. PICK j \in Slot : j = p % DPC
  BY ReadType
<1>3. cs[c] \in Row
  BY <1>1, ElementOfSeq
<1> DEFINE row == [cs[c] EXCEPT ![j] = e]
<1>4. row \in Row /\ row[j] = e /\ \A i \in Slot \ {j} : row[i] = cs[c][i]
  BY <1>3 DEF Row
<1>5. Put(cs, p, e) = [cs EXCEPT ![c] = row]
  BY <1>1, <1>2 DEF Put
<1> HIDE DEF row
<1>6. /\ Put(cs, p, e) \in Seq(Row) /\ Len(Put(cs, p, e)) = Len(cs)
      /\ \A d \in 1 .. Len(cs) : Put(cs, p, e)[d] = IF d = c THEN row ELSE cs[d]
  BY <1>4, <1>5, ExceptSeq
<1>7. Read(Put(cs, p, e), p) = e
  BY <1>1, <1>2, <1>4, <1>6 DEF Read
<1>8. ASSUME NEW q \in Places0(Len(cs)) \ {p} PROVE Read(Put(cs, p, e), q) = Read(cs, q)
  <2>1. q \in Nat /\ q \div DPC + 1 \in 1 .. Len(cs) /\ q % DPC \in Slot /\ p \in Nat
    BY ReadType
  <2>2. CASE q \div DPC + 1 = c
    <3>1. q % DPC # j
      <4>1. p \div DPC = q \div DPC
        BY <1>1, <2>1, <2>2, DivMod
      <4>2. QED
        BY <1>2, <1>8, <2>1, <4>1, SamePlace
    <3>2. QED
      BY <1>4, <1>6, <2>1, <2>2, <3>1 DEF Read
  <2>3. CASE q \div DPC + 1 # c
    BY <1>6, <2>1, <2>3 DEF Read
  <2>4. QED
    BY <2>2, <2>3
<1>9. QED
  BY <1>6, <1>7, <1>8
-----------------------------------------------------------------------------
(* One change to packed clusters *)

\* An entry in use has a place and a name.
LEMMA UsedPlace ==
  ASSUME NEW cs, NEW s, PackedTo(cs, s), NEW p \in Used(s)
  PROVE  /\ p \in Nat /\ p \in Places0(Len(cs)) /\ s \in Nat \ {0}
         /\ Read(cs, p) \in Cell /\ Read(cs, p).name \in Name
<1>1. cs \in Seq(Row) /\ s \in Nat /\ Len(cs) = Needs(s)
  BY DEF PackedTo
<1>2. p \in Nat /\ p \in Places0(Len(cs)) /\ s \in Nat \ {0}
  BY <1>1, UsedInClusters
<1>3. Read(cs, p) \in Cell
  BY <1>1, <1>2, ReadType
<1>4. p < s
  BY <1>1 DEF Used
<1>5. Read(cs, p).name # NoName
  BY <1>2, <1>4 DEF PackedTo
<1>6. QED
  BY <1>2, <1>3, <1>5 DEF Cell

\* A named entry in the place of another leaves the clusters packed.
LEMMA Changed ==
  ASSUME NEW cs, NEW s, PackedTo(cs, s), NEW p \in Used(s),
         NEW e \in Cell, e.name # NoName
  PROVE  /\ PackedTo(Put(cs, p, e), s)
         /\ Read(Put(cs, p, e), p) = e
         /\ \A q \in Used(s) \ {p} : Read(Put(cs, p, e), q) = Read(cs, q)
<1>1. /\ cs \in Seq(Row) /\ s \in Nat /\ Len(cs) = Needs(s)
      /\ \A q \in Places0(Len(cs)) : Read(cs, q).name # NoName <=> q < s
  BY DEF PackedTo
<1>2. p \in Places0(Len(cs)) /\ p < s
  BY <1>1, UsedPlace DEF Used
<1>3. /\ Put(cs, p, e) \in Seq(Row) /\ Len(Put(cs, p, e)) = Len(cs)
      /\ Read(Put(cs, p, e), p) = e
      /\ \A q \in Places0(Len(cs)) \ {p} : Read(Put(cs, p, e), q) = Read(cs, q)
  BY <1>1, <1>2, PutRead
<1>4. ASSUME NEW q \in Places0(Len(cs))
      PROVE  Read(Put(cs, p, e), q).name # NoName <=> q < s
  BY <1>1, <1>2, <1>3
<1>5. PackedTo(Put(cs, p, e), s)
  BY <1>1, <1>3, <1>4 DEF PackedTo
<1>6. \A q \in Used(s) : q \in Places0(Len(cs))
  BY UsedPlace
<1>7. QED
  BY <1>3, <1>5, <1>6

\* What soAddDirEntry writes: the place behind the last, in a new cluster if
\* the last is full.
Added(cs, s, e) ==
  IF s \div DPC < Len(cs) THEN Put(cs, s, e)
  ELSE Append(cs, [j \in Slot |-> IF j = 0 THEN e ELSE Nothing])

\* It leaves the clusters packed, with the entry the last.
LEMMA AddedLast ==
  ASSUME NEW cs, NEW s, PackedTo(cs, s), NEW e \in Cell, e.name # NoName
  PROVE  /\ PackedTo(Added(cs, s, e), s + 1)
         /\ Read(Added(cs, s, e), s) = e
         /\ \A q \in Used(s) : Read(Added(cs, s, e), q) = Read(cs, q)
<1>1. /\ cs \in Seq(Row) /\ s \in Nat /\ Len(cs) = Needs(s) /\ Len(cs) \in Nat
      /\ \A q \in Places0(Len(cs)) : Read(cs, q).name # NoName <=> q < s
  BY NeedsType DEF PackedTo
<1>2. s + 1 \in Nat \ {0} /\ (s + 1) - 1 = s
  BY <1>1
<1>3. Needs(s + 1) = s \div DPC + 1 /\ s \div DPC \in Nat /\ s % DPC \in Slot
  BY <1>1, <1>2, NeedsLast, DivMod
<1>4. \A q \in Used(s) : q \in Places0(Len(cs)) /\ q # s
  <2>1. \A q \in Used(s) : q # s
    BY <1>1 DEF Used
  <2>2. QED
    BY <2>1, UsedPlace
<1>5. CASE s \div DPC < Len(cs)
  <2>1. s % DPC # 0 /\ Len(cs) = s \div DPC + 1
    BY <1>1, <1>3, <1>5, NeedsNext
  <2>2. s \in Places0(Len(cs))
    BY <1>1, <1>5, InClusters
  <2>3. /\ Put(cs, s, e) \in Seq(Row) /\ Len(Put(cs, s, e)) = Len(cs)
        /\ Read(Put(cs, s, e), s) = e
        /\ \A q \in Places0(Len(cs)) \ {s} : Read(Put(cs, s, e), q) = Read(cs, q)
    BY <1>1, <2>2, PutRead
  <2>4. ASSUME NEW q \in Places0(Len(cs))
        PROVE  Read(Put(cs, s, e), q).name # NoName <=> q < s + 1
    <3>1. q \in Nat
      BY <1>1, ReadType
    <3>2. CASE q = s
      BY <1>1, <2>3, <3>2
    <3>3. CASE q # s
      <4>1. q < s + 1 <=> q < s
        BY <1>1, <3>1, <3>3
      <4>2. QED
        BY <1>1, <2>3, <3>3, <4>1
    <3>4. QED
      BY <3>2, <3>3
  <2>5. PackedTo(Put(cs, s, e), s + 1)
    BY <1>2, <1>3, <2>1, <2>3, <2>4 DEF PackedTo
  <2>6. Added(cs, s, e) = Put(cs, s, e)
    BY <1>5 DEF Added
  <2>7. QED
    BY <1>4, <2>3, <2>5, <2>6
<1>6. CASE ~ (s \div DPC < Len(cs))
  <2> DEFINE row == [j \in Slot |-> IF j = 0 THEN e ELSE Nothing]
             new == Append(cs, row)
  <2>1. Len(cs) = s \div DPC /\ s % DPC = 0
    BY <1>1, <1>3, <1>6, NeedsNext
  <2>2. Nothing \in Cell /\ Nothing.name = NoName
    BY DEF Nothing, Cell
  <2>3. row \in Row /\ row[0] = e /\ \A j \in Slot \ {0} : row[j] = Nothing
    BY <1>3, <2>1, <2>2 DEF Row
  <2> HIDE DEF row
  <2>4. /\ new \in Seq(Row) /\ Len(new) = Len(cs) + 1
        /\ \A i \in 1 .. Len(cs) : new[i] = cs[i]
        /\ new[Len(cs) + 1] = row
    BY <1>1, <2>3, AppendProperties
  <2> HIDE DEF new
  <2>5. Read(new, s) = e
    BY <2>1, <2>3, <2>4 DEF Read
  <2>6. ASSUME NEW q \in Places0(Len(cs)) PROVE Read(new, q) = Read(cs, q)
    <3>1. q \div DPC + 1 \in 1 .. Len(cs)
      BY <1>1, ReadType
    <3>2. QED
      BY <2>4, <3>1 DEF Read
  <2>7. ASSUME NEW q \in Places0(Len(new))
        PROVE  Read(new, q).name # NoName <=> q < s + 1
    <3>1. q \in Nat /\ q \div DPC \in Nat /\ q \div DPC < Len(cs) + 1 /\ q % DPC \in Slot
      <4>1. q \in Nat
        BY <2>4, ReadType
      <4>2. Len(cs) + 1 \in Nat
        BY <1>1
      <4>3. QED
        BY <2>4, <4>1, <4>2, InClusters, DivMod
    <3>2. CASE q \in Places0(Len(cs))
      <4>1. q # s
        BY <1>1, <1>6, <3>2, InClusters
      <4>2. q < s + 1 <=> q < s
        BY <1>1, <3>1, <4>1
      <4>3. QED
        BY <1>1, <2>6, <3>2, <4>2
    <3>3. CASE q \notin Places0(Len(cs))
      <4>1. q \div DPC = s \div DPC
        BY <1>1, <2>1, <3>1, <3>3, InClusters
      <4>2. q = (q \div DPC) * DPC + (q % DPC) /\ s = (s \div DPC) * DPC + (s % DPC)
        BY <1>1, <3>1, DivMod
      <4>3. (s \div DPC) * DPC \in Nat
        BY <1>3, DirEntriesAssumption
      <4>4. q = s + (q % DPC) /\ q % DPC \in Nat
        BY <2>1, <3>1, <4>1, <4>2, <4>3 DEF Slot
      <4>5. q < s + 1 <=> q % DPC = 0
        BY <1>1, <4>4
      <4>6. Read(new, q) = row[q % DPC]
        BY <2>1, <2>4, <4>1 DEF Read
      <4>7. QED
        BY <2>2, <2>3, <3>1, <4>5, <4>6
    <3>4. QED
      BY <3>2, <3>3
  <2>8. PackedTo(new, s + 1)
    BY <1>2, <1>3, <2>1, <2>4, <2>7 DEF PackedTo
  <2>9. Added(cs, s, e) = new
    BY <1>6 DEF Added, new, row
  <2>10. QED
    BY <1>4, <2>5, <2>6, <2>8, <2>9
<1>7. QED
  BY <1>5, <1>6

\* What a delete does to the last place: the cluster goes if it was the first.
Dropped(cs, s) ==
  IF (s - 1) % DPC = 0 THEN SubSeq(cs, 1, Len(cs) - 1) ELSE Put(cs, s - 1, Nothing)

\* It leaves the clusters packed, and all the other entries as they were.
LEMMA DroppedLast ==
  ASSUME NEW cs, NEW s \in Nat \ {0}, PackedTo(cs, s)
  PROVE  /\ PackedTo(Dropped(cs, s), s - 1)
         /\ \A q \in Used(s - 1) : Read(Dropped(cs, s), q) = Read(cs, q)
<1>1. /\ cs \in Seq(Row) /\ Len(cs) = Needs(s) /\ Len(cs) \in Nat
      /\ \A q \in Places0(Len(cs)) : Read(cs, q).name # NoName <=> q < s
  BY NeedsType DEF PackedTo
<1>2. s - 1 \in Nat /\ s - 1 \in Used(s) /\ Used(s - 1) \subseteq Used(s)
  BY DEF Used
<1>3. s - 1 \in Places0(Len(cs))
  BY <1>2, UsedPlace
<1>4. Len(cs) = (s - 1) \div DPC + 1 /\ (s - 1) \div DPC \in Nat
  BY <1>1, NeedsLast
<1>5. \A q \in Used(s - 1) : q \in Places0(Len(cs)) /\ q # s - 1
  <2>1. \A q \in Used(s - 1) : q # s - 1
    BY <1>2 DEF Used
  <2>2. QED
    BY <1>2, <2>1, UsedPlace
<1>6. CASE (s - 1) % DPC # 0
  <2> DEFINE new == Put(cs, s - 1, Nothing)
  <2>1. Nothing \in Cell /\ Nothing.name = NoName
    BY DEF Nothing, Cell
  <2>2. /\ new \in Seq(Row) /\ Len(new) = Len(cs) /\ Read(new, s - 1) = Nothing
        /\ \A q \in Places0(Len(cs)) \ {s - 1} : Read(new, q) = Read(cs, q)
    BY <1>1, <1>3, <2>1, PutRead
  <2> HIDE DEF new
  <2>3. Len(new) = Needs(s - 1)
    BY <1>2, <1>4, <1>6, <2>2, NeedsNext
  <2>4. ASSUME NEW q \in Places0(Len(new))
        PROVE  Read(new, q).name # NoName <=> q < s - 1
    <3>1. q \in Nat /\ q \in Places0(Len(cs))
      BY <2>2, ReadType
    <3>2. CASE q = s - 1
      BY <1>2, <2>1, <2>2, <3>2
    <3>3. CASE q # s - 1
      <4>1. q < s - 1 <=> q < s
        BY <3>1, <3>3
      <4>2. QED
        BY <1>1, <2>2, <3>1, <3>3, <4>1
    <3>4. QED
      BY <3>2, <3>3
  <2>5. PackedTo(new, s - 1)
    BY <1>2, <2>2, <2>3, <2>4 DEF PackedTo
  <2>6. Dropped(cs, s) = new
    BY <1>6 DEF Dropped, new
  <2>7. QED
    BY <1>5, <2>2, <2>5, <2>6
<1>7. CASE (s - 1) % DPC = 0
  <2> DEFINE new == SubSeq(cs, 1, Len(cs) - 1)
  <2>1. \A i \in 1 .. Len(cs) - 1 : cs[i] \in Row
    BY <1>1, ElementOfSeq
  <2>2. 1 \in Int /\ Len(cs) - 1 \in Int /\ Len(cs) - 1 \in Nat
    BY <1>1, <1>4
  <2>3. /\ new \in Seq(Row)
        /\ Len(new) = IF 1 <= Len(cs) - 1 THEN (Len(cs) - 1) - 1 + 1 ELSE 0
        /\ \A i \in 1 .. (Len(cs) - 1) - 1 + 1 : new[i] = cs[1 + i - 1]
    BY <2>1, <2>2, SubSeqProperties
  <2> HIDE DEF new
  <2>4. Len(new) = Len(cs) - 1 /\ \A i \in 1 .. Len(cs) - 1 : new[i] = cs[i]
    <3>1. Len(new) = Len(cs) - 1
      <4>1. PICK m \in Nat : m = Len(cs) - 1
        BY <2>2
      <4>2. Len(new) = IF 1 <= m THEN m - 1 + 1 ELSE 0
        BY <2>3, <4>1
      <4>3. Len(new) = m
        BY <4>2
      <4>4. QED
        BY <4>1, <4>3
    <3>2. ASSUME NEW i \in 1 .. Len(cs) - 1 PROVE new[i] = cs[i]
      <4>1. i \in 1 .. (Len(cs) - 1) - 1 + 1 /\ 1 + i - 1 = i
        BY <2>2
      <4>2. QED
        BY <2>3, <4>1
    <3>3. QED
      BY <3>1, <3>2
  <2>5. Len(new) = Needs(s - 1)
    BY <1>2, <1>4, <1>7, <2>4, NeedsNext
  <2>6. s - 1 = ((s - 1) \div DPC) * DPC + ((s - 1) % DPC)
    BY <1>2, DivMod
  <2>7. s - 1 = DPC * Len(new)
    <3>1. ((s - 1) \div DPC) * DPC = DPC * ((s - 1) \div DPC) /\ DPC * ((s - 1) \div DPC) \in Nat
      BY <1>4, DirEntriesAssumption
    <3>2. Len(new) = (s - 1) \div DPC
      BY <1>4, <2>4
    <3>3. QED
      BY <1>7, <2>6, <3>1, <3>2
  <2>8. ASSUME NEW q \in Places0(Len(new))
        PROVE  q \in Nat /\ q < s - 1 /\ q \in Used(s) /\ Read(new, q) = Read(cs, q)
    <3>1. q \in Nat /\ q \div DPC + 1 \in 1 .. Len(new)
      BY <2>3, ReadType
    <3>2. q < s - 1
      BY <1>2, <2>7, <3>1 DEF Places0
    <3>3. QED
      BY <2>4, <3>1, <3>2 DEF Read, Used
  <2>9. ASSUME NEW q \in Places0(Len(new))
        PROVE  Read(new, q).name # NoName <=> q < s - 1
    <3>1. Read(cs, q).name \in Name
      BY <2>8, UsedPlace
    <3>2. QED
      BY <2>8, <3>1, DirEntriesAssumption
  <2>10. PackedTo(new, s - 1)
    BY <1>2, <2>3, <2>5, <2>9 DEF PackedTo
  <2>11. \A q \in Used(s - 1) : q \in Places0(Len(new))
    BY <1>2, <2>7 DEF Used, Places0
  <2>12. Dropped(cs, s) = new
    BY <1>7 DEF Dropped, new
  <2>13. QED
    BY <2>8, <2>10, <2>11, <2>12
<1>8. QED
  BY <1>6, <1>7
-----------------------------------------------------------------------------
(* The five cases of soDeleteDirEntry *)

\* A place of a row, counted from the first cluster.
LEMMA InRow ==
  ASSUME NEW cs \in Seq(Row), NEW c \in 1 .. Len(cs), NEW j \in Slot,
         NEW q, q = DPC * (c - 1) + j
  PROVE  /\ q \in Places0(Len(cs)) /\ q \in Nat
         /\ q \div DPC = c - 1 /\ q % DPC = j
         /\ Read(cs, q) = cs[c][j]
<1>1. c - 1 \in Nat /\ Len(cs) \in Nat /\ c - 1 < Len(cs) /\ (c - 1) + 1 = c
  OBVIOUS
<1>2. DPC * (c - 1) = (c - 1) * DPC
  BY <1>1, DirEntriesAssumption
<1>3. q = (c - 1) * DPC + j
  BY <1>2
<1>4. q \in Nat /\ q \div DPC = c - 1 /\ q % DPC = j
  BY <1>1, <1>3, DivModUnique
<1>5. q \in Places0(Len(cs))
  BY <1>1, <1>4, InClusters
<1>6. QED
  BY <1>1, <1>4, <1>5 DEF Read

\* The largest of a set of numbers.
LEMMA MaxIs ==
  ASSUME NEW S \in SUBSET Int, NEW m \in S, \A y \in S : y <= m
  PROVE  Max(S) = m
<1>1. \A y \in S : m >= y
  OBVIOUS
<1>2. ASSUME NEW x \in S, \A y \in S : x >= y PROVE x = m
  <2>1. x >= m /\ x <= m
    BY <1>2
  <2>2. x \in Int /\ m \in Int
    OBVIOUS
  <2>3. QED
    BY <2>1, <2>2
<1>3. QED
  BY <1>1, <1>2 DEF Max

\* And the smallest of one.
LEMMA MinIs == ASSUME NEW m \in Int PROVE Min({m}) = m
BY DEF Min

\* The last cluster's last entry is the last entry of all.
LEMMA LastUsedIs ==
  ASSUME PackedTo(clus, size), size \in Nat \ {0}
  PROVE  /\ Len(clus) \in Nat \ {0}
         /\ LastUsed(Len(clus)) = (size - 1) % DPC
         /\ clus[Len(clus)][(size - 1) % DPC] = Read(clus, size - 1)
         /\ DPC * (Len(clus) - 1) + ((size - 1) % DPC) = size - 1
<1>1. clus \in Seq(Row) /\ Len(clus) = (size - 1) \div DPC + 1 /\ (size - 1) \div DPC \in Nat
      /\ \A q \in Places0(Len(clus)) : Read(clus, q).name # NoName <=> q < size
  BY NeedsLast DEF PackedTo
<1>2. size - 1 \in Nat /\ Len(clus) \in Nat \ {0} /\ Len(clus) \in 1 .. Len(clus)
      /\ Len(clus) - 1 = (size - 1) \div DPC
  BY <1>1
<1>3. PICK k \in Slot : k = (size - 1) % DPC
  BY <1>2, DivMod
<1>4. size - 1 = ((size - 1) \div DPC) * DPC + ((size - 1) % DPC)
  BY <1>2, DivMod
<1>5. DPC * (Len(clus) - 1) = (Len(clus) - 1) * DPC /\ DPC * (Len(clus) - 1) \in Nat
  BY <1>2, DirEntriesAssumption
<1>6. DPC * (Len(clus) - 1) + k = size - 1
  BY <1>2, <1>3, <1>4, <1>5
<1> DEFINE S == {j \in Slot : clus[Len(clus)][j].name # NoName}
<1>7. ASSUME NEW j \in Slot PROVE j \in S <=> j <= k
  <2>1. PICK q : q = DPC * (Len(clus) - 1) + j
    OBVIOUS
  <2>2. q \in Places0(Len(clus)) /\ Read(clus, q) = clus[Len(clus)][j]
    BY <1>1, <1>2, <2>1, InRow
  <2>3. q < size <=> j <= k
    BY <1>5, <1>6, <2>1, DirEntriesAssumption DEF Slot
  <2>4. QED
    BY <1>1, <2>2, <2>3
<1>8. S \in SUBSET Int /\ k \in S /\ \A y \in S : y <= k
  BY <1>3, <1>7, DirEntriesAssumption DEF Slot
<1> HIDE DEF S
<1>9. Max(S) = k
  BY <1>8, MaxIs
<1>10. LastUsed(Len(clus)) = k
  BY <1>9 DEF LastUsed, S
<1>11. Read(clus, size - 1) = clus[Len(clus)][k]
  BY <1>1, <1>2, <1>6, InRow
<1>12. QED
  BY <1>2, <1>3, <1>6, <1>10, <1>11

\* Whether an entry is followed by another in its cluster.
LEMMA FollowedIs ==
  ASSUME PackedTo(clus, size), NEW p \in Used(size), p % DPC < DPC - 1
  PROVE  clus[p \div DPC + 1][(p % DPC) + 1].name # NoName <=> p < size - 1
<1>1. clus \in Seq(Row) /\ size \in Nat /\ Len(clus) \in Nat
      /\ \A q \in Places0(Len(clus)) : Read(clus, q).name # NoName <=> q < size
  BY DEF PackedTo
<1>2. p \in Nat /\ p \in Places0(Len(clus))
  BY UsedPlace
<1>3. PICK c \in 1 .. Len(clus) : c = p \div DPC + 1
  BY <1>1, <1>2, ReadType
<1>4. PICK i \in Slot : i = p % DPC
  BY <1>2, DivMod
<1>5. p = (p \div DPC) * DPC + (p % DPC) /\ p \div DPC \in Nat
  BY <1>2, DivMod
<1>6. DPC * (c - 1) = (c - 1) * DPC /\ DPC * (c - 1) \in Nat /\ c - 1 = p \div DPC
  BY <1>3, <1>5, DirEntriesAssumption
<1>7. p = DPC * (c - 1) + i
  BY <1>4, <1>5, <1>6
<1>8. i + 1 \in Slot
  BY <1>4, DirEntriesAssumption DEF Slot
<1>9. p + 1 = DPC * (c - 1) + (i + 1)
  BY <1>4, <1>6, <1>7, DirEntriesAssumption DEF Slot
<1>10. p + 1 \in Places0(Len(clus)) /\ Read(clus, p + 1) = clus[c][i + 1]
  BY <1>1, <1>8, <1>9, InRow
<1>11. p + 1 < size <=> p < size - 1
  BY <1>1, <1>2
<1>12. QED
  BY <1>1, <1>3, <1>4, <1>10, <1>11

\* The last entry is only dropped, any other replaced by the last first.
Moved(p) == IF p = size - 1 THEN clus ELSE Put(clus, p, Read(clus, size - 1))

\* A delete of the last entry clears its place and keeps the others.
LEMMA AfterDeleteLast ==
  ASSUME PackedTo(clus, size), size \in Nat \ {0}, NEW p \in Used(size), p = size - 1
  PROVE  AfterDelete(p) = Dropped(clus, size)
<1>1. PICK i \in Slot : i = p % DPC
  BY UsedPlace, DivMod
<1>2. PICK c : c = p \div DPC + 1
  OBVIOUS
<1>3. c = Len(clus)
  BY <1>2, NeedsLast DEF PackedTo
<1>4. ~ (i < DPC - 1 /\ clus[c][i + 1].name # NoName)
  BY <1>1, <1>2, FollowedIs
<1>5. i \in 0 .. DPC - 1 /\ DPC \in Nat \ {0, 1}
  BY DirEntriesAssumption DEF Slot
<1>6. CASE i \in 1 .. DPC - 2
  <2>1. AfterDelete(p) = Put(clus, p, Nothing)
    BY <1>1, <1>2, <1>4, <1>6 DEF AfterDelete
  <2>2. i # 0
    BY <1>6
  <2>3. QED
    BY <1>1, <2>1, <2>2 DEF Dropped
<1>7. CASE i = 0
  <2>1. i \notin 1 .. DPC - 2
    BY <1>7
  <2>2. AfterDelete(p) = SubSeq(clus, 1, c - 1)
    BY <1>1, <1>2, <1>4, <1>7, <2>1 DEF AfterDelete
  <2>3. QED
    BY <1>1, <1>3, <1>7, <2>2 DEF Dropped
<1>8. CASE i = DPC - 1
  <2>1. i \notin 1 .. DPC - 2 /\ i # 0
    BY <1>5, <1>8
  <2>2. AfterDelete(p) = Put(clus, p, Nothing)
    BY <1>1, <1>2, <1>3, <1>4, <1>8, <2>1 DEF AfterDelete
  <2>3. QED
    BY <1>1, <2>1, <2>2 DEF Dropped
<1>9. QED
  BY <1>5, <1>6, <1>7, <1>8

\* A delete of another entry puts the last one in its place.
LEMMA AfterDeleteOther ==
  ASSUME PackedTo(clus, size), size \in Nat \ {0}, NEW p \in Used(size), p # size - 1
  PROVE  AfterDelete(p) = Dropped(Put(clus, p, Read(clus, size - 1)), size)
<1>1. clus \in Seq(Row) /\ p \in Nat /\ p \in Places0(Len(clus)) /\ p < size - 1
  BY UsedPlace DEF PackedTo, Used
<1>2. PICK i \in Slot : i = p % DPC
  BY <1>1, DivMod
<1>3. PICK c \in 1 .. Len(clus) : c = p \div DPC + 1
  BY <1>1, ReadType
<1>4. PICK k : k = (size - 1) % DPC
  OBVIOUS
<1>5. /\ Len(clus) \in Nat \ {0} /\ LastUsed(Len(clus)) = k
      /\ clus[Len(clus)][k] = Read(clus, size - 1)
      /\ DPC * (Len(clus) - 1) + k = size - 1
  BY <1>4, LastUsedIs
<1>6. size - 1 \in Used(size) /\ size - 1 \in Nat /\ k \in Slot
  BY <1>4, DivMod DEF Used
<1>7. Len(Put(clus, p, Read(clus, size - 1))) = Len(clus)
  <2>1. Read(clus, size - 1) \in Cell
    BY <1>6, UsedPlace
  <2>2. QED
    BY <1>1, <2>1, PutRead
<1>8. i < DPC - 1 => clus[c][i + 1].name # NoName
  BY <1>1, <1>2, <1>3, FollowedIs
<1>9. i \in 0 .. DPC - 1 /\ DPC \in Nat \ {0, 1}
  BY DirEntriesAssumption DEF Slot
<1> DEFINE filled == Put(clus, p, Read(clus, size - 1))
<1>10. CASE c = Len(clus)
  <2>1. p = DPC * (c - 1) + i
    <3>1. p = (p \div DPC) * DPC + (p % DPC) /\ p \div DPC \in Nat
      BY <1>1, DivMod
    <3>2. c - 1 = p \div DPC /\ DPC * (c - 1) = (c - 1) * DPC
      BY <1>3, <3>1, DirEntriesAssumption
    <3>3. QED
      BY <1>2, <3>1, <3>2
  <2>2. i < k /\ k \in Nat /\ k <= DPC - 1
    <3>1. DPC * (c - 1) \in Int
      BY <1>3, DirEntriesAssumption
    <3>2. QED
      BY <1>1, <1>5, <1>6, <1>9, <1>10, <2>1, <3>1 DEF Slot
  <2>3. i < DPC - 1 /\ k # 0 /\ i # DPC - 1
    BY <1>9, <2>2
  <2>4. clus[c][i + 1].name # NoName
    BY <1>8, <2>3
  <2>5. AfterDelete(p) = Put(Put(clus, p, clus[c][k]), DPC * (c - 1) + k, Nothing)
    BY <1>2, <1>3, <1>5, <1>10, <2>3, <2>4 DEF AfterDelete
  <2>6. AfterDelete(p) = Put(filled, size - 1, Nothing)
    BY <1>5, <1>10, <2>5
  <2>7. QED
    BY <1>4, <2>3, <2>6 DEF Dropped
<1>11. CASE c # Len(clus)
  <2>1. i < DPC - 1 \/ i = DPC - 1
    BY <1>9
  <2>2. i = DPC - 1 => i # 0 /\ i \notin 1 .. DPC - 2
    BY <1>9
  <2>3. AfterDelete(p) = FillFromLast(p)
    <3>1. CASE i < DPC - 1
      <4>1. clus[c][i + 1].name # NoName
        BY <1>8, <3>1
      <4>2. QED
        BY <1>2, <1>3, <1>11, <3>1, <4>1 DEF AfterDelete
    <3>2. CASE i = DPC - 1
      BY <1>2, <1>3, <1>11, <2>2, <3>2 DEF AfterDelete
    <3>3. QED
      BY <2>1, <3>1, <3>2
  <2>4. FillFromLast(p) = IF k = 0 THEN SubSeq(filled, 1, Len(clus) - 1)
                          ELSE Put(filled, size - 1, Nothing)
    BY <1>5 DEF FillFromLast
  <2>5. QED
    BY <1>4, <1>7, <2>3, <2>4 DEF Dropped
<1>12. QED
  BY <1>10, <1>11
-----------------------------------------------------------------------------
(* The table of a directory, and what the routines do to it *)

TableAdded(t, s, e) == [p \in Used(s + 1) |-> IF p = s THEN e ELSE t[p]]
TableDeleted(t, s, p) == [q \in Used(s - 1) |-> IF q = p THEN t[s - 1] ELSE t[q]]
TableRenamed(t, s, p, new) == [q \in Used(s) |-> IF q = p THEN Entry(new, t[p].in) ELSE t[q]]

\* soAddDirEntry puts the entry behind the last.
LEMMA AddTable ==
  ASSUME NEW cs, NEW s, PackedTo(cs, s), NEW e \in Cell, e.name # NoName
  PROVE  Table(Added(cs, s, e), s + 1) = TableAdded(Table(cs, s), s, e)
<1>1. s \in Nat
  BY DEF PackedTo
<1>2. \A p \in Used(s + 1) : p # s => p \in Used(s)
  BY <1>1 DEF Used
<1>3. \A p \in Used(s + 1) :
        Read(Added(cs, s, e), p) = IF p = s THEN e ELSE Table(cs, s)[p]
  BY <1>2, AddedLast DEF Table
<1>4. QED
  BY <1>3 DEF Table, TableAdded

\* soRenameDirEntry gives an entry a name.
LEMMA RenameTable ==
  ASSUME NEW cs, NEW s, PackedTo(cs, s), NEW p \in Used(s), NEW n \in Name,
         NEW e, e = Entry(n, Table(cs, s)[p].in)
  PROVE  /\ PackedTo(Put(cs, p, e), s)
         /\ Table(Put(cs, p, e), s) = TableRenamed(Table(cs, s), s, p, n)
<1>1. Table(cs, s)[p] \in Cell
  BY UsedPlace DEF Table
<1>2. e \in Cell /\ e.name # NoName
  BY <1>1, DirEntriesAssumption DEF Entry, Cell
<1>3. /\ PackedTo(Put(cs, p, e), s) /\ Read(Put(cs, p, e), p) = e
      /\ \A q \in Used(s) \ {p} : Read(Put(cs, p, e), q) = Read(cs, q)
  BY <1>2, Changed
<1>4. \A q \in Used(s) :
        Read(Put(cs, p, e), q) = IF q = p THEN Entry(n, Table(cs, s)[p].in) ELSE Table(cs, s)[q]
  BY <1>3 DEF Table
<1>5. QED
  BY <1>3, <1>4 DEF Table, TableRenamed

\* soDeleteDirEntry, in all its cases, puts the last entry in the place of the
\* one that goes.
LEMMA DeleteTable ==
  ASSUME PackedTo(clus, size), NEW p \in Used(size)
  PROVE  /\ PackedTo(AfterDelete(p), size - 1) /\ size \in Nat \ {0}
         /\ Table(AfterDelete(p), size - 1) = TableDeleted(Table(clus, size), size, p)
<1>1. size \in Nat \ {0} /\ size - 1 \in Used(size) /\ Used(size - 1) \subseteq Used(size)
  BY UsedPlace DEF Used
<1>2. CASE p = size - 1
  <2>1. AfterDelete(p) = Dropped(clus, size)
    BY <1>1, <1>2, AfterDeleteLast
  <2>2. /\ PackedTo(AfterDelete(p), size - 1)
        /\ \A q \in Used(size - 1) : Read(AfterDelete(p), q) = Read(clus, q)
    BY <1>1, <2>1, DroppedLast
  <2>3. \A q \in Used(size - 1) : q # p
    BY <1>1, <1>2 DEF Used
  <2>4. QED
    BY <1>1, <2>2, <2>3 DEF Table, TableDeleted
<1>3. CASE p # size - 1
  <2> DEFINE e == Read(clus, size - 1)
             filled == Put(clus, p, e)
  <2>1. AfterDelete(p) = Dropped(filled, size)
    BY <1>1, <1>3, AfterDeleteOther
  <2>2. e \in Cell /\ e.name # NoName
    BY <1>1, UsedPlace, DirEntriesAssumption
  <2> HIDE DEF e
  <2>3. /\ PackedTo(filled, size) /\ Read(filled, p) = e
        /\ \A q \in Used(size) \ {p} : Read(filled, q) = Read(clus, q)
    BY <2>2, Changed
  <2> HIDE DEF filled
  <2>4. /\ PackedTo(AfterDelete(p), size - 1)
        /\ \A q \in Used(size - 1) : Read(AfterDelete(p), q) = Read(filled, q)
    BY <1>1, <2>1, <2>3, DroppedLast
  <2>5. \A q \in Used(size - 1) :
          Read(AfterDelete(p), q) = IF q = p THEN Table(clus, size)[size - 1]
                                    ELSE Table(clus, size)[q]
    BY <1>1, <2>3, <2>4 DEF Table, e
  <2>6. QED
    BY <1>1, <2>4, <2>5 DEF Table, TableDeleted
<1>4. QED
  BY <1>2, <1>3

-----------------------------------------------------------------------------
(* Names and listings *)

\* An entry added under a name that is not there.
LEMMA DistinctAdded ==
  ASSUME NEW s \in Nat, NEW t, Distinct(t, s), NEW n \in Name, NEW i \in Inode,
         \A p \in Used(s) : t[p].name # n
  PROVE  Distinct(TableAdded(t, s, Entry(n, i)), s + 1)
<1> DEFINE u == TableAdded(t, s, Entry(n, i))
<1>1. \A p \in Used(s + 1) : p # s => p \in Used(s)
  BY DEF Used
<1>2. Entry(n, i) \in [name : Name, in : Inode] /\ Entry(n, i).name = n
  BY DEF Entry
<1>3. \A p \in Used(s + 1) : u[p] = IF p = s THEN Entry(n, i) ELSE t[p]
  BY DEF TableAdded
<1>4. u \in [Used(s + 1) -> [name : Name, in : Inode]]
  BY <1>1, <1>2 DEF TableAdded, Distinct
<1>5. ASSUME NEW p \in Used(s + 1), NEW q \in Used(s + 1), u[p].name = u[q].name
      PROVE  p = q
  BY <1>1, <1>2, <1>3, <1>5 DEF Distinct
<1>6. QED
  BY <1>4, <1>5 DEF Distinct

\* An entry moved to the place of one that goes.
LEMMA DistinctDeleted ==
  ASSUME NEW s \in Nat \ {0}, NEW t, Distinct(t, s), NEW p \in Used(s)
  PROVE  Distinct(TableDeleted(t, s, p), s - 1)
<1> DEFINE u == TableDeleted(t, s, p)
<1>1. s - 1 \in Used(s) /\ \A q \in Used(s - 1) : q \in Used(s) /\ q # s - 1
  BY DEF Used
<1>2. \A q \in Used(s - 1) : u[q] = IF q = p THEN t[s - 1] ELSE t[q]
  BY DEF TableDeleted
<1>3. u \in [Used(s - 1) -> [name : Name, in : Inode]]
  BY <1>1 DEF TableDeleted, Distinct
<1>4. ASSUME NEW q \in Used(s - 1), NEW r \in Used(s - 1), u[q].name = u[r].name
      PROVE  q = r
  BY <1>1, <1>2, <1>4 DEF Distinct
<1>5. QED
  BY <1>3, <1>4 DEF Distinct

\* An entry renamed to a name that is not there.
LEMMA DistinctRenamed ==
  ASSUME NEW s, NEW t, Distinct(t, s), NEW p \in Used(s), NEW n \in Name,
         \A q \in Used(s) : t[q].name # n
  PROVE  Distinct(TableRenamed(t, s, p, n), s)
<1> DEFINE u == TableRenamed(t, s, p, n)
<1>1. t[p] \in [name : Name, in : Inode]
  BY DEF Distinct
<1>2. Entry(n, t[p].in) \in [name : Name, in : Inode] /\ Entry(n, t[p].in).name = n
  BY <1>1 DEF Entry
<1>3. \A q \in Used(s) : u[q] = IF q = p THEN Entry(n, t[p].in) ELSE t[q]
  BY DEF TableRenamed
<1>4. u \in [Used(s) -> [name : Name, in : Inode]]
  BY <1>2 DEF TableRenamed, Distinct
<1>5. ASSUME NEW q \in Used(s), NEW r \in Used(s), u[q].name = u[r].name
      PROVE  q = r
  BY <1>2, <1>3, <1>5 DEF Distinct
<1>6. QED
  BY <1>4, <1>5 DEF Distinct

\* A listing is not disturbed by an entry behind the last,
LEMMA FollowsAdded ==
  ASSUME NEW s \in Nat, NEW t, NEW r, Follows(r, t, s), NEW e
  PROVE  Follows(r, TableAdded(t, s, e), s + 1)
<1>1. \A p \in Used(s) : p \in Used(s + 1) /\ p # s
  BY DEF Used
<1>2. \A p \in Used(s) : TableAdded(t, s, e)[p] = t[p]
  BY <1>1 DEF TableAdded
<1>3. QED
  BY <1>1, <1>2 DEF Follows

\* nor by a new name, once the old one is forgotten.
LEMMA FollowsRenamed ==
  ASSUME NEW s, NEW t, NEW r, Follows(r, t, s), NEW p \in Used(s), NEW n,
         NEW r2, r2 = [r EXCEPT !.listed = @ \ {t[p].name}, !.due = @ \ {t[p].name}]
  PROVE  Follows(r2, TableRenamed(t, s, p, n), s)
<1>1. /\ r2 \in [pos : 0 .. MaxFcn, listed : SUBSET Name, due : SUBSET Name]
      /\ r2.pos = r.pos /\ r2.listed = r.listed \ {t[p].name} /\ r2.due = r.due \ {t[p].name}
  BY DEF Follows
<1>2. \A q \in Used(s) : q # p => TableRenamed(t, s, p, n)[q] = t[q]
  BY DEF TableRenamed
<1>3. ASSUME NEW m \in r2.listed
      PROVE  \E q \in Used(s) : q < r2.pos /\ TableRenamed(t, s, p, n)[q].name = m
  <2>1. m \in r.listed /\ m # t[p].name
    BY <1>1, <1>3
  <2>2. PICK q \in Used(s) : q < r.pos /\ t[q].name = m
    BY <2>1 DEF Follows
  <2>3. QED
    BY <1>1, <1>2, <2>1, <2>2
<1>4. ASSUME NEW m \in r2.due
      PROVE  \E q \in Used(s) : q >= r2.pos /\ TableRenamed(t, s, p, n)[q].name = m
  <2>1. m \in r.due /\ m # t[p].name
    BY <1>1, <1>4
  <2>2. PICK q \in Used(s) : q >= r.pos /\ t[q].name = m
    BY <2>1 DEF Follows
  <2>3. QED
    BY <1>1, <1>2, <2>1, <2>2
<1>5. QED
  BY <1>1, <1>3, <1>4 DEF Follows

\* A delete moves the last entry to the front: one that was listed stays
\* before the position, and one that comes before it is not due any more.
LEMMA FollowsDeleted ==
  ASSUME NEW s \in Nat \ {0}, NEW t, NEW r, Follows(r, t, s), NEW p \in Used(s),
         NEW moved, moved = IF p < r.pos /\ p < s - 1 THEN {t[s - 1].name} ELSE {},
         NEW r2, r2 = [r EXCEPT !.listed = @ \ {t[p].name},
                                !.due = @ \ ({t[p].name} \cup moved)]
  PROVE  Follows(r2, TableDeleted(t, s, p), s - 1)
<1> DEFINE u == TableDeleted(t, s, p)
<1>1. /\ r2 \in [pos : 0 .. MaxFcn, listed : SUBSET Name, due : SUBSET Name]
      /\ r2.pos = r.pos /\ r2.listed = r.listed \ {t[p].name}
      /\ r2.due = r.due \ ({t[p].name} \cup moved)
  BY DEF Follows
<1>2. r.pos \in Int /\ p \in Nat /\ p <= s - 1
  BY DEF Follows, Used
<1>3. \A q \in Used(s) : q \in Nat /\ (q # s - 1 => q \in Used(s - 1))
  BY DEF Used
<1>4. \A q \in Used(s - 1) : q # p => u[q] = t[q]
  BY DEF TableDeleted
<1>5. p # s - 1 => p \in Used(s - 1) /\ u[p] = t[s - 1]
  BY <1>3 DEF TableDeleted
<1> HIDE DEF u
<1>6. ASSUME NEW m \in r2.listed
      PROVE  \E q \in Used(s - 1) : q < r2.pos /\ u[q].name = m
  <2>1. m \in r.listed /\ m # t[p].name
    BY <1>1, <1>6
  <2>2. PICK q \in Used(s) : q < r.pos /\ t[q].name = m
    BY <2>1 DEF Follows
  <2>3. q # p
    BY <2>1, <2>2
  <2>4. CASE q # s - 1
    BY <1>1, <1>3, <1>4, <2>2, <2>3, <2>4
  <2>5. CASE q = s - 1
    <3>1. p # s - 1 /\ p < r.pos
      BY <1>2, <2>2, <2>3, <2>5
    <3>2. QED
      BY <1>1, <1>5, <2>2, <2>5, <3>1
  <2>6. QED
    BY <2>4, <2>5
<1>7. ASSUME NEW m \in r2.due
      PROVE  \E q \in Used(s - 1) : q >= r2.pos /\ u[q].name = m
  <2>1. m \in r.due /\ m # t[p].name /\ m \notin moved
    BY <1>1, <1>7
  <2>2. PICK q \in Used(s) : q >= r.pos /\ t[q].name = m
    BY <2>1 DEF Follows
  <2>3. q # p
    BY <2>1, <2>2
  <2>4. CASE q # s - 1
    BY <1>1, <1>3, <1>4, <2>2, <2>3, <2>4
  <2>5. CASE q = s - 1
    <3>1. p # s - 1 /\ p < s - 1
      BY <1>2, <2>3, <2>5
    <3>2. ~ (p < r.pos)
      BY <2>1, <2>2, <2>5, <3>1
    <3>3. p >= r.pos
      BY <1>2, <3>2
    <3>4. QED
      BY <1>1, <1>5, <2>2, <2>5, <3>1, <3>3
  <2>6. QED
    BY <2>4, <2>5
<1>8. QED
  BY <1>1, <1>6, <1>7 DEF Follows, u
-----------------------------------------------------------------------------
(* The routines keep the invariant *)

\* What the routines look at, in terms of the table.
LEMMA Seen ==
  ASSUME IInv
  PROVE  /\ size \in Nat /\ Place = Places0(Len(clus)) /\ Len(clus) \in Nat
         /\ \A p \in Used(size) : p \in Place /\ p \in Nat /\ At(p) = Table(clus, size)[p]
         /\ \A p \in Place : p \in Nat /\ (p \notin Used(size) => At(p).name = NoName)
<1>1. /\ size \in Nat /\ clus \in Seq(Row) /\ Len(clus) \in Nat
      /\ \A p \in Places0(Len(clus)) : Read(clus, p).name # NoName <=> p < size
  BY DEF IInv, PackedTo
<1>2. Place = Places0(Len(clus))
  BY DEF Place, Places0
<1>3. \A p \in Used(size) : p \in Place /\ p \in Nat /\ At(p) = Table(clus, size)[p]
  BY <1>2, UsedPlace DEF IInv, At, Read, Table
<1>4. ASSUME NEW p \in Place
      PROVE  p \in Nat /\ (p \notin Used(size) => At(p).name = NoName)
  <2>1. p \in Nat
    BY <1>1, <1>2, ReadType
  <2>2. p \notin Used(size) => ~ (p < size)
    BY <1>1, <2>1 DEF Used
  <2>3. At(p) = Read(clus, p)
    BY DEF At, Read
  <2>4. QED
    BY <1>1, <1>2, <2>1, <2>2, <2>3
<1>5. QED
  BY <1>1, <1>2, <1>3, <1>4

\* A name is looked for in all the places there are.
LEMMA FoundIs == ASSUME IInv, NEW n \in Name PROVE Found(n) = Places(n)
<1>1. ASSUME NEW p \in Places(n) PROVE p \in Scanned
  <2>1. p \in Place /\ At(p).name = n
    BY DEF Places
  <2>2. p \in Used(size) /\ p \in Nat /\ size \in Nat
    BY <2>1, Seen, DirEntriesAssumption
  <2>3. p \div DPC < Len(clus)
    BY <2>1, <2>2, Seen, InClusters
  <2>4. p % DPC < size
    <3>1. p = (p \div DPC) * DPC + (p % DPC) /\ p \div DPC \in Nat /\ p % DPC \in Slot
      BY <2>2, DivMod
    <3>2. (p \div DPC) * DPC \in Nat
      BY <3>1, DirEntriesAssumption
    <3>3. QED
      BY <2>2, <3>1, <3>2, DirEntriesAssumption DEF Slot, Used
  <2>5. Clusters = Len(clus)
    BY DEF IInv, PackedTo, Clusters, Needs
  <2>6. QED
    BY <2>1, <2>3, <2>4, <2>5 DEF Scanned
<1>2. QED
  BY <1>1 DEF Found

\* A name that is there is in one place, and every search finds that one.
LEMMA Present ==
  ASSUME IInv, NEW n \in Name, NEW p \in Places(n)
  PROVE  /\ p \in Used(size) /\ Table(clus, size)[p].name = n
         /\ At(p) = Table(clus, size)[p] /\ At(p).in \in Inode
         /\ Min(Places(n)) = p /\ Lookup(n) = At(p).in /\ Lookup(n) # NULL_REFERENCE
<1>1. \A q \in Places(n) : q \in Used(size) /\ Table(clus, size)[q].name = n /\ q \in Nat
  BY Seen, DirEntriesAssumption DEF Places
<1>2. Distinct(Table(clus, size), size)
  BY DEF IInv
<1>3. Places(n) = {p}
  BY <1>1, <1>2 DEF Distinct
<1>4. Min(Places(n)) = p
  BY <1>1, <1>3, MinIs
<1>5. At(p) = Table(clus, size)[p] /\ At(p).in \in Inode
  BY <1>1, <1>2, Seen DEF Distinct
<1>6. Lookup(n) = At(p).in
  BY <1>4, FoundIs DEF Lookup
<1>7. QED
  BY <1>1, <1>4, <1>5, <1>6, DirEntriesAssumption

\* A name that is not there is in no entry.
LEMMA Absent ==
  ASSUME IInv, NEW n \in Name, Places(n) = {}
  PROVE  /\ \A p \in Used(size) : Table(clus, size)[p].name # n
         /\ Lookup(n) = NULL_REFERENCE
<1>1. \A p \in Used(size) : Table(clus, size)[p].name # n
  BY Seen DEF Places
<1>2. QED
  BY <1>1, FoundIs DEF Lookup

\* An empty directory.
LEMMA InitIInv == Init => IInv
<1> SUFFICES ASSUME Init PROVE IInv
  OBVIOUS
<1>1. clus = <<>> /\ size = 0 /\ overread = FALSE
      /\ reader = [pos |-> 0, listed |-> {}, due |-> {}]
  BY DEF Init
<1>2. Needs(0) = 0
  <2>1. 0 \div DPC = 0 /\ 0 % DPC = 0
    BY DirEntriesAssumption
  <2>2. QED
    BY <2>1, NeedsNext
<1>3. Places0(0) = {} /\ Used(0) = {}
  BY DirEntriesAssumption DEF Places0, Used
<1>4. PackedTo(clus, size)
  BY <1>1, <1>2, <1>3 DEF PackedTo
<1>5. Distinct(Table(clus, size), size)
  BY <1>1, <1>3 DEF Distinct, Table
<1>6. Follows(reader, Table(clus, size), size)
  BY <1>1, DirEntriesAssumption DEF Follows
<1>7. overread \in BOOLEAN
  BY <1>1
<1>8. size <= MaxFcn
  BY <1>1, DirEntriesAssumption
<1>9. QED
  BY <1>4, <1>5, <1>6, <1>7, <1>8 DEF IInv

\* A step that leaves the entries and the listing alone.
LEMMA SameIInv ==
  ASSUME IInv, UNCHANGED <<clus, size, reader>>, overread' \in BOOLEAN
  PROVE  IInv'
BY DEF IInv

\* What soAddDirEntry writes is Added.
LEMMA StoreIs ==
  ASSUME NEW n, NEW in,
         IF size \div DPC < Len(clus) THEN Store(n, in) ELSE StoreInNew(n, in)
  PROVE  clus' = Added(clus, size, Entry(n, in))
BY DEF Store, StoreInNew, Added

\* An added entry goes behind the last and has a name that was in no place.
LEMMA AddIInv ==
  ASSUME IInv, NEW n \in Name, NEW in \in Inode, soAddDirEntry(n, in)
  PROVE  IInv'
<1>1. CASE Overreads(n) /\ Astray
  BY <1>1, SameIInv DEF Astray
<1>2. CASE UNCHANGED <<clus, size, reader>> /\ UNCHANGED overread
  BY <1>2, SameIInv DEF IInv
<1>3. CASE /\ Lookup(n) = NULL_REFERENCE /\ ~ Full
           /\ IF size \div DPC < Len(clus) THEN Store(n, in) ELSE StoreInNew(n, in)
           /\ size' = size + 1 /\ UNCHANGED reader /\ UNCHANGED overread
  <2> DEFINE e == Entry(n, in)
             t == Table(clus, size)
  <2>1. clus' = Added(clus, size, e)
    BY <1>3, StoreIs
  <2>2. e \in Cell /\ e.name # NoName
    BY DirEntriesAssumption DEF Entry, Cell
  <2>3. \A p \in Used(size) : t[p].name # n
    BY <1>3, Present, Absent
  <2>4. size \in Nat /\ PackedTo(clus, size) /\ Distinct(t, size) /\ Follows(reader, t, size)
    BY Seen DEF IInv
  <2>5. size + 1 <= MaxFcn
    BY <1>3, <2>4, DirEntriesAssumption DEF Full
  <2> HIDE DEF t
  <2>6. Distinct(TableAdded(t, size, e), size + 1)
    BY <2>3, <2>4, DistinctAdded
  <2>7. Follows(reader, TableAdded(t, size, e), size + 1)
    BY <2>4, FollowsAdded
  <2> HIDE DEF e
  <2>8. PackedTo(Added(clus, size, e), size + 1)
    BY <2>2, <2>4, AddedLast
  <2>9. Table(Added(clus, size, e), size + 1) = TableAdded(t, size, e)
    BY <2>2, <2>4, AddTable DEF t
  <2>10. clus' = Added(clus, size, e) /\ size' = size + 1 /\ reader' = reader /\ overread' = overread
    BY <1>3, <2>1
  <2>11. QED
    BY <2>5, <2>6, <2>7, <2>8, <2>9, <2>10 DEF IInv
<1>4. QED
  BY <1>1, <1>2, <1>3 DEF soAddDirEntry, Fails

\* A delete keeps the invariant: the moved name is still in one place only.
LEMMA DeleteIInv ==
  ASSUME IInv, NEW n \in Name, soDeleteDirEntry(n)
  PROVE  IInv'
<1>1. CASE UNCHANGED <<clus, size, reader>> /\ UNCHANGED overread
  BY <1>1, SameIInv DEF IInv
<1>2. CASE Places(n) # {}
  <2>1. PICK p \in Places(n) : TRUE
    BY <1>2
  <2>2. /\ p \in Used(size) /\ Table(clus, size)[p].name = n /\ Min(Places(n)) = p
    BY <2>1, Present
  <2> DEFINE t == Table(clus, size)
             after == AfterDelete(p)
             moved == IF p < reader.pos /\ p < size - 1 THEN {t[size - 1].name} ELSE {}
  <2>3. PackedTo(after, size - 1) /\ size \in Nat \ {0}
        /\ Table(after, size - 1) = TableDeleted(t, size, p)
    BY <2>2, DeleteTable DEF IInv
  <2>4. p < size - 1 => after[p \div DPC + 1][p % DPC].name = t[size - 1].name
    <3>1. ASSUME p < size - 1 PROVE p \in Used(size - 1)
      BY <2>2, <2>3, <3>1 DEF Used
    <3>2. ASSUME p < size - 1 PROVE Table(after, size - 1)[p] = t[size - 1]
      BY <2>3, <3>1, <3>2 DEF TableDeleted
    <3>3. ASSUME p < size - 1 PROVE Table(after, size - 1)[p] = after[p \div DPC + 1][p % DPC]
      BY <3>1, <3>3 DEF Table, Read
    <3>4. QED
      BY <3>2, <3>3
  <2>5. (IF p < reader.pos /\ p < size - 1 THEN {after[p \div DPC + 1][p % DPC].name} ELSE {}) = moved
    BY <2>4
  <2>6. /\ clus' = after /\ size' = size - 1 /\ overread' = overread
        /\ reader' = [reader EXCEPT !.listed = @ \ {n}, !.due = @ \ ({n} \cup moved)]
    BY <1>2, <2>2, <2>5 DEF soDeleteDirEntry
  <2>7. Distinct(t, size) /\ Follows(reader, t, size) /\ size <= MaxFcn /\ overread \in BOOLEAN
        /\ t[p].name = n
    BY <2>2 DEF IInv
  <2>8. size - 1 <= MaxFcn
    BY <2>3, <2>7, DirEntriesAssumption
  <2> HIDE DEF t, after
  <2>9. Distinct(TableDeleted(t, size, p), size - 1)
    BY <2>2, <2>3, <2>7, DistinctDeleted
  <2>10. moved = IF p < reader.pos /\ p < size - 1 THEN {t[size - 1].name} ELSE {}
    OBVIOUS
  <2> HIDE DEF moved
  <2>11. reader' = [reader EXCEPT !.listed = @ \ {t[p].name}, !.due = @ \ ({t[p].name} \cup moved)]
    BY <2>6, <2>7
  <2>12. Follows(reader', TableDeleted(t, size, p), size - 1)
    BY <2>2, <2>3, <2>7, <2>10, <2>11, FollowsDeleted
  <2>13. QED
    BY <2>3, <2>6, <2>7, <2>8, <2>9, <2>12 DEF IInv
<1>3. QED
  BY <1>1, <1>2 DEF soDeleteDirEntry, Fails

\* A rename changes one name to one that was in no place.
LEMMA RenameIInv ==
  ASSUME IInv, NEW n \in Name, NEW new \in Name, soRenameDirEntry(n, new)
  PROVE  IInv'
<1>1. CASE Overreads(new) /\ Astray
  BY <1>1, SameIInv DEF Astray
<1>2. CASE UNCHANGED <<clus, size, reader>> /\ UNCHANGED overread
  BY <1>2, SameIInv DEF IInv
<1>3. CASE /\ n # new /\ Places(n) # {} /\ Lookup(new) = NULL_REFERENCE
           /\ LET p == Min(Places(n)) IN clus' = Put(clus, p, Entry(new, At(p).in))
           /\ reader' = [reader EXCEPT !.listed = @ \ {n}, !.due = @ \ {n}]
           /\ UNCHANGED size /\ UNCHANGED overread
  <2>1. PICK p \in Places(n) : TRUE
    BY <1>3
  <2> DEFINE t == Table(clus, size)
  <2>2. p \in Used(size) /\ t[p].name = n /\ Min(Places(n)) = p /\ At(p) = t[p]
    BY <2>1, Present
  <2>3. \A q \in Used(size) : t[q].name # new
    BY <1>3, Present, Absent
  <2>4. Distinct(t, size) /\ Follows(reader, t, size) /\ PackedTo(clus, size)
        /\ size <= MaxFcn /\ overread \in BOOLEAN
    BY DEF IInv
  <2>5. PICK e : e = Entry(new, Table(clus, size)[p].in)
    OBVIOUS
  <2>6. clus' = Put(clus, p, e)
    BY <1>3, <2>2, <2>5
  <2>7. PackedTo(Put(clus, p, e), size)
        /\ Table(Put(clus, p, e), size) = TableRenamed(t, size, p, new)
    BY <2>2, <2>4, <2>5, RenameTable
  <2> HIDE DEF t
  <2>8. Distinct(TableRenamed(t, size, p, new), size)
    BY <2>2, <2>3, <2>4, DistinctRenamed
  <2>9. reader' = [reader EXCEPT !.listed = @ \ {t[p].name}, !.due = @ \ {t[p].name}]
    BY <1>3, <2>2
  <2>10. Follows(reader', TableRenamed(t, size, p, new), size)
    BY <2>2, <2>4, <2>9, FollowsRenamed
  <2>11. QED
    BY <1>3, <2>4, <2>6, <2>7, <2>8, <2>10 DEF IInv
<1>4. QED
  BY <1>1, <1>2, <1>3 DEF soRenameDirEntry, Fails

\* The entry at the position is listed and no longer due.
LEMMA ReaddirIInv == ASSUME IInv, soReaddir PROVE IInv'
<1> DEFINE t == Table(clus, size)
<1>1. /\ reader \in [pos : 0 .. MaxFcn, listed : SUBSET Name, due : SUBSET Name]
      /\ Distinct(t, size) /\ size \in Nat /\ size <= MaxFcn
      /\ \A n \in reader.listed : \E p \in Used(size) : p < reader.pos /\ t[p].name = n
      /\ \A n \in reader.due : \E p \in Used(size) : p >= reader.pos /\ t[p].name = n
  BY Seen DEF IInv, Follows
<1>2. PICK pos \in Nat : pos = reader.pos
  BY <1>1
<1>3. pos \in Used(size) /\ pos + 1 \in 0 .. MaxFcn
  BY <1>1, <1>2, DirEntriesAssumption DEF soReaddir, AtEnd, Used
<1>4. Here = t[pos].name /\ Here \in Name
  BY <1>1, <1>2, <1>3, Seen DEF Here, Distinct
<1>5. /\ reader' = [pos |-> pos + 1, listed |-> reader.listed \cup {Here},
                    due |-> reader.due \ {Here}]
      /\ UNCHANGED <<clus, size, overread>>
  BY <1>2 DEF soReaddir
<1>6. reader' \in [pos : 0 .. MaxFcn, listed : SUBSET Name, due : SUBSET Name]
  BY <1>1, <1>3, <1>4, <1>5
<1> HIDE DEF t
<1>7. ASSUME NEW n \in reader'.listed
      PROVE  \E p \in Used(size) : p < pos + 1 /\ t[p].name = n
  <2>1. CASE n = Here
    BY <1>3, <1>4, <2>1
  <2>2. CASE n # Here
    <3>1. PICK p \in Used(size) : p < pos /\ t[p].name = n
      BY <1>1, <1>2, <1>5, <1>7, <2>2
    <3>2. p < pos + 1
      BY <1>1, <3>1 DEF Used
    <3>3. QED
      BY <3>1, <3>2
  <2>3. QED
    BY <2>1, <2>2
<1>8. ASSUME NEW n \in reader'.due
      PROVE  \E p \in Used(size) : p >= pos + 1 /\ t[p].name = n
  <2>1. PICK p \in Used(size) : p >= pos /\ t[p].name = n /\ n # Here
    BY <1>1, <1>2, <1>5, <1>8
  <2>2. p # pos
    BY <1>4, <2>1
  <2>3. p >= pos + 1
    BY <1>1, <2>1, <2>2 DEF Used
  <2>4. QED
    BY <2>1, <2>3
<1>9. Follows(reader', t, size)
  BY <1>5, <1>6, <1>7, <1>8 DEF Follows
<1>10. QED
  BY <1>5, <1>9 DEF IInv, t

\* A new listing is due every name there is.
LEMMA RewindIInv == ASSUME IInv, Rewind PROVE IInv'
<1> DEFINE t == Table(clus, size)
<1>1. reader' = [pos |-> 0, listed |-> {}, due |-> Names]
      /\ UNCHANGED <<clus, size, overread>>
  BY DEF Rewind
<1>2. ASSUME NEW n \in Names PROVE n \in Name /\ \E p \in Used(size) : p >= 0 /\ t[p].name = n
  <2>1. PICK p \in Place : At(p).name = n /\ n # NoName
    BY <1>2 DEF Names
  <2>2. p \in Used(size) /\ p \in Nat /\ At(p) = t[p]
    BY <2>1, Seen
  <2>3. t[p].name \in Name
    BY <2>2 DEF IInv, Distinct
  <2>4. QED
    BY <2>1, <2>2, <2>3
<1> HIDE DEF t
<1>3. reader' \in [pos : 0 .. MaxFcn, listed : SUBSET Name, due : SUBSET Name]
  BY <1>1, <1>2, DirEntriesAssumption
<1>4. Follows(reader', t, size)
  BY <1>1, <1>2, <1>3 DEF Follows
<1>5. QED
  BY <1>1, <1>4 DEF IInv, t

\* Each step keeps the invariant.
LEMMA NextIInv == ASSUME IInv, [Next]_vars PROVE IInv'
<1>1. CASE UNCHANGED vars
  BY <1>1, SameIInv DEF vars, IInv
<1>2. CASE Denied
  BY <1>2, SameIInv DEF Denied, Fails, IInv
<1>3. ASSUME NEW n \in Name, soGetDirEntry(n) PROVE IInv'
  BY <1>3, SameIInv DEF soGetDirEntry, Astray, IInv
<1>4. ASSUME NEW n \in Name, soDeleteDirEntry(n) PROVE IInv'
  BY <1>4, DeleteIInv
<1>5. ASSUME NEW n \in Name, NEW in \in Inode, soAddDirEntry(n, in) PROVE IInv'
  BY <1>5, AddIInv
<1>6. ASSUME NEW n \in Name, NEW new \in Name, soRenameDirEntry(n, new) PROVE IInv'
  BY <1>6, RenameIInv
<1>7. CASE soReaddir
  BY <1>7, ReaddirIInv
<1>8. CASE Rewind
  BY <1>8, RewindIInv
<1>9. QED
  BY <1>1, <1>2, <1>3, <1>4, <1>5, <1>6, <1>7, <1>8 DEF Next, Call

\* The clusters are packed, the names are distinct and the listing follows.
THEOREM Invariance == Spec => []IInv
<1>1. Init => IInv
  BY InitIInv
<1>2. IInv /\ [Next]_vars => IInv'
  BY NextIInv
<1>3. QED
  BY <1>1, <1>2, PTL DEF Spec
-----------------------------------------------------------------------------
(* What the runs check *)

\* The table's types are those of its clusters.
LEMMA IInvTypeOK == IInv => TypeOK
<1> SUFFICES ASSUME IInv PROVE TypeOK
  OBVIOUS
<1>1. clus \in Seq(Row) /\ size \in Nat /\ size <= MaxFcn /\ overread \in BOOLEAN
  BY DEF IInv, PackedTo
<1>2. \A c \in DOMAIN clus : clus[c] \in Row
  BY <1>1, LenProperties
<1>3. size \in 0 .. MaxFcn
  BY <1>1, DirEntriesAssumption
<1>4. reader \in [pos : 0 .. MaxFcn, listed : SUBSET Name, due : SUBSET Name]
  BY DEF IInv, Follows
<1>5. QED
  BY <1>1, <1>2, <1>3, <1>4 DEF TypeOK, Row, Cell

\* soAddDirEntry, which goes by the size, and soDeleteDirEntry, which goes by
\* empty names, mean the same place by the last, and no cluster is kept
\* without an entry (Packed).
THEOREM StaysPacked == Spec => []Packed
<1>1. IInv => Packed
  <2> SUFFICES ASSUME IInv PROVE Packed
    OBVIOUS
  <2>1. Len(clus) = Clusters
    BY DEF IInv, PackedTo, Clusters, Needs
  <2>2. \A p \in Place : At(p).name # NoName <=> p < size
    BY DEF IInv, PackedTo, Place, Places0, At, Read
  <2>3. QED
    BY <2>1, <2>2, IInvTypeOK DEF Packed
<1>2. QED
  BY <1>1, Invariance, PTL

\* No two entries ever have one name (NamesOnce): soGetDirEntry, by which
\* soAddDirEntry and soRenameDirEntry decide, looks at every place in use.
THEOREM NoNameTwice == Spec => []NamesOnce
<1>1. IInv => NamesOnce
  <2> SUFFICES ASSUME IInv, NEW p \in Place, NEW q \in Place,
                      At(p).name = At(q).name, p # q, At(p).name # NoName
               PROVE  FALSE
    BY DEF NamesOnce
  <2>1. p \in Used(size) /\ q \in Used(size)
    BY Seen
  <2>2. Table(clus, size)[p].name = Table(clus, size)[q].name
    BY <2>1, Seen
  <2>3. QED
    BY <2>1, <2>2 DEF IInv, Distinct
<1>2. QED
  BY <1>1, Invariance, PTL

\* A listing that has come to the end has missed no name that was there all
\* the time, unless a delete has moved it over what was listed (ListsAll).
THEOREM NothingMissed == Spec => []ListsAll
<1>1. IInv => ListsAll
  <2> SUFFICES ASSUME IInv, AtEnd, NEW n \in reader.due PROVE FALSE
    BY DEF ListsAll
  <2>1. PICK p \in Used(size) : p >= reader.pos
    BY DEF IInv, Follows
  <2>2. reader.pos \in Int /\ size \in Nat
    BY Seen DEF IInv, Follows
  <2>3. QED
    BY <2>1, <2>2 DEF AtEnd, Used
<1>2. QED
  BY <1>1, Invariance, PTL

\* A listing never answers an entry twice, whatever is added, renamed or
\* deleted between two of its calls (ListsOnce).
THEOREM NothingTwice == Spec => ListsOnce
<1>1. ASSUME IInv, soReaddir PROVE Here \notin reader.listed
  <2> DEFINE t == Table(clus, size)
  <2>1. reader.pos \in Used(size)
    BY <1>1, Seen DEF soReaddir, AtEnd, Used, IInv, Follows
  <2>2. Here = t[reader.pos].name
    BY <1>1, <2>1, Seen DEF Here
  <2>3. \A p \in Used(size) : p < reader.pos => t[p].name # t[reader.pos].name
    BY <1>1, <2>1 DEF IInv, Distinct, Used
  <2>4. ASSUME Here \in reader.listed PROVE FALSE
    <3>1. PICK p \in Used(size) : p < reader.pos /\ t[p].name = Here
      BY <1>1, <2>4 DEF IInv, Follows
    <3>2. QED
      BY <2>2, <2>3, <3>1
  <2>5. QED
    BY <2>4
<1>2. IInv /\ [Next]_vars => [soReaddir => Here \notin reader.listed]_vars
  BY <1>1
<1>3. QED
  BY <1>2, Invariance, PTL DEF Spec, ListsOnce

-----------------------------------------------------------------------------
(* The directory is a function from names to inodes *)

\* The function a table stands for, and the one the refinement reads.
IsFunctionOf(f, t, s) ==
  /\ f = [n \in DOMAIN f |-> f[n]]
  /\ DOMAIN f = {t[p].name : p \in Used(s)}
  /\ \A p \in Used(s) : f[t[p].name] = t[p].in

PlacesOf(cs, n) == {p \in Places0(Len(cs)) : Read(cs, p).name = n}
EntriesOf(cs) ==
  [n \in {Read(cs, p).name : p \in Places0(Len(cs))} \ {NoName} |->
     Read(cs, Min(PlacesOf(cs, n))).in]

\* A table stands for one function.
LEMMA OneFunction ==
  ASSUME NEW f, NEW g, NEW t, NEW s, IsFunctionOf(f, t, s), IsFunctionOf(g, t, s)
  PROVE  f = g
<1>1. DOMAIN f = DOMAIN g /\ DOMAIN f = {t[p].name : p \in Used(s)}
  BY DEF IsFunctionOf
<1>2. \A n \in DOMAIN f : f[n] = g[n]
  BY <1>1 DEF IsFunctionOf
<1>3. f = [n \in DOMAIN f |-> f[n]] /\ g = [n \in DOMAIN g |-> g[n]]
  BY DEF IsFunctionOf
<1>4. QED
  BY <1>1, <1>2, <1>3

\* The entries of packed clusters are the function of their table.
LEMMA EntriesOfTable ==
  ASSUME NEW cs, NEW s, PackedTo(cs, s), Distinct(Table(cs, s), s)
  PROVE  IsFunctionOf(EntriesOf(cs), Table(cs, s), s)
<1> DEFINE t == Table(cs, s)
<1>1. /\ cs \in Seq(Row) /\ s \in Nat
      /\ \A p \in Places0(Len(cs)) : Read(cs, p).name # NoName <=> p < s
  BY DEF PackedTo
<1>2. \A p \in Used(s) : /\ p \in Places0(Len(cs)) /\ p \in Nat
                         /\ Read(cs, p) = t[p] /\ t[p].name \in Name
  BY UsedPlace DEF Table
<1>3. ASSUME NEW p \in Places0(Len(cs)), Read(cs, p).name # NoName PROVE p \in Used(s)
  <2>1. p \in Nat /\ p < s
    BY <1>1, <1>3, ReadType
  <2>2. QED
    BY <1>1, <2>1 DEF Used
<1> HIDE DEF t
<1>4. {Read(cs, p).name : p \in Places0(Len(cs))} \ {NoName} = {t[p].name : p \in Used(s)}
  BY <1>2, <1>3, DirEntriesAssumption
<1>5. ASSUME NEW p \in Used(s) PROVE EntriesOf(cs)[t[p].name] = t[p].in
  <2>1. \A q \in PlacesOf(cs, t[p].name) : q \in Used(s) /\ t[q].name = t[p].name
    BY <1>2, <1>3, DirEntriesAssumption DEF PlacesOf
  <2>2. \A q \in Used(s) : t[q].name = t[p].name => q = p
    BY DEF Distinct, t
  <2>3. p \in PlacesOf(cs, t[p].name)
    BY <1>2 DEF PlacesOf
  <2>4. PlacesOf(cs, t[p].name) = {p}
    BY <2>1, <2>2, <2>3
  <2>5. Min(PlacesOf(cs, t[p].name)) = p
    BY <1>2, <2>4, MinIs
  <2>6. t[p].name \in {Read(cs, q).name : q \in Places0(Len(cs))} \ {NoName}
    BY <1>4
  <2>7. QED
    BY <1>2, <2>5, <2>6 DEF EntriesOf
<1>6. DOMAIN EntriesOf(cs) = {t[p].name : p \in Used(s)}
  BY <1>4 DEF EntriesOf
<1>7. EntriesOf(cs) = [n \in DOMAIN EntriesOf(cs) |-> EntriesOf(cs)[n]]
  BY DEF EntriesOf
<1>8. QED
  BY <1>5, <1>6, <1>7 DEF IsFunctionOf, t

\* An entry behind the last adds its name to the function,
LEMMA FunctionAdded ==
  ASSUME NEW s \in Nat, NEW t, Distinct(t, s), NEW f, IsFunctionOf(f, t, s),
         NEW n \in Name, NEW i, \A p \in Used(s) : t[p].name # n
  PROVE  IsFunctionOf([m \in DOMAIN f \cup {n} |-> IF m = n THEN i ELSE f[m]],
                      TableAdded(t, s, Entry(n, i)), s + 1)
<1> DEFINE u == TableAdded(t, s, Entry(n, i))
           g == [m \in DOMAIN f \cup {n} |-> IF m = n THEN i ELSE f[m]]
<1>1. Used(s + 1) = Used(s) \cup {s} /\ s \notin Used(s)
  BY DEF Used
<1>2. u[s].name = n /\ u[s].in = i /\ \A p \in Used(s) : u[p] = t[p]
  BY <1>1 DEF TableAdded, Entry
<1> HIDE DEF u
<1>3. {u[p].name : p \in Used(s + 1)} = DOMAIN f \cup {n}
  BY <1>1, <1>2 DEF IsFunctionOf
<1>4. ASSUME NEW p \in Used(s + 1) PROVE g[u[p].name] = u[p].in
  <2>1. u[p].name \in DOMAIN f \cup {n}
    BY <1>3
  <2>2. CASE p = s
    BY <1>2, <2>1, <2>2
  <2>3. CASE p # s
    BY <1>1, <1>2, <2>1, <2>3 DEF IsFunctionOf
  <2>4. QED
    BY <2>2, <2>3
<1>5. DOMAIN g = DOMAIN f \cup {n} /\ g = [m \in DOMAIN g |-> g[m]]
  OBVIOUS
<1> HIDE DEF g
<1>6. IsFunctionOf(g, u, s + 1)
  BY <1>3, <1>4, <1>5 DEF IsFunctionOf
<1>7. QED
  BY <1>6 DEF g, u

\* a delete takes one name away,
LEMMA FunctionDeleted ==
  ASSUME NEW s \in Nat \ {0}, NEW t, Distinct(t, s), NEW f, IsFunctionOf(f, t, s),
         NEW p \in Used(s)
  PROVE  IsFunctionOf(Restrict(f, DOMAIN f \ {t[p].name}), TableDeleted(t, s, p), s - 1)
<1> DEFINE u == TableDeleted(t, s, p)
           g == Restrict(f, DOMAIN f \ {t[p].name})
<1>1. s - 1 \in Used(s) /\ Used(s - 1) = Used(s) \ {s - 1}
  BY DEF Used
<1>2. \A q \in Used(s - 1) : u[q] = IF q = p THEN t[s - 1] ELSE t[q]
  BY DEF TableDeleted
<1> HIDE DEF u
<1>3. \A q \in Used(s) : t[q].name = t[p].name => q = p
  BY DEF Distinct
<1>4. ASSUME NEW q \in Used(s - 1)
      PROVE  u[q].name \in DOMAIN f \ {t[p].name} /\ f[u[q].name] = u[q].in
  BY <1>1, <1>2, <1>3 DEF IsFunctionOf
<1>5. ASSUME NEW n \in DOMAIN f \ {t[p].name}
      PROVE  \E q \in Used(s - 1) : u[q].name = n
  <2>1. PICK r \in Used(s) : t[r].name = n
    BY DEF IsFunctionOf
  <2>2. r # p
    BY <2>1
  <2>3. CASE r = s - 1
    BY <1>1, <1>2, <2>1, <2>2, <2>3
  <2>4. CASE r # s - 1
    BY <1>1, <1>2, <2>1, <2>2, <2>4
  <2>5. QED
    BY <2>3, <2>4
<1>6. DOMAIN g = DOMAIN f \ {t[p].name} /\ g = [m \in DOMAIN g |-> g[m]]
      /\ \A n \in DOMAIN g : g[n] = f[n]
  BY DEF Restrict
<1> HIDE DEF g
<1>7. DOMAIN g = {u[q].name : q \in Used(s - 1)}
  BY <1>4, <1>5, <1>6
<1>8. IsFunctionOf(g, u, s - 1)
  BY <1>4, <1>6, <1>7 DEF IsFunctionOf
<1>9. QED
  BY <1>8 DEF g, u

\* and a rename gives its inode to another.
LEMMA FunctionRenamed ==
  ASSUME NEW s, NEW t, Distinct(t, s), NEW f, IsFunctionOf(f, t, s),
         NEW p \in Used(s), NEW n \in Name, \A q \in Used(s) : t[q].name # n
  PROVE  IsFunctionOf([m \in (DOMAIN f \ {t[p].name}) \cup {n} |->
                         IF m = n THEN f[t[p].name] ELSE f[m]],
                      TableRenamed(t, s, p, n), s)
<1> DEFINE u == TableRenamed(t, s, p, n)
           D == (DOMAIN f \ {t[p].name}) \cup {n}
           g == [m \in D |-> IF m = n THEN f[t[p].name] ELSE f[m]]
<1>1. u[p].name = n /\ u[p].in = t[p].in /\ \A q \in Used(s) \ {p} : u[q] = t[q]
  BY DEF TableRenamed, Entry
<1> HIDE DEF u
<1>2. \A q \in Used(s) : t[q].name = t[p].name => q = p
  BY DEF Distinct
<1>3. {u[q].name : q \in Used(s)} = D
  <2>1. ASSUME NEW q \in Used(s) PROVE u[q].name \in D
    BY <1>1, <1>2 DEF IsFunctionOf
  <2>2. ASSUME NEW m \in D PROVE \E q \in Used(s) : u[q].name = m
    <3>1. CASE m = n
      BY <1>1, <3>1
    <3>2. CASE m # n
      <4>1. PICK q \in Used(s) : t[q].name = m
        BY <3>2 DEF IsFunctionOf
      <4>2. QED
        BY <1>1, <3>2, <4>1
    <3>3. QED
      BY <3>1, <3>2
  <2>3. QED
    BY <2>1, <2>2
<1>4. ASSUME NEW q \in Used(s) PROVE g[u[q].name] = u[q].in
  <2>1. u[q].name \in D
    BY <1>3
  <2>2. CASE q = p
    BY <1>1, <2>1, <2>2 DEF IsFunctionOf
  <2>3. CASE q # p
    BY <1>1, <2>1, <2>3 DEF IsFunctionOf
  <2>4. QED
    BY <2>2, <2>3
<1>5. DOMAIN g = D /\ g = [m \in DOMAIN g |-> g[m]]
  OBVIOUS
<1> HIDE DEF g
<1>6. IsFunctionOf(g, u, s)
  BY <1>3, <1>4, <1>5 DEF IsFunctionOf
<1>7. QED
  BY <1>6 DEF g, u
\* The function the refinement reads, before and after a step.
LEMMA EntriesIs == Entries = EntriesOf(clus) /\ Entries' = EntriesOf(clus')
BY DEF Entries, EntriesOf, Names, Places, PlacesOf, Place, Places0, At, Read

\* It is that of the table, in which each name has its place.
LEMMA EntriesAt ==
  ASSUME IInv
  PROVE  /\ IsFunctionOf(Entries, Table(clus, size), size)
         /\ \A n \in Name : n \in DOMAIN Entries <=> Places(n) # {}
         /\ \A n \in Name : \A p \in Places(n) : Entries[n] = At(p).in
<1>1. PackedTo(clus, size) /\ Distinct(Table(clus, size), size)
  BY DEF IInv
<1>2. IsFunctionOf(Entries, Table(clus, size), size)
  BY <1>1, EntriesIs, EntriesOfTable
<1>3. ASSUME NEW n \in Name, Places(n) # {}
      PROVE  n \in DOMAIN Entries /\ \A p \in Places(n) : Entries[n] = At(p).in
  <2>1. ASSUME NEW p \in Places(n) PROVE n \in DOMAIN Entries /\ Entries[n] = At(p).in
    <3>1. /\ p \in Used(size) /\ Table(clus, size)[p].name = n
          /\ At(p) = Table(clus, size)[p]
      BY <2>1, Present
    <3>2. QED
      BY <1>2, <3>1 DEF IsFunctionOf
  <2>2. QED
    BY <1>3, <2>1
<1>4. ASSUME NEW n \in Name, Places(n) = {} PROVE n \notin DOMAIN Entries
  <2>1. \A p \in Used(size) : Table(clus, size)[p].name # n
    BY <1>4, Absent
  <2>2. QED
    BY <1>2, <2>1 DEF IsFunctionOf
<1>5. QED
  BY <1>2, <1>3, <1>4

\* And after a step, that of the table then.
LEMMA EntriesAfter ==
  ASSUME IInv', NEW f, IsFunctionOf(f, Table(clus', size'), size')
  PROVE  Entries' = f
<1>1. PackedTo(clus', size') /\ Distinct(Table(clus', size'), size')
  BY DEF IInv
<1>2. IsFunctionOf(EntriesOf(clus'), Table(clus', size'), size')
  BY <1>1, EntriesOfTable
<1>3. EntriesOf(clus') = f
  BY <1>2, OneFunction
<1>4. QED
  BY <1>3, EntriesIs

\* An empty directory is a function of no names.
LEMMA InitRefines == Init => Abstract!Init
<1> SUFFICES ASSUME Init PROVE Abstract!Init
  OBVIOUS
<1>1. Names = {}
  <2>1. Place = {}
    BY DirEntriesAssumption DEF Init, Place
  <2>2. QED
    BY <2>1 DEF Names
<1>2. Entries = [n \in {} |-> At(Min(Places(n))).in]
  BY <1>1 DEF Entries
<1>3. Entries = <<>>
  BY <1>2
<1>4. QED
  BY <1>3 DEF Init, Abstract!Init, Abstract!Answer

\* A step that leaves the clusters alone leaves the function alone.
LEMMA SameEntries == UNCHANGED clus => UNCHANGED Entries
BY EntriesIs

\* A call that fails is the directory's failing so.
LEMMA FailsSame ==
  ASSUME NEW call, NEW err, NEW errs, err \in errs, Fails(call, err)
  PROVE  Abstract!Fails(call, errs)
BY SameEntries DEF Fails, Answer, Abstract!Fails, Abstract!Answer

\* soGetDirEntry answers what the function says.
LEMMA GetRefines ==
  ASSUME IInv, NEW n \in Name, soGetDirEntry(n)
  PROVE  Abstract!Get(n) \/ UNCHANGED Abstract!vars
<1>1. CASE Astray
  BY <1>1, SameEntries DEF Astray, Abstract!vars
<1>2. CASE Answer("get", Lookup(n), "OK") /\ UNCHANGED <<clus, size, overread, reader>>
  <2>1. UNCHANGED Entries
    BY <1>2, SameEntries
  <2>2. Lookup(n) = IF n \in DOMAIN Entries THEN Entries[n] ELSE NULL_REFERENCE
    <3>1. CASE Places(n) = {}
      BY <3>1, EntriesAt, Absent
    <3>2. CASE Places(n) # {}
      <4>1. PICK p \in Places(n) : TRUE
        BY <3>2
      <4>2. Lookup(n) = At(p).in
        BY <4>1, Present
      <4>3. n \in DOMAIN Entries /\ Entries[n] = At(p).in
        BY <4>1, EntriesAt
      <4>4. QED
        BY <4>2, <4>3
    <3>3. QED
      BY <3>1, <3>2
  <2>3. ret' = [call |-> "get", in |-> IF n \in DOMAIN Entries THEN Entries[n] ELSE NULL_REFERENCE,
                err |-> "OK"]
    BY <1>2, <2>2 DEF Answer
  <2>4. QED
    BY <2>1, <2>3 DEF Abstract!Get, Abstract!Answer
<1>3. QED
  BY <1>1, <1>2 DEF soGetDirEntry

\* soAddDirEntry adds a name that is not there, if it has room for it.
LEMMA AddRefines ==
  ASSUME IInv, IInv', NEW n \in Name, NEW in \in Inode, soAddDirEntry(n, in)
  PROVE  Abstract!Add(n, in) \/ Abstract!Refused \/ UNCHANGED Abstract!vars
<1>1. CASE Astray
  BY <1>1, SameEntries DEF Astray, Abstract!vars
<1>2. CASE Lookup(n) # NULL_REFERENCE /\ Fails("add", "EEXIST")
  <2>1. n \in DOMAIN Entries
    BY <1>2, Absent, EntriesAt
  <2>2. Abstract!Fails("add", {"EEXIST"})
    BY <1>2, FailsSame
  <2>3. QED
    BY <2>1, <2>2 DEF Abstract!Add
<1>3. CASE Fails("add", "ENOMEM") \/ Fails("add", "ENOSPC")
  <2>1. Abstract!Fails("add", {"ENOSPC", "ENOMEM"})
    BY <1>3, FailsSame
  <2>2. QED
    BY <2>1 DEF Abstract!Refused
<1>4. CASE /\ Lookup(n) = NULL_REFERENCE /\ ~ Full
           /\ IF size \div DPC < Len(clus) THEN Store(n, in) ELSE StoreInNew(n, in)
           /\ size' = size + 1
           /\ Answer("add", NULL_REFERENCE, "OK")
  <2> DEFINE t == Table(clus, size)
  <2>1. \A p \in Used(size) : t[p].name # n
    BY <1>4, Present, Absent
  <2>2. n \notin DOMAIN Entries
    BY <1>4, Present, EntriesAt
  <2>3. size \in Nat /\ PackedTo(clus, size) /\ Distinct(t, size)
    BY Seen DEF IInv
  <2>4. IsFunctionOf(Entries, t, size)
    BY EntriesAt
  <2>5. Entry(n, in) \in Cell /\ Entry(n, in).name # NoName
    BY DirEntriesAssumption DEF Entry, Cell
  <2>6. clus' = Added(clus, size, Entry(n, in))
    BY <1>4, StoreIs
  <2>7. Table(clus', size') = TableAdded(t, size, Entry(n, in))
    BY <1>4, <2>3, <2>5, <2>6, AddTable
  <2> HIDE DEF t
  <2> DEFINE f == [m \in DOMAIN Entries \cup {n} |-> IF m = n THEN in ELSE Entries[m]]
  <2>8. IsFunctionOf(f, TableAdded(t, size, Entry(n, in)), size + 1)
    BY <2>1, <2>3, <2>4, FunctionAdded
  <2> HIDE DEF f
  <2>9. Entries' = f
    BY <1>4, <2>7, <2>8, EntriesAfter
  <2>10. ret' = [call |-> "add", in |-> NULL_REFERENCE, err |-> "OK"]
    BY <1>4 DEF Answer
  <2>11. QED
    BY <2>2, <2>9, <2>10 DEF f, Abstract!Add, Abstract!Answer
<1>5. QED
  BY <1>1, <1>2, <1>3, <1>4 DEF soAddDirEntry

\* soDeleteDirEntry takes the name away and answers its inode.
LEMMA DeleteRefines ==
  ASSUME IInv, IInv', NEW n \in Name, soDeleteDirEntry(n)
  PROVE  Abstract!Delete(n)
<1>1. CASE Places(n) = {}
  <2>1. n \notin DOMAIN Entries
    BY <1>1, EntriesAt
  <2>2. Fails("delete", "ENOENT")
    BY <1>1 DEF soDeleteDirEntry
  <2>3. Abstract!Fails("delete", {"ENOENT"})
    BY <2>2, FailsSame
  <2>4. QED
    BY <2>1, <2>3 DEF Abstract!Delete
<1>2. CASE Places(n) # {}
  <2>1. PICK p \in Places(n) : TRUE
    BY <1>2
  <2> DEFINE t == Table(clus, size)
  <2>2. p \in Used(size) /\ t[p].name = n /\ Min(Places(n)) = p
    BY <2>1, Present
  <2>3. n \in DOMAIN Entries /\ Entries[n] = At(p).in
    BY <2>1, EntriesAt
  <2>4. clus' = AfterDelete(p) /\ size' = size - 1 /\ Answer("delete", At(p).in, "OK")
    BY <1>2, <2>2 DEF soDeleteDirEntry
  <2>5. PackedTo(clus, size) /\ Distinct(t, size) /\ IsFunctionOf(Entries, t, size)
    BY EntriesAt DEF IInv
  <2>6. size \in Nat \ {0} /\ Table(clus', size') = TableDeleted(t, size, p)
    BY <2>2, <2>4, <2>5, DeleteTable
  <2> HIDE DEF t
  <2> DEFINE f == Restrict(Entries, DOMAIN Entries \ {t[p].name})
  <2>7. IsFunctionOf(f, TableDeleted(t, size, p), size - 1)
    BY <2>2, <2>5, <2>6, FunctionDeleted
  <2> HIDE DEF f
  <2>8. Entries' = f
    BY <2>4, <2>6, <2>7, EntriesAfter
  <2>9. Entries' = Restrict(Entries, DOMAIN Entries \ {n})
    BY <2>2, <2>8 DEF f
  <2>10. ret' = [call |-> "delete", in |-> Entries[n], err |-> "OK"]
    BY <2>3, <2>4 DEF Answer
  <2>11. QED
    BY <2>3, <2>9, <2>10 DEF Abstract!Delete, Abstract!Without, Abstract!Answer, Abstract!Restrict, Restrict
<1>3. QED
  BY <1>1, <1>2

\* soRenameDirEntry gives the inode of one name to another.
LEMMA RenameRefines ==
  ASSUME IInv, IInv', NEW n \in Name, NEW new \in Name, soRenameDirEntry(n, new)
  PROVE  Abstract!Rename(n, new) \/ UNCHANGED Abstract!vars
<1>1. CASE Astray
  BY <1>1, SameEntries DEF Astray, Abstract!vars
<1>2. CASE n = new /\ Fails("rename", "OK")
  BY <1>2, SameEntries DEF Fails, Answer, Abstract!Rename, Abstract!Answer
<1>3. CASE /\ n # new /\ Places(n) = {}
           /\ Fails("rename", IF RenameReads - 1 > MaxFcn THEN "EINVAL" ELSE "ENOENT")
  <2>1. n \notin DOMAIN Entries
    BY <1>3, EntriesAt
  <2>2. Abstract!Fails("rename", {"ENOENT", "EINVAL"})
    BY <1>3, FailsSame
  <2>3. QED
    BY <1>3, <2>1, <2>2 DEF Abstract!Rename
<1>4. CASE /\ n # new /\ Places(n) # {} /\ Lookup(new) # NULL_REFERENCE
           /\ Fails("rename", "EEXIST")
  <2>1. n \in DOMAIN Entries /\ new \in DOMAIN Entries
    BY <1>4, Absent, EntriesAt
  <2>2. Abstract!Fails("rename", {"EEXIST"})
    BY <1>4, FailsSame
  <2>3. QED
    BY <1>4, <2>1, <2>2 DEF Abstract!Rename
<1>5. CASE /\ n # new /\ Places(n) # {} /\ Lookup(new) = NULL_REFERENCE
           /\ LET p == Min(Places(n)) IN clus' = Put(clus, p, Entry(new, At(p).in))
           /\ Answer("rename", NULL_REFERENCE, "OK")
           /\ UNCHANGED size
  <2>1. PICK p \in Places(n) : TRUE
    BY <1>5
  <2> DEFINE t == Table(clus, size)
  <2>2. p \in Used(size) /\ t[p].name = n /\ Min(Places(n)) = p /\ At(p) = t[p]
    BY <2>1, Present
  <2>3. \A q \in Used(size) : t[q].name # new
    BY <1>5, Present, Absent
  <2>4. n \in DOMAIN Entries /\ new \notin DOMAIN Entries
    BY <1>5, Present, EntriesAt
  <2>5. PackedTo(clus, size) /\ Distinct(t, size) /\ IsFunctionOf(Entries, t, size)
    BY EntriesAt DEF IInv
  <2>6. PICK e : e = Entry(new, Table(clus, size)[p].in)
    OBVIOUS
  <2>7. clus' = Put(clus, p, e) /\ size' = size
    BY <1>5, <2>2, <2>6
  <2>8. Table(clus', size') = TableRenamed(t, size, p, new)
    BY <2>2, <2>5, <2>6, <2>7, RenameTable
  <2> HIDE DEF t
  <2> DEFINE f == [m \in (DOMAIN Entries \ {t[p].name}) \cup {new} |->
                     IF m = new THEN Entries[t[p].name] ELSE Entries[m]]
  <2>9. IsFunctionOf(f, TableRenamed(t, size, p, new), size)
    BY <2>2, <2>3, <2>5, FunctionRenamed
  <2> HIDE DEF f
  <2>10. Entries' = f
    BY <2>7, <2>8, <2>9, EntriesAfter
  <2>11. Entries' = [m \in (DOMAIN Entries \ {n}) \cup {new} |->
                       IF m = new THEN Entries[n] ELSE Entries[m]]
    BY <2>2, <2>10 DEF f
  <2>12. ret' = [call |-> "rename", in |-> NULL_REFERENCE, err |-> "OK"]
    BY <1>5 DEF Answer
  <2>13. QED
    BY <1>5, <2>4, <2>11, <2>12 DEF Abstract!Rename, Abstract!Answer
<1>6. QED
  BY <1>1, <1>2, <1>3, <1>4, <1>5 DEF soRenameDirEntry

\* Each step is one of the directory's, or none.
LEMMA NextRefines ==
  ASSUME IInv, IInv', [Next]_vars
  PROVE  Abstract!Next \/ UNCHANGED Abstract!vars
<1>1. CASE UNCHANGED vars
  BY <1>1, SameEntries DEF vars, Abstract!vars
<1>2. CASE Denied
  BY <1>2, FailsSame DEF Denied, Abstract!Next, Abstract!Refused
<1>3. ASSUME NEW n \in Name, soGetDirEntry(n)
      PROVE  Abstract!Next \/ UNCHANGED Abstract!vars
  BY <1>3, GetRefines DEF Abstract!Next
<1>4. ASSUME NEW n \in Name, soDeleteDirEntry(n)
      PROVE  Abstract!Next \/ UNCHANGED Abstract!vars
  BY <1>4, DeleteRefines DEF Abstract!Next
<1>5. ASSUME NEW n \in Name, NEW in \in Inode, soAddDirEntry(n, in)
      PROVE  Abstract!Next \/ UNCHANGED Abstract!vars
  BY <1>5, AddRefines DEF Abstract!Next
<1>6. ASSUME NEW n \in Name, NEW new \in Name, soRenameDirEntry(n, new)
      PROVE  Abstract!Next \/ UNCHANGED Abstract!vars
  BY <1>6, RenameRefines DEF Abstract!Next
<1>7. CASE soReaddir \/ Rewind
  BY <1>7, SameEntries DEF soReaddir, Rewind, Abstract!vars
<1>8. QED
  BY <1>1, <1>2, <1>3, <1>4, <1>5, <1>6, <1>7 DEF Next, Call

\* The array of entries implements a partial function from names to inodes:
\* whatever the order of calls, each answers and changes what the function
\* would, or fails and changes nothing (DirectorySpec).
THEOREM ImplementsDirectory == Spec => DirectorySpec
<1>1. Init => Abstract!Init
  BY InitRefines
<1>2. IInv /\ IInv' /\ [Next]_vars => [Abstract!Next]_(Abstract!vars)
  BY NextRefines
<1>3. QED
  BY <1>1, <1>2, Invariance, PTL DEF Spec, DirectorySpec, Abstract!Spec
=============================================================================
