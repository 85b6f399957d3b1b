--------------------------- MODULE FileDataProofs ---------------------------
(***************************************************************************)
(* Theorems about the bytes of a file, for every size of a cluster, number  *)
(* of clusters and width of a word.                                          *)
(***************************************************************************)
EXTENDS FileData, FiniteSetTheorems, TLAPS

-----------------------------------------------------------------------------
(* Clusters and offsets *)

\* The largest file has clusters, and of the rest of the assumption what the proofs
\* need.
LEMMA Sizes ==
  /\ BPC \in Nat \ {0} /\ Word \in Nat
  /\ MaxClusters \in Nat \ {0} /\ 2 * BPC * MaxClusters < Word
  /\ \A w \in Asked : w[1] \in Nat /\ w[2] \in Nat \ {0}
  /\ Lengths \subseteq 0 .. BPC * MaxClusters
  /\ Zero # Junk
  /\ \A v \in Tag, p \in 0 .. BPC * MaxClusters - 1 : <<v, p>> \notin {Zero, Junk}
<1>1. N_DIRECT \in Nat \ {0} /\ N_INDIRECT * RPC \in Nat /\ RPC * RPC \in Nat
  BY FileDataAssumption
<1>2. MaxClusters \in Nat \ {0}
  BY <1>1 DEF MaxClusters, FirstDouble
<1>3. QED
  BY <1>2, FileDataAssumption

\* What is behind i2 begins at a file cluster.
LEMMA DirectType == N_DIRECT \in Nat /\ FirstDouble \in Nat
<1>1. N_DIRECT \in Nat /\ N_INDIRECT * RPC \in Nat
  BY FileDataAssumption
<1>2. QED
  BY <1>1 DEF FirstDouble

\* A position is a cluster and an offset in it.
LEMMA DivMod ==
  ASSUME NEW p \in Nat
  PROVE  /\ p \div BPC \in Nat /\ p % BPC \in Offset
         /\ p = (p \div BPC) * BPC + (p % BPC)
  BY Sizes DEF Offset

\* And the only one.
LEMMA DivModUnique ==
  ASSUME NEW i \in Nat, NEW x \in Offset
  PROVE  /\ i * BPC + x \in Nat
         /\ (i * BPC + x) \div BPC = i
         /\ (i * BPC + x) % BPC = x
  BY Sizes DEF Offset

\* Clusters follow one another.
LEMMA Later ==
  ASSUME NEW i \in Nat, NEW j \in Nat, i < j
  PROVE  i * BPC + BPC <= j * BPC /\ i * BPC \in Nat /\ j * BPC \in Nat
<1>1. PICK k \in Nat : j = i + 1 + k
  BY j - i - 1 \in Nat
<1>2. /\ j * BPC = i * BPC + BPC + k * BPC
      /\ k * BPC \in Nat /\ i * BPC \in Nat /\ j * BPC \in Nat
  BY <1>1, Sizes
<1>3. QED
  BY <1>2, Sizes

\* A later position is in no earlier cluster, and in the same one at a later offset.
LEMMA DivMonotone ==
  ASSUME NEW a \in Nat, NEW b \in Nat, a <= b
  PROVE  /\ a \div BPC <= b \div BPC
         /\ a \div BPC = b \div BPC => a % BPC <= b % BPC
<1>1. /\ a \div BPC \in Nat /\ b \div BPC \in Nat
      /\ a = (a \div BPC) * BPC + (a % BPC) /\ a % BPC \in Offset
      /\ b = (b \div BPC) * BPC + (b % BPC) /\ b % BPC \in Offset
  BY DivMod
<1>2. ASSUME b \div BPC < a \div BPC PROVE FALSE
  <2>1. (b \div BPC) * BPC + BPC <= (a \div BPC) * BPC
    BY <1>1, <1>2, Later
  <2>2. QED
    BY <1>1, <2>1, Sizes DEF Offset
<1>3. (a \div BPC) * BPC \in Nat
  BY <1>1, Sizes
<1>4. QED
  BY <1>1, <1>2, <1>3 DEF Offset

\* The largest file is not empty and a word can count it twice.
LEMMA MaxType == soGetMaxFileSize \in Nat \ {0} /\ 2 * soGetMaxFileSize < Word
  BY Sizes DEF soGetMaxFileSize

\* The positions of the largest file are those of its clusters.
LEMMA InFile ==
  ASSUME NEW p \in Nat
  PROVE  p \in Position <=> p \div BPC \in FileCluster
<1>1. /\ p \div BPC \in Nat /\ p % BPC \in Offset
      /\ p = (p \div BPC) * BPC + (p % BPC)
  BY DivMod
<1>2. CASE p \div BPC < MaxClusters
  <2>1. (p \div BPC) * BPC + BPC <= MaxClusters * BPC
    BY <1>1, <1>2, Later, Sizes
  <2>2. (p \div BPC) * BPC + (p % BPC) < MaxClusters * BPC
    BY <1>1, <2>1, Sizes DEF Offset
  <2>3. QED
    BY <1>1, <1>2, <2>2, Sizes DEF Position, FileCluster, soGetMaxFileSize
<1>3. CASE p \div BPC >= MaxClusters
  <2>1. (p \div BPC) * BPC >= MaxClusters * BPC
    <3>1. CASE p \div BPC = MaxClusters
      BY <3>1, Sizes
    <3>2. CASE MaxClusters < p \div BPC
      BY <1>1, <3>2, Later, Sizes
    <3>3. QED
      BY <1>1, <1>3, <3>1, <3>2, Sizes
  <2>2. QED
    BY <1>1, <1>3, <2>1, Sizes DEF Position, FileCluster, soGetMaxFileSize, Offset
<1>4. QED
  BY <1>1, <1>2, <1>3, Sizes

\* A word that is not too far below 0 wraps once.
LEMMA WordBelow ==
  ASSUME NEW d \in Int, -Word <= d, d < 0
  PROVE  d % Word = d + Word
  BY Sizes

\* One that is not negative and not too large is itself.
LEMMA WordAbove ==
  ASSUME NEW d \in Int, 0 <= d, d < Word
  PROVE  d % Word = d
  BY Sizes

-----------------------------------------------------------------------------
(* The pieces of soWrite and soRead.  In cluster i each copies the offsets    *)
(* that belong to pos .. pos + count - 1, and each to or from its place in    *)
(* the buffer.                                                                *)

\* Where the first byte of cluster i that is copied stands.
LEMMA Place ==
  ASSUME NEW pos \in Nat, NEW i \in Nat, i >= pos \div BPC
  PROVE  /\ From(pos, i) \in Offset /\ At(pos, i) \in Nat
         /\ pos + At(pos, i) = i * BPC + From(pos, i)
<1>1. /\ pos \div BPC \in Nat /\ pos % BPC \in Offset
      /\ pos = (pos \div BPC) * BPC + (pos % BPC)
  BY DivMod
<1>2. CASE i = pos \div BPC
  BY <1>1, <1>2 DEF From, At, Offset
<1>3. CASE i > pos \div BPC
  <2>1. (pos \div BPC) * BPC + BPC <= i * BPC /\ i * BPC \in Nat
    BY <1>1, <1>3, Later
  <2>2. pos <= i * BPC
    BY <1>1, <2>1, Sizes DEF Offset
  <2>3. From(pos, i) = 0 /\ At(pos, i) = i * BPC - pos
    BY <1>1, <1>3 DEF From, At
  <2>4. QED
    BY <2>1, <2>2, <2>3, Sizes DEF Offset
<1>4. QED
  BY <1>1, <1>2, <1>3

\* The clusters that hold a byte of the span.
LEMMA SpanClusters ==
  ASSUME NEW pos \in Nat, NEW n \in Nat, NEW p \in Span(pos, n)
  PROVE  /\ p \in Nat
         /\ p \div BPC \in pos \div BPC .. (pos + n - 1) \div BPC
         /\ p \div BPC \in Writes(pos, n)
<1>1. p \in Nat /\ pos <= p /\ p <= pos + n - 1 /\ pos + n - 1 \in Nat
  BY DEF Span
<1>2. /\ pos \div BPC <= p \div BPC
      /\ p \div BPC <= (pos + n - 1) \div BPC
      /\ (pos + n - 1) \div BPC <= (pos + n) \div BPC
  BY <1>1, DivMonotone, pos + n \in Nat
<1>3. p \div BPC \in Nat /\ pos \div BPC \in Nat
  BY <1>1, DivMod
<1>4. (pos + n) \div BPC \in Nat /\ (pos + n - 1) \div BPC \in Nat
  BY <1>1, DivMod, pos + n \in Nat
<1>5. QED
  BY <1>1, <1>2, <1>3, <1>4 DEF Writes

\* soWrite copies in cluster i exactly the bytes asked for that belong there.
LEMMA WritePiece ==
  ASSUME NEW pos \in Nat, NEW count \in Nat \ {0},
         NEW i \in Writes(pos, count), NEW x \in Offset
  PROVE  /\ i \in Nat /\ i >= pos \div BPC
         /\ x \in Span(From(pos, i), WriteLength(pos, count, i))
              <=> i * BPC + x \in Span(pos, count)
<1>1. /\ pos \div BPC \in Nat /\ pos % BPC \in Offset
      /\ pos = (pos \div BPC) * BPC + (pos % BPC)
  BY DivMod
<1>2. DEFINE e == (pos + count) \div BPC
<1>3. /\ e \in Nat /\ (pos + count) % BPC \in Offset
      /\ pos + count = e * BPC + ((pos + count) % BPC)
  BY DivMod, pos + count \in Nat
<1>4. i \in Nat /\ i >= pos \div BPC /\ i <= e
  BY <1>1, <1>3 DEF Writes
<1>5. /\ From(pos, i) \in Offset /\ At(pos, i) \in Nat
      /\ pos + At(pos, i) = i * BPC + From(pos, i)
  BY <1>4, Place
<1>6. i * BPC \in Nat
  BY <1>4, Sizes
<1>7. CASE i = pos \div BPC
  <2>1. From(pos, i) = pos % BPC /\ i * BPC + From(pos, i) = pos
    BY <1>1, <1>7 DEF From
  <2>2. CASE count > BPC - (pos % BPC)
    <3>1. WriteLength(pos, count, i) = BPC - (pos % BPC)
      BY <1>7, <2>2 DEF WriteLength
    <3>2. QED
      BY <1>1, <1>4, <1>6, <2>1, <2>2, <3>1, Sizes DEF Span, Offset
  <2>3. CASE ~ count > BPC - (pos % BPC)
    <3>1. WriteLength(pos, count, i) = count
      BY <1>7, <2>3 DEF WriteLength
    <3>2. QED
      BY <1>1, <1>4, <1>6, <2>1, <2>3, <3>1, Sizes DEF Span, Offset
  <2>4. QED
    BY <2>2, <2>3
<1>8. CASE i > pos \div BPC /\ i = e
  <2>1. From(pos, i) = 0 /\ WriteLength(pos, count, i) = count - At(pos, i)
    BY <1>1, <1>8 DEF From, WriteLength
  <2>2. QED
    BY <1>3, <1>4, <1>5, <1>6, <1>8, <2>1, Sizes DEF Span, Offset
<1>9. CASE i > pos \div BPC /\ i < e
  <2>1. From(pos, i) = 0 /\ WriteLength(pos, count, i) = BPC
    BY <1>1, <1>3, <1>9 DEF From, WriteLength
  <2>2. i * BPC + BPC <= e * BPC
    BY <1>3, <1>4, <1>9, Later
  <2>3. QED
    BY <1>3, <1>4, <1>5, <1>6, <2>1, <2>2, Sizes DEF Span, Offset
<1>10. QED
  BY <1>1, <1>3, <1>4, <1>7, <1>8, <1>9

\* soRead copies from cluster i exactly the bytes asked for that are there.
LEMMA ReadPiece ==
  ASSUME NEW pos \in Nat, NEW n \in Nat \ {0},
         NEW i \in pos \div BPC .. (pos + n - 1) \div BPC, NEW x \in Int
  PROVE  /\ i \in Nat /\ i >= pos \div BPC
         /\ x \in Span(From(pos, i), ReadLength(pos, n, i))
              <=> x \in Offset /\ i * BPC + x \in Span(pos, n)
<1>1. /\ pos \div BPC \in Nat /\ pos % BPC \in Offset
      /\ pos = (pos \div BPC) * BPC + (pos % BPC)
  BY DivMod
<1>2. DEFINE e == (pos + n - 1) \div BPC
             r == (pos + n - 1) % BPC
<1>3. e \in Nat /\ r \in Offset /\ pos + n - 1 = e * BPC + r
  BY DivMod, pos + n - 1 \in Nat
<1>4. i \in Nat /\ i >= pos \div BPC /\ i <= e
  BY <1>1, <1>3
<1>5. i * BPC \in Nat
  BY <1>4, Sizes
<1>6. CASE i = pos \div BPC
  <2>1. From(pos, i) = pos % BPC /\ i * BPC + From(pos, i) = pos
    BY <1>1, <1>6 DEF From
  <2>2. CASE n <= BPC - (pos % BPC)
    <3>1. ReadLength(pos, n, i) = r - (pos % BPC) + 1
      BY <1>6, <2>2 DEF ReadLength
    <3>2. r = (pos % BPC) + n - 1
      <4>1. (pos % BPC) + n - 1 \in Offset
        BY <1>1, <2>2, Sizes DEF Offset
      <4>2. pos + n - 1 = (pos \div BPC) * BPC + ((pos % BPC) + n - 1)
        BY <1>1, Sizes DEF Offset
      <4>3. QED
        BY <1>1, <4>1, <4>2, DivModUnique
    <3>3. ReadLength(pos, n, i) = n
      BY <1>1, <3>1, <3>2, Sizes DEF Offset
    <3>4. QED
      BY <1>1, <1>4, <1>5, <2>1, <2>2, <3>3, Sizes DEF Span, Offset
  <2>3. CASE ~ n <= BPC - (pos % BPC)
    <3>1. ReadLength(pos, n, i) = BPC - (pos % BPC)
      BY <1>6, <2>3 DEF ReadLength
    <3>2. QED
      BY <1>1, <1>4, <1>5, <2>1, <2>3, <3>1, Sizes DEF Span, Offset
  <2>4. QED
    BY <2>2, <2>3
<1>7. CASE i > pos \div BPC
  <2>1. From(pos, i) = 0
    BY <1>1, <1>7 DEF From
  <2>2. (pos \div BPC) * BPC + BPC <= i * BPC
    BY <1>1, <1>4, <1>7, Later
  <2>3. pos <= i * BPC
    BY <1>1, <1>5, <2>2, Sizes DEF Offset
  <2>4. CASE i = e
    <3>1. ReadLength(pos, n, i) = r + 1
      BY <1>1, <1>7, <2>4 DEF ReadLength
    <3>2. QED
      BY <1>3, <1>4, <1>5, <2>1, <2>3, <2>4, <3>1, Sizes DEF Span, Offset
  <2>5. CASE i < e
    <3>1. ReadLength(pos, n, i) = BPC
      BY <1>1, <1>3, <1>7, <2>5 DEF ReadLength
    <3>2. i * BPC + BPC <= e * BPC
      BY <1>3, <1>4, <2>5, Later
    <3>3. QED
      BY <1>3, <1>4, <1>5, <2>1, <2>3, <3>1, <3>2, Sizes DEF Span, Offset
  <2>6. QED
    BY <1>3, <1>4, <2>4, <2>5
<1>8. QED
  BY <1>1, <1>4, <1>6, <1>7

-----------------------------------------------------------------------------
(* What soWrite leaves in the clusters it has got to.                         *)

\* A write that soWrite's first test lets through stays inside the largest file.
LEMMA SpanInFile ==
  ASSUME NEW pos \in Nat, NEW count \in Nat \ {0}, Fits(pos, count)
  PROVE  /\ Span(pos, count) \subseteq Position
         /\ Writes(pos, count) \subseteq FileCluster
<1>1. Span(pos, count) \subseteq Position
  BY MaxType DEF Span, Position, Fits
<1>2. pos + count \in Position /\ pos + count \in Nat
  BY MaxType DEF Position, Fits
<1>3. (pos + count) \div BPC \in FileCluster
  BY <1>2, InFile
<1>4. pos \div BPC \in Nat
  BY DivMod
<1>5. QED
  BY <1>1, <1>3, <1>4, Sizes DEF Writes, FileCluster

\* After a write a byte of a cluster is the caller's, or what it was, or, in a new
\* cluster, what the last owner left.
LEMMA StoredAt ==
  ASSUME NEW pos \in Nat, NEW count \in Nat \ {0}, NEW v \in Tag,
         NEW D \in SUBSET Writes(pos, count),
         NEW i \in DOMAIN clus \cup D, NEW x \in Offset
  PROVE  Stored(D, pos, count, v)[i][x] =
           IF i \in D /\ i * BPC + x \in Span(pos, count) THEN Byte(v, i * BPC + x)
           ELSE IF i \in DOMAIN clus THEN clus[i][x] ELSE Junk
<1>1. CASE i \notin D
  BY <1>1 DEF Stored
<1>2. CASE i \in D
  <2>1. i \in Writes(pos, count)
    BY <1>2
  <2>2. /\ i \in Nat /\ i >= pos \div BPC
        /\ x \in Span(From(pos, i), WriteLength(pos, count, i))
             <=> i * BPC + x \in Span(pos, count)
    BY <2>1, WritePiece
  <2>3. pos + At(pos, i) + x - From(pos, i) = i * BPC + x
    <3>1. /\ From(pos, i) \in Offset /\ At(pos, i) \in Nat
          /\ pos + At(pos, i) = i * BPC + From(pos, i)
      BY <2>2, Place
    <3>2. i * BPC \in Nat
      BY <2>2, Sizes
    <3>3. QED
      BY <3>1, <3>2, Sizes DEF Offset
  <2>4. Stored(D, pos, count, v)[i][x] = Merged(pos, count, v, i)[x]
    BY <1>2 DEF Stored
  <2>5. Merged(pos, count, v, i)[x] =
          IF i * BPC + x \in Span(pos, count) THEN Byte(v, i * BPC + x)
          ELSE IF i \in DOMAIN clus THEN clus[i][x] ELSE Junk
    BY <2>2, <2>3 DEF Merged
  <2>6. QED
    BY <1>2, <2>4, <2>5
<1>3. QED
  BY <1>1, <1>2

\* The same by position.
LEMMA StoredByte ==
  ASSUME NEW pos \in Nat, NEW count \in Nat \ {0}, NEW v \in Tag,
         NEW D \in SUBSET Writes(pos, count),
         NEW p \in Nat, p \div BPC \in DOMAIN clus \cup D
  PROVE  Stored(D, pos, count, v)[p \div BPC][p % BPC] =
           IF p \div BPC \in D /\ p \in Span(pos, count) THEN Byte(v, p)
           ELSE IF p \div BPC \in DOMAIN clus THEN clus[p \div BPC][p % BPC] ELSE Junk
<1>1. /\ p \div BPC \in Nat /\ p % BPC \in Offset
      /\ p = (p \div BPC) * BPC + (p % BPC)
  BY DivMod
<1>2. QED
  BY <1>1, StoredAt

\* The clusters a write leaves are clusters of the file, and full.
LEMMA StoredType ==
  ASSUME TypeOK, NEW pos \in Nat, NEW count \in Nat \ {0}, NEW v \in Tag, Fits(pos, count),
         NEW D \in SUBSET Writes(pos, count)
  PROVE  /\ DOMAIN Stored(D, pos, count, v) = DOMAIN clus \cup D
         /\ DOMAIN clus \cup D \subseteq FileCluster
         /\ \A i \in DOMAIN clus \cup D :
              /\ DOMAIN Stored(D, pos, count, v)[i] = Offset
              /\ \A x \in Offset : Stored(D, pos, count, v)[i][x] \in AnyByte
<1>1. DOMAIN Stored(D, pos, count, v) = DOMAIN clus \cup D
  BY DEF Stored
<1>2. DOMAIN clus \cup D \subseteq FileCluster
  BY SpanInFile DEF TypeOK
<1>3. ASSUME NEW i \in DOMAIN clus \cup D
      PROVE  DOMAIN Stored(D, pos, count, v)[i] = Offset
  BY <1>3 DEF Stored, Merged, TypeOK
<1>4. ASSUME NEW i \in DOMAIN clus \cup D, NEW x \in Offset
      PROVE  Stored(D, pos, count, v)[i][x] \in AnyByte
  <2>1. CASE i * BPC + x \in Span(pos, count)
    <3>1. i * BPC + x \in Position
      BY <2>1, SpanInFile
    <3>2. Byte(v, i * BPC + x) \in AnyByte
      BY <3>1 DEF AnyByte
    <3>3. QED
      BY <1>4, <3>2, StoredAt DEF TypeOK, AnyByte
  <2>2. CASE i * BPC + x \notin Span(pos, count)
    BY <1>4, <2>2, StoredAt DEF TypeOK, AnyByte
  <2>3. QED
    BY <2>1, <2>2
<1>5. QED
  BY <1>1, <1>2, <1>3, <1>4

-----------------------------------------------------------------------------
(* The invariant.  ReadsBack is about every read; what makes it inductive is  *)
(* that a byte the history knows is where soRead will look for it, and that a *)
(* size that looks negative to soTruncate has been noticed.                   *)

KnownStored ==
  ~ huge => \A p \in DOMAIN known :
              p \div BPC \in DOMAIN clus /\ clus[p \div BPC][p % BPC] = known[p]

SizeSmall == huge \/ size <= Word \div 2

Covered == Sound => Cardinality(Written) <= size

IInv == TypeOK /\ KnownStored /\ SizeSmall /\ Covered

\* Arithmetic of half a word.
LEMMA HalfWord ==
  /\ Word \in Nat /\ Word \div 2 \in Nat
  /\ soGetMaxFileSize <= Word \div 2 /\ 0 < Word \div 2
  /\ Word <= 2 * (Word \div 2) + 1 /\ 2 * (Word \div 2) <= Word
<1>1. Word \in Nat
  BY Sizes
<1>2. /\ Word \div 2 \in Nat
      /\ Word <= 2 * (Word \div 2) + 1 /\ 2 * (Word \div 2) <= Word
  BY <1>1
<1>3. QED
  BY <1>1, <1>2, MaxType

\* The written bytes can be counted.
LEMMA WrittenFinite ==
  ASSUME TypeOK
  PROVE  IsFiniteSet(Written) /\ Cardinality(Written) \in Nat
<1>1. IsFiniteSet(Position)
  BY FS_Interval, MaxType DEF Position
<1>2. Written \subseteq Position
  BY DEF Written, TypeOK
<1>3. QED
  BY <1>1, <1>2, FS_Subset, FS_CardinalityType

\* An empty file satisfies the invariant.
LEMMA InitIInv == Init => IInv
<1> SUFFICES ASSUME Init PROVE IInv
  OBVIOUS
<1>2. DOMAIN clus = {} /\ DOMAIN known = {}
  <2>1. clus = [i \in {} |-> [x \in Offset |-> Zero]]
    BY DEF Init
  <2>2. known = [p \in {} |-> Zero]
    BY DEF Init
  <2>3. QED
    BY <2>1, <2>2
<1>3. 0 < Word \div 2 /\ 0 \in 0 .. Word - 1
  BY HalfWord, MaxType
<1>4. Written = {}
  BY <1>2 DEF Written
<1>5. Cardinality(Written) = 0
  BY <1>4, FS_EmptySet
<1>6. size = 0 /\ huge \in BOOLEAN /\ blind = {} /\ undefined \in BOOLEAN
  BY DEF Init
<1>7. TypeOK
  BY <1>2, <1>3, <1>6 DEF TypeOK
<1>8. Covered /\ SizeSmall
  BY <1>3, <1>5, <1>6, HalfWord DEF Covered, SizeSmall
<1>9. KnownStored
  BY <1>2 DEF KnownStored
<1>10. QED
  BY <1>7, <1>8, <1>9 DEF IInv

\* A step that changes nothing keeps it.
LEMMA SameIInv == IInv /\ UNCHANGED vars => IInv'
  BY DEF IInv, TypeOK, KnownStored, SizeSmall, Covered, Sound, Written, vars, FileCluster, Offset, AnyByte, Position

\* What an allocation that throws makes blind are file clusters without a cluster.
LEMMA NoSpaceBlind ==
  ASSUME NEW k, NEW D, blind \subseteq FileCluster \ D, NoSpace(k, D)
  PROVE  blind' \subseteq FileCluster \ D
<1>1. CASE blind' = blind
  BY <1>1
<1>2. ASSUME NEW B \in Behind(k, D), blind' = blind \cup B
      PROVE  blind' \subseteq FileCluster \ D
  <2>1. Block(k) \subseteq FileCluster /\ Double \subseteq FileCluster
    BY DirectType, Sizes DEF Block, Double, FileCluster
  <2>2. B \subseteq FileCluster /\ B \cap D = {}
    BY <2>1 DEF Behind
  <2>3. QED
    BY <1>2, <2>2
<1>3. QED
  BY <1>1, <1>2 DEF NoSpace

\* A byte of a buffer is a byte, and neither of the two others.
LEMMA ByteType ==
  ASSUME NEW v \in Tag, NEW p \in Position
  PROVE  Byte(v, p) \in AnyByte /\ Byte(v, p) # Zero /\ Byte(v, p) # Junk
  BY Sizes DEF Byte, AnyByte, Position, soGetMaxFileSize

\* soWrite keeps it: the size grows by at least the bytes that are new.
LEMMA WriteIInv ==
  ASSUME IInv, NEW pos \in Nat, NEW count \in Nat \ {0}, NEW v \in Tag,
         Write(pos, count, v)
  PROVE  IInv'
<1> DEFINE D == Writes(pos, count)
<1>1. /\ Fits(pos, count)
      /\ clus' = Stored(D, pos, count, v)
      /\ size' = (size + count) % Word
      /\ huge' = (huge \/ size' >= Word \div 2)
      /\ known' = [p \in DOMAIN known \cup Span(pos, count) |->
                     IF p \in Span(pos, count) THEN Byte(v, p) ELSE known[p]]
      /\ blind' = blind /\ undefined' = undefined
  BY DEF Write
<1>2. Span(pos, count) \subseteq Position
  BY <1>1, SpanInFile
<1>3. /\ size \in 0 .. Word - 1 /\ Word \in Nat /\ DOMAIN known \subseteq Position
      /\ TypeOK
  BY HalfWord DEF IInv, TypeOK
<1>4. size' \in 0 .. Word - 1
  BY <1>1, <1>3
<1>5. /\ DOMAIN clus' = DOMAIN clus \cup D
      /\ DOMAIN clus' \subseteq FileCluster
      /\ \A i \in DOMAIN clus' : DOMAIN clus'[i] = Offset /\ \A x \in Offset : clus'[i][x] \in AnyByte
  <2>1. D \in SUBSET Writes(pos, count)
    OBVIOUS
  <2>2. /\ DOMAIN Stored(D, pos, count, v) = DOMAIN clus \cup D
        /\ DOMAIN clus \cup D \subseteq FileCluster
        /\ \A i \in DOMAIN clus \cup D :
             /\ DOMAIN Stored(D, pos, count, v)[i] = Offset
             /\ \A x \in Offset : Stored(D, pos, count, v)[i][x] \in AnyByte
    BY <1>1, <1>3, <2>1, StoredType
  <2>3. QED
    BY <1>1, <2>2
<1>6. DOMAIN known' = DOMAIN known \cup Span(pos, count)
  BY <1>1
<1>7. ASSUME NEW p \in DOMAIN known'
      PROVE  known'[p] \in AnyByte \ {Junk}
  <2>1. CASE p \in Span(pos, count)
    <3>1. known'[p] = Byte(v, p)
      BY <1>1, <2>1
    <3>2. QED
      BY <1>2, <2>1, <3>1, ByteType
  <2>2. CASE p \notin Span(pos, count)
    <3>1. p \in DOMAIN known /\ known'[p] = known[p]
      BY <1>1, <1>6, <1>7, <2>2
    <3>2. QED
      BY <1>3, <3>1 DEF TypeOK
  <2>3. QED
    BY <2>1, <2>2
<1>8. /\ huge' \in BOOLEAN /\ undefined' \in BOOLEAN
      /\ blind' \subseteq FileCluster \ DOMAIN clus'
  <2>1. D \cap blind = {}
    BY DEF Write
  <2>2. QED
    BY <1>1, <1>3, <1>5, <2>1 DEF TypeOK
<1>9. TypeOK'
  BY <1>2, <1>3, <1>4, <1>5, <1>6, <1>7, <1>8 DEF TypeOK, FileCluster, Offset, Position, AnyByte
<1>10. KnownStored'
  <2>1. ASSUME ~ huge', NEW p \in DOMAIN known'
        PROVE  p \div BPC \in DOMAIN clus' /\ clus'[p \div BPC][p % BPC] = known'[p]
    <3>1. ~ huge /\ p \in Nat
      <4>1. ~ huge
        BY <1>1, <2>1, Zenon
      <4>2. p \in Nat
        BY <1>2, <1>3, <1>6, <2>1 DEF Position
      <4>3. QED
        BY <4>1, <4>2
    <3>2. CASE p \in Span(pos, count)
      <4>1. p \div BPC \in D
        BY <3>2, SpanClusters
      <4>2. Stored(D, pos, count, v)[p \div BPC][p % BPC] = Byte(v, p)
        BY <3>1, <3>2, <4>1, StoredByte, D \in SUBSET Writes(pos, count)
      <4>3. QED
        BY <1>1, <1>5, <3>2, <4>1, <4>2
    <3>3. CASE p \notin Span(pos, count)
      <4>1. p \in DOMAIN known /\ known'[p] = known[p]
        BY <1>1, <1>6, <2>1, <3>3
      <4>2. p \div BPC \in DOMAIN clus /\ clus[p \div BPC][p % BPC] = known[p]
        BY <3>1, <4>1 DEF IInv, KnownStored
      <4>3. Stored(D, pos, count, v)[p \div BPC][p % BPC] = clus[p \div BPC][p % BPC]
        <5>1. p \in Nat /\ D \in SUBSET Writes(pos, count) /\ p \div BPC \in DOMAIN clus \cup D
          BY <3>1, <4>2
        <5> HIDE DEF D
        <5>2. Stored(D, pos, count, v)[p \div BPC][p % BPC] =
                IF p \div BPC \in D /\ p \in Span(pos, count) THEN Byte(v, p)
                ELSE IF p \div BPC \in DOMAIN clus THEN clus[p \div BPC][p % BPC] ELSE Junk
          BY <5>1, StoredByte
        <5>3. QED
          BY <3>3, <4>2, <5>2
      <4>4. QED
        BY <1>1, <1>5, <4>1, <4>2, <4>3
    <3>4. QED
      BY <3>2, <3>3
  <2>2. QED
    BY <2>1 DEF KnownStored
<1>11. SizeSmall'
  <2>1. huge' \/ ~ size' >= Word \div 2
    BY <1>1, Zenon
  <2>2. QED
    BY <1>4, <2>1, HalfWord DEF SizeSmall
<1>12. Covered'
  <2> SUFFICES ASSUME Sound' PROVE Cardinality(Written') <= size'
    BY DEF Covered
  <2>1. ~ huge /\ Sound
    BY <1>1 DEF Sound
  <2>2. Cardinality(Written) <= size /\ size <= Word \div 2
    BY <2>1 DEF IInv, Covered, SizeSmall, Sound
  <2>3. size' = size + count
    <3>1. count < Word \div 2
      BY <1>1, HalfWord, MaxType DEF Fits
    <3>2. QED
      BY <1>1, <1>3, <2>2, <3>1, HalfWord
  <2>4. Written' \subseteq Written \cup Span(pos, count)
    BY <1>1, <1>6 DEF Written
  <2>5. /\ IsFiniteSet(Span(pos, count)) /\ Cardinality(Span(pos, count)) = count
    BY FS_Interval, pos + count - 1 \in Int, pos \in Int DEF Span
  <2>6. IsFiniteSet(Written) /\ Cardinality(Written) \in Nat
    BY <1>3, WrittenFinite
  <2>7. /\ IsFiniteSet(Written \cup Span(pos, count))
        /\ Cardinality(Written \cup Span(pos, count))
             = Cardinality(Written) + count - Cardinality(Written \cap Span(pos, count))
    BY <2>5, <2>6, FS_Union
  <2>8. Cardinality(Written \cap Span(pos, count)) \in Nat
    BY <2>6, FS_Subset, FS_CardinalityType, Written \cap Span(pos, count) \in SUBSET Written
  <2>9. Cardinality(Written') \in Nat
        /\ Cardinality(Written') <= Cardinality(Written \cup Span(pos, count))
    BY <2>4, <2>7, FS_Subset, FS_CardinalityType
  <2>10. QED
    BY <1>3, <2>2, <2>3, <2>6, <2>7, <2>8, <2>9
<1>13. QED
  BY <1>9, <1>10, <1>11, <1>12 DEF IInv

\* A soWrite that ran out of space has written some clusters, and the history
\* has forgotten their bytes.
LEMMA WriteNoSpaceIInv ==
  ASSUME IInv, NEW pos \in Nat, NEW count \in Nat \ {0}, NEW v \in Tag,
         NEW k \in FileCluster, WriteNoSpace(pos, count, v, k)
  PROVE  IInv'
<1> DEFINE D == pos \div BPC .. k - 1
           lost == {p \in Span(pos, count) : p \div BPC \in D}
<1>1. /\ Fits(pos, count) /\ k \in Writes(pos, count)
      /\ clus' = Stored(D, pos, count, v)
      /\ known' = Without(known, lost)
      /\ (pos \div BPC .. k) \cap blind = {} /\ NoSpace(k, DOMAIN clus')
      /\ size' = size /\ huge' = huge /\ undefined' = undefined
  BY DEF WriteNoSpace
<1>2. D \in SUBSET Writes(pos, count)
  <2>1. pos \div BPC \in Nat
    BY DivMod
  <2>2. (pos + count) \div BPC \in Nat
    BY DivMod, pos + count \in Nat
  <2>3. QED
    BY <1>1, <2>1, <2>2 DEF Writes
<1>3. TypeOK /\ DOMAIN known \subseteq Position
  BY DEF IInv, TypeOK
<1>4. /\ DOMAIN clus' = DOMAIN clus \cup D
      /\ DOMAIN clus' \subseteq FileCluster
      /\ \A i \in DOMAIN clus' : DOMAIN clus'[i] = Offset /\ \A x \in Offset : clus'[i][x] \in AnyByte
  <2>1. /\ DOMAIN Stored(D, pos, count, v) = DOMAIN clus \cup D
        /\ DOMAIN clus \cup D \subseteq FileCluster
        /\ \A i \in DOMAIN clus \cup D :
             /\ DOMAIN Stored(D, pos, count, v)[i] = Offset
             /\ \A x \in Offset : Stored(D, pos, count, v)[i][x] \in AnyByte
    BY <1>1, <1>2, <1>3, StoredType
  <2>2. QED
    BY <1>1, <2>1
<1>5. DOMAIN known' = DOMAIN known \ lost /\ \A p \in DOMAIN known' : known'[p] = known[p]
  BY <1>1 DEF Without
<1>6. /\ size' \in 0 .. Word - 1 /\ huge' \in BOOLEAN /\ undefined' \in BOOLEAN
      /\ blind' \subseteq FileCluster \ DOMAIN clus'
  <2>1. k \in Int /\ pos \div BPC \in Nat
    BY DivMod DEF FileCluster
  <2>2. D \cap blind = {}
    BY <1>1, <2>1
  <2>3. blind \subseteq FileCluster \ DOMAIN clus'
    BY <1>3, <1>4, <2>2 DEF TypeOK
  <2>4. blind' \subseteq FileCluster \ DOMAIN clus'
    BY <1>1, <2>3, NoSpaceBlind
  <2>5. QED
    BY <1>1, <1>3, <2>4 DEF TypeOK
<1>7. TypeOK'
  <2>1. DOMAIN known' \subseteq Position /\ \A p \in DOMAIN known' : known'[p] \in AnyByte \ {Junk}
    BY <1>3, <1>5 DEF TypeOK
  <2>2. QED
    BY <1>4, <1>6, <2>1 DEF TypeOK, FileCluster, Offset, Position, AnyByte
<1>8. KnownStored'
  <2>1. ASSUME ~ huge', NEW p \in DOMAIN known'
        PROVE  p \div BPC \in DOMAIN clus' /\ clus'[p \div BPC][p % BPC] = known'[p]
    <3>1. /\ p \in DOMAIN known /\ p \in Nat /\ known'[p] = known[p]
          /\ ~ (p \div BPC \in D /\ p \in Span(pos, count))
      BY <1>3, <1>5, <2>1 DEF Position
    <3>2. ~ huge
      BY <1>1, <2>1
    <3>3. p \div BPC \in DOMAIN clus /\ clus[p \div BPC][p % BPC] = known[p]
      BY <3>1, <3>2 DEF IInv, KnownStored
    <3>4. Stored(D, pos, count, v)[p \div BPC][p % BPC] = clus[p \div BPC][p % BPC]
      BY <1>2, <3>1, <3>3, StoredByte
    <3>5. QED
      BY <1>1, <1>4, <3>1, <3>3, <3>4
  <2>2. QED
    BY <2>1 DEF KnownStored
<1>9. SizeSmall'
  BY <1>1 DEF IInv, SizeSmall
<1>10. Covered'
  <2>1. Written' \in SUBSET Written
    BY <1>5 DEF Written
  <2>2. /\ Cardinality(Written') \in Nat /\ Cardinality(Written) \in Nat
        /\ Cardinality(Written') <= Cardinality(Written)
    BY <1>3, <2>1, WrittenFinite, FS_Subset, FS_CardinalityType
  <2>3. Sound' => Sound /\ size' = size
    BY <1>1 DEF Sound
  <2>4. size \in Nat
    BY <1>3, HalfWord DEF TypeOK
  <2>5. QED
    BY <2>2, <2>3, <2>4 DEF IInv, Covered
<1>11. QED
  BY <1>7, <1>8, <1>9, <1>10 DEF IInv

\* What the history holds after a soTruncate.
LEMMA KnownBelowType ==
  ASSUME TypeOK, NEW length \in Nat
  PROVE  /\ DOMAIN KnownBelow(length) = {q \in DOMAIN known : q < length} \cup Cleared(length)
         /\ DOMAIN KnownBelow(length) \subseteq Position
         /\ \A p \in DOMAIN KnownBelow(length) :
              /\ KnownBelow(length)[p] = IF p \in Cleared(length) THEN Zero ELSE known[p]
              /\ KnownBelow(length)[p] \in AnyByte \ {Junk}
<1>1. DOMAIN KnownBelow(length) = {q \in DOMAIN known : q < length} \cup Cleared(length)
  BY DEF KnownBelow
<1>2. DOMAIN KnownBelow(length) \subseteq Position
  BY <1>1 DEF TypeOK, Cleared
<1>3. ASSUME NEW p \in DOMAIN KnownBelow(length)
      PROVE  KnownBelow(length)[p] = IF p \in Cleared(length) THEN Zero ELSE known[p]
  BY <1>1, <1>3 DEF KnownBelow
<1>4. ASSUME NEW p \in DOMAIN KnownBelow(length)
      PROVE  KnownBelow(length)[p] \in AnyByte \ {Junk}
  <2>1. CASE p \in Cleared(length)
    BY <1>3, <2>1, Sizes DEF AnyByte
  <2>2. CASE p \notin Cleared(length)
    BY <1>1, <1>3, <1>4, <2>2 DEF TypeOK
  <2>3. QED
    BY <2>1, <2>2
<1>5. QED
  BY <1>1, <1>2, <1>3, <1>4

\* Only a size of 2^31 or more hides from soTruncate that a length is shorter.
LEMMA NotShorter ==
  ASSUME TypeOK, SizeSmall, ~ huge, NEW length \in Lengths, ~ Shrinks(length)
  PROVE  length >= size
<1>1. /\ size \in Nat /\ size <= Word \div 2
      /\ length \in Nat /\ Word \in Nat /\ Word \div 2 \in Nat
      /\ 2 * (Word \div 2) <= Word
  BY HalfWord, Sizes DEF TypeOK, SizeSmall
<1>2. SUFFICES ASSUME length < size PROVE FALSE
  BY <1>1
<1>3. (length - size) % Word = length - size + Word
  BY <1>1, <1>2, WordBelow
<1>4. ~ (length - size + Word < Word \div 2)
  BY <1>1, <1>2
<1>5. Signed(length - size) = length - size
  BY <1>1, <1>3, <1>4 DEF Signed
<1>6. QED
  BY <1>1, <1>2, <1>5 DEF Shrinks

\* The bytes soTruncate leaves: zeros in its cluster from length on, or from the
\* beginning if the cluster was a hole, and what was there in the rest.
LEMMA CutByte ==
  ASSUME TypeOK, NEW length \in Lengths, NEW gone \in SUBSET FileCluster,
         TruncateShorter(length, gone)
  PROVE  /\ length \in Nat /\ Edge(length) \in FileCluster
         /\ DOMAIN clus' = (DOMAIN clus \ gone) \cup {Edge(length)}
         /\ \A p \in Nat : p < length /\ p \div BPC \in DOMAIN clus => p \div BPC \in DOMAIN clus'
         /\ \A p \in Nat : p \div BPC \in DOMAIN clus' =>
              clus'[p \div BPC][p % BPC] =
                IF /\ p \div BPC = Edge(length)
                   /\ p >= length \/ Edge(length) \notin DOMAIN clus
                  THEN Zero
                  ELSE clus[p \div BPC][p % BPC]
<1>1. /\ length < soGetMaxFileSize /\ gone \subseteq Freeable(length)
      /\ clus' = [i \in (DOMAIN clus \ gone) \cup {Edge(length)} |->
                    IF i = Edge(length) THEN Cut(length) ELSE clus[i]]
  BY DEF TruncateShorter
<1>2. length \in Position /\ length \in Nat
  BY <1>1, MaxType, Sizes DEF Position
<1>3. /\ Edge(length) \in Nat /\ Edge(length) \in FileCluster
      /\ length % BPC \in Offset
      /\ length = Edge(length) * BPC + (length % BPC)
  BY <1>2, DivMod, InFile DEF Edge
<1>4. DOMAIN clus' = (DOMAIN clus \ gone) \cup {Edge(length)}
  BY <1>1
<1>5. ASSUME NEW p \in Nat, p < length, p \div BPC \in DOMAIN clus
      PROVE  p \div BPC \in DOMAIN clus'
  <2>1. p \div BPC <= Edge(length) /\ p \div BPC \in Nat
    BY <1>2, <1>5, DivMonotone, DivMod DEF Edge
  <2>2. p \div BPC \notin gone
    BY <1>1, <1>3, <2>1 DEF Freeable
  <2>3. QED
    BY <1>4, <1>5, <2>2
<1>6. ASSUME NEW p \in Nat, p \div BPC \in DOMAIN clus'
      PROVE  clus'[p \div BPC][p % BPC] =
               IF /\ p \div BPC = Edge(length)
                  /\ p >= length \/ Edge(length) \notin DOMAIN clus
                 THEN Zero
                 ELSE clus[p \div BPC][p % BPC]
  <2>1. /\ p \div BPC \in Nat /\ p % BPC \in Offset
        /\ p = (p \div BPC) * BPC + (p % BPC)
    BY DivMod
  <2>2. CASE p \div BPC # Edge(length)
    BY <1>1, <1>4, <1>6, <2>2
  <2>3. CASE p \div BPC = Edge(length)
    <3>1. clus'[p \div BPC][p % BPC] =
            IF p % BPC >= length % BPC THEN Zero ELSE ReadFileCluster(Edge(length))[p % BPC]
      <4>1. clus'[p \div BPC] = Cut(length)
        BY <1>1, <1>4, <1>6, <2>3
      <4>2. QED
        BY <2>1, <4>1 DEF Cut
    <3>2. p % BPC >= length % BPC <=> p >= length
      <4>1. Edge(length) * BPC \in Nat
        BY <1>3, Sizes
      <4>2. QED
        BY <1>3, <2>1, <2>3, <4>1 DEF Offset
    <3>3. ReadFileCluster(Edge(length))[p % BPC] =
            IF Edge(length) \in DOMAIN clus THEN clus[Edge(length)][p % BPC] ELSE Zero
      <4>1. blind = {}
        BY DEF TruncateShorter
      <4>2. QED
        BY <2>1, <4>1 DEF ReadFileCluster
    <3>4. QED
      BY <2>3, <3>1, <3>2, <3>3
  <2>4. QED
    BY <2>2, <2>3
<1>7. QED
  BY <1>2, <1>3, <1>4, <1>5, <1>6

\* soTruncate to a shorter length keeps it: what the history still knows is before
\* the length or has just been cleared, and neither is in a cluster that is freed.
LEMMA TruncateShorterIInv ==
  ASSUME IInv, NEW length \in Lengths, NEW gone \in SUBSET FileCluster,
         TruncateShorter(length, gone)
  PROVE  IInv'
<1>1. /\ size' = length /\ known' = KnownBelow(length) /\ length < soGetMaxFileSize
      /\ huge' = huge /\ blind' = blind /\ undefined' = undefined
  BY DEF TruncateShorter
<1>2. TypeOK
  BY DEF IInv
<1>3. /\ length \in Nat /\ Edge(length) \in FileCluster
      /\ DOMAIN clus' = (DOMAIN clus \ gone) \cup {Edge(length)}
      /\ \A p \in Nat : p < length /\ p \div BPC \in DOMAIN clus => p \div BPC \in DOMAIN clus'
      /\ \A p \in Nat : p \div BPC \in DOMAIN clus' =>
           clus'[p \div BPC][p % BPC] =
             IF /\ p \div BPC = Edge(length)
                /\ p >= length \/ Edge(length) \notin DOMAIN clus
               THEN Zero
               ELSE clus[p \div BPC][p % BPC]
  BY <1>2, CutByte
<1>4. /\ DOMAIN known' = {q \in DOMAIN known : q < length} \cup Cleared(length)
      /\ DOMAIN known' \subseteq Position
      /\ \A p \in DOMAIN known' :
           /\ known'[p] = IF p \in Cleared(length) THEN Zero ELSE known[p]
           /\ known'[p] \in AnyByte \ {Junk}
  BY <1>1, <1>2, <1>3, KnownBelowType
<1>5. TypeOK'
  <2>1. size' \in 0 .. Word - 1
    BY <1>1, <1>3, MaxType, HalfWord
  <2>2. DOMAIN clus' \subseteq FileCluster
    BY <1>2, <1>3 DEF TypeOK
  <2>3. ASSUME NEW i \in DOMAIN clus'
        PROVE  DOMAIN clus'[i] = Offset /\ \A x \in Offset : clus'[i][x] \in AnyByte
    <3>1. clus' = [j \in (DOMAIN clus \ gone) \cup {Edge(length)} |->
                     IF j = Edge(length) THEN Cut(length) ELSE clus[j]]
      BY DEF TruncateShorter
    <3>2. CASE i = Edge(length)
      <4>1. clus'[i] = Cut(length)
        BY <3>1, <3>2
      <4>2. ASSUME NEW x \in Offset PROVE ReadFileCluster(Edge(length))[x] \in AnyByte
        BY <1>2 DEF ReadFileCluster, TypeOK, AnyByte
      <4>3. Zero \in AnyByte
        BY DEF AnyByte
      <4>4. QED
        BY <4>1, <4>2, <4>3 DEF Cut
    <3>3. CASE i # Edge(length)
      <4>1. i \in DOMAIN clus /\ clus'[i] = clus[i]
        BY <1>3, <2>3, <3>1, <3>3
      <4>2. QED
        BY <1>2, <4>1 DEF TypeOK
    <3>4. QED
      BY <3>2, <3>3
  <2>4. huge' \in BOOLEAN /\ undefined' \in BOOLEAN /\ blind' = {}
    BY <1>1, <1>2 DEF TypeOK, TruncateShorter
  <2>5. DOMAIN known' \subseteq Position /\ \A p \in DOMAIN known' : known'[p] \in AnyByte \ {Junk}
    BY <1>4
  <2>6. QED
    BY <2>1, <2>2, <2>3, <2>4, <2>5 DEF TypeOK, FileCluster, Offset, Position, AnyByte
<1>6. KnownStored'
  <2>1. ASSUME ~ huge', NEW p \in DOMAIN known'
        PROVE  p \div BPC \in DOMAIN clus' /\ clus'[p \div BPC][p % BPC] = known'[p]
    <3>1. ~ huge
      BY <1>1, <2>1
    <3>2. p \in Nat /\ p \in Position
      BY <1>4, <2>1 DEF Position
    <3>3. CASE p \in Cleared(length)
      <4>1. p \div BPC = Edge(length) /\ (p >= length \/ Edge(length) \notin DOMAIN clus)
        BY <3>3 DEF Cleared
      <4>2. p \div BPC \in DOMAIN clus'
        BY <1>3, <4>1
      <4>3. clus'[p \div BPC][p % BPC] = Zero
        BY <1>3, <3>2, <4>1, <4>2
      <4>4. QED
        BY <1>4, <2>1, <3>3, <4>2, <4>3
    <3>4. CASE p \notin Cleared(length)
      <4>1. p \in DOMAIN known /\ p < length /\ known'[p] = known[p]
        BY <1>4, <2>1, <3>4
      <4>2. p \div BPC \in DOMAIN clus /\ clus[p \div BPC][p % BPC] = known[p]
        BY <3>1, <4>1 DEF IInv, KnownStored
      <4>3. p \div BPC \in DOMAIN clus'
        BY <1>3, <3>2, <4>1, <4>2
      <4>4. ~ (p \div BPC = Edge(length) /\ (p >= length \/ Edge(length) \notin DOMAIN clus))
        BY <3>2, <3>4 DEF Cleared
      <4>5. clus'[p \div BPC][p % BPC] = clus[p \div BPC][p % BPC]
        BY <1>3, <3>2, <4>3, <4>4
      <4>6. QED
        BY <4>1, <4>2, <4>3, <4>5
    <3>5. QED
      BY <3>3, <3>4
  <2>2. QED
    BY <2>1 DEF KnownStored
<1>7. SizeSmall'
  BY <1>1, <1>3, HalfWord, MaxType DEF SizeSmall
<1>8. Covered'
  <2>1. Written' \subseteq 0 .. length - 1
    BY <1>3, <1>4 DEF Written, Position
  <2>2. IsFiniteSet(0 .. length - 1) /\ Cardinality(0 .. length - 1) <= length
    <3>1. 0 \in Int /\ length - 1 \in Int
      BY <1>3
    <3>2. /\ IsFiniteSet(0 .. length - 1)
          /\ Cardinality(0 .. length - 1) = IF 0 > length - 1 THEN 0 ELSE length - 1 - 0 + 1
      BY <3>1, FS_Interval
    <3>3. QED
      BY <1>3, <3>2
  <2>3. /\ Cardinality(Written') <= Cardinality(0 .. length - 1)
        /\ Cardinality(Written') \in Nat /\ Cardinality(0 .. length - 1) \in Nat
    BY <2>1, <2>2, FS_Subset, FS_CardinalityType
  <2>4. QED
    BY <1>1, <1>3, <2>2, <2>3 DEF Covered
<1>9. QED
  BY <1>5, <1>6, <1>7, <1>8 DEF IInv

\* soTruncate to a longer length keeps it: it only sets the size.
LEMMA TruncateLongerIInv ==
  ASSUME IInv, NEW length \in Lengths, TruncateLonger(length)
  PROVE  IInv'
<1>1. /\ ~ Shrinks(length) /\ length <= soGetMaxFileSize
      /\ size' = length
      /\ known' = IF length < size THEN KnownBelow(length) ELSE known
      /\ clus' = clus /\ huge' = huge /\ blind' = blind /\ undefined' = undefined
  BY DEF TruncateLonger
<1>2. length \in Nat /\ size \in Nat
  BY HalfWord, Sizes DEF IInv, TypeOK
<1>3. TypeOK /\ SizeSmall
  BY DEF IInv
<1>4. ~ huge => length >= size /\ known' = known
  <2>1. ASSUME ~ huge PROVE length >= size
    BY <1>1, <1>3, <2>1, NotShorter
  <2>2. QED
    BY <1>1, <1>2, <2>1
<1>5. TypeOK'
  <2>1. size' \in 0 .. Word - 1
    BY <1>1, <1>2, MaxType, HalfWord
  <2>2. DOMAIN known' \subseteq Position /\ \A p \in DOMAIN known' : known'[p] \in AnyByte \ {Junk}
    <3>1. CASE length < size
      BY <1>1, <1>2, <1>3, <3>1, KnownBelowType
    <3>2. CASE ~ length < size
      BY <1>1, <1>3, <3>2 DEF TypeOK
    <3>3. QED
      BY <3>1, <3>2
  <2>3. huge' \in BOOLEAN /\ undefined' \in BOOLEAN
    BY <1>1, <1>3 DEF TypeOK
  <2>4. /\ DOMAIN clus' \subseteq FileCluster /\ blind' \subseteq FileCluster \ DOMAIN clus'
        /\ \A i \in DOMAIN clus' : DOMAIN clus'[i] = Offset /\ \A x \in Offset : clus'[i][x] \in AnyByte
    BY <1>1, <1>3 DEF TypeOK
  <2>5. QED
    BY <2>1, <2>2, <2>3, <2>4 DEF TypeOK, FileCluster, Offset, Position, AnyByte
<1>6. KnownStored'
  <2>1. ASSUME ~ huge', NEW p \in DOMAIN known'
        PROVE  p \div BPC \in DOMAIN clus' /\ clus'[p \div BPC][p % BPC] = known'[p]
    <3>1. ~ huge /\ known' = known
      BY <1>1, <1>4, <2>1
    <3>2. QED
      BY <1>1, <2>1, <3>1 DEF IInv, KnownStored
  <2>2. QED
    BY <2>1 DEF KnownStored
<1>7. SizeSmall'
  BY <1>1, <1>2, HalfWord, MaxType DEF SizeSmall
<1>8. Covered'
  <2> SUFFICES ASSUME Sound' PROVE Cardinality(Written') <= size'
    BY DEF Covered
  <2>1. ~ huge /\ Sound
    BY <1>1 DEF Sound
  <2>2. Written' = Written
    BY <1>4, <2>1 DEF Written
  <2>3. Cardinality(Written) <= size
    BY <2>1 DEF IInv, Covered
  <2>4. Cardinality(Written) \in Nat
    BY <1>3, WrittenFinite
  <2>5. QED
    BY <1>1, <1>2, <1>4, <2>1, <2>2, <2>3, <2>4
<1>9. QED
  BY <1>5, <1>6, <1>7, <1>8 DEF IInv

\* The calls that leave the file and its size alone.
LEMMA FailsIInv ==
  ASSUME IInv,
         \/ \E w \in Asked : WriteBlind(w[1], w[2])
         \/ \E length \in Lengths : TruncateNoSpace(length) \/ TruncateAstray(length)
  PROVE  IInv'
<1>1. /\ size' = size /\ clus' = clus /\ known' = known /\ huge' = huge
      /\ undefined' \in {undefined, TRUE}
  BY DEF WriteBlind, TruncateNoSpace, TruncateAstray
<1>2. TypeOK /\ KnownStored /\ SizeSmall /\ Covered
  BY DEF IInv
<1>3. blind' = blind \/ \E k : NoSpace(k, DOMAIN clus)
  BY DEF WriteBlind, TruncateNoSpace, TruncateAstray
<1>4. undefined' \in BOOLEAN /\ blind' \subseteq FileCluster \ DOMAIN clus
  <2>1. blind \subseteq FileCluster \ DOMAIN clus /\ undefined \in BOOLEAN
    BY <1>2 DEF TypeOK
  <2>2. QED
    BY <1>1, <1>3, <2>1, NoSpaceBlind
<1>5. TypeOK'
  BY <1>1, <1>2, <1>4 DEF TypeOK, FileCluster, Offset, Position, AnyByte
<1>6. KnownStored' /\ SizeSmall'
  BY <1>1, <1>2 DEF KnownStored, SizeSmall
<1>7. Sound' => Sound
  BY <1>1 DEF Sound
<1>8. Covered'
  BY <1>1, <1>2, <1>7 DEF Covered, Written
<1>9. QED
  BY <1>5, <1>6, <1>8 DEF IInv

\* Every step keeps the invariant.
LEMMA NextIInv == IInv /\ [Next]_vars => IInv'
<1> SUFFICES ASSUME IInv, [Next]_vars PROVE IInv'
  OBVIOUS
<1>1. ASSUME NEW w \in Asked, NEW v \in Tag,
             \/ Write(w[1], w[2], v)
             \/ \E k \in FileCluster : WriteNoSpace(w[1], w[2], v, k)
      PROVE  IInv'
  <2>1. w[1] \in Nat /\ w[2] \in Nat \ {0}
    BY Sizes
  <2>2. CASE Write(w[1], w[2], v)
    BY <2>1, <2>2, WriteIInv
  <2>3. ASSUME NEW k \in FileCluster, WriteNoSpace(w[1], w[2], v, k)
        PROVE  IInv'
    BY <2>1, <2>3, WriteNoSpaceIInv
  <2>4. QED
    BY <1>1, <2>2, <2>3
<1>2. ASSUME NEW length \in Lengths,
             \/ \E gone \in SUBSET FileCluster : TruncateShorter(length, gone)
             \/ TruncateNoSpace(length) \/ TruncateLonger(length) \/ TruncateAstray(length)
      PROVE  IInv'
  BY <1>2, TruncateShorterIInv, TruncateLongerIInv, FailsIInv
<1>3. ASSUME NEW w \in Asked, WriteBlind(w[1], w[2]) PROVE IInv'
  BY <1>3, FailsIInv
<1>4. CASE UNCHANGED vars
  BY <1>4, SameIInv
<1>5. QED
  BY <1>1, <1>2, <1>3, <1>4 DEF Next

-----------------------------------------------------------------------------
(* What the invariant gives to readers.                                       *)

\* Every cluster soRead goes through has a byte for it.
LEMMA ReadLengthType ==
  ASSUME NEW pos \in Nat, NEW n \in Nat \ {0},
         NEW i \in pos \div BPC .. (pos + n - 1) \div BPC
  PROVE  ReadLength(pos, n, i) \in Nat \ {0}
<1>1. pos % BPC \in Offset /\ (pos + n - 1) % BPC \in Offset
  BY DivMod, pos + n - 1 \in Nat
<1>2. CASE i # pos \div BPC
  BY <1>1, <1>2, Sizes DEF ReadLength, Offset
<1>3. CASE i = pos \div BPC /\ ~ n <= BPC - (pos % BPC)
  BY <1>1, <1>3, Sizes DEF ReadLength, Offset
<1>4. CASE i = pos \div BPC /\ n <= BPC - (pos % BPC)
  <2>1. /\ pos \div BPC \in Nat /\ pos = (pos \div BPC) * BPC + (pos % BPC)
        /\ (pos \div BPC) * BPC \in Nat
    BY DivMod, Sizes
  <2>2. /\ (pos % BPC) + n - 1 \in Offset
        /\ pos + n - 1 = (pos \div BPC) * BPC + ((pos % BPC) + n - 1)
    BY <1>1, <1>4, <2>1, Sizes DEF Offset
  <2>3. (pos + n - 1) % BPC = (pos % BPC) + n - 1
    BY <2>1, <2>2, DivModUnique
  <2>4. QED
    BY <1>1, <1>4, <2>3 DEF ReadLength, Offset
<1>5. QED
  BY <1>2, <1>3, <1>4

\* What soRead copies, it copies from the place of the byte.
LEMMA CopiedByte ==
  ASSUME NEW pos \in Nat, NEW n \in Nat \ {0}, NEW stop \in Stop,
         NEW i \in Visited(pos, n, stop), NEW e \in Copied(pos, n, i)
  PROVE  /\ pos + e[1] \in Span(pos, n) /\ (pos + e[1]) \div BPC = i
         /\ e[2] = ReadFileCluster(i)[(pos + e[1]) % BPC]
<1>1. i \in pos \div BPC .. (pos + n - 1) \div BPC
  BY DEF Visited
<1>2. i \in Nat /\ i >= pos \div BPC /\ pos \div BPC \in Nat
  BY <1>1, ReadPiece, DivMod, 0 \in Int
<1>3. PICK y \in 0 .. ReadLength(pos, n, i) - 1 :
        e = <<At(pos, i) + y, ReadFileCluster(i)[From(pos, i) + y]>>
  BY DEF Copied
<1>4. /\ From(pos, i) \in Offset /\ At(pos, i) \in Nat
      /\ pos + At(pos, i) = i * BPC + From(pos, i)
  BY <1>2, Place
<1>5. DEFINE x == From(pos, i) + y
<1>6. ReadLength(pos, n, i) \in Nat
  BY <1>1, ReadLengthType
<1>7. x \in Int /\ x \in Span(From(pos, i), ReadLength(pos, n, i))
  BY <1>4, <1>6 DEF Span, Offset
<1>8. x \in Offset /\ i * BPC + x \in Span(pos, n)
  BY <1>1, <1>7, ReadPiece
<1>9. pos + e[1] = i * BPC + x
  <2>1. i * BPC \in Nat
    BY <1>2, Sizes
  <2>2. QED
    BY <1>3, <1>4, <2>1 DEF Offset
<1>10. (pos + e[1]) \div BPC = i /\ (pos + e[1]) % BPC = x
  BY <1>2, <1>8, <1>9, DivModUnique
<1>11. e[2] = ReadFileCluster(i)[x]
  BY <1>3
<1>12. QED
  BY <1>8, <1>9, <1>10, <1>11

\* soRead always goes for at least one byte of a file that is not empty.
LEMMA CountType ==
  ASSUME TypeOK, NEW count \in Nat \ {0}
  PROVE  ReadCount(count) \in Nat \ {0}
  BY HalfWord DEF ReadCount, TypeOK

\* A known byte is read from its place, where KnownStored has it.
LEMMA IInvReadsBack == IInv => ReadsBack
<1> SUFFICES ASSUME IInv, Sound,
                    NEW pos \in Position, NEW count \in 1 .. soGetMaxFileSize - pos, NEW stop \in Stop,
                    NEW e \in soRead(pos, count, stop).buff,
                    e[1] < count, pos + e[1] \in DOMAIN known
             PROVE  e[2] = known[pos + e[1]]
  BY DEF ReadsBack
<1> DEFINE n == ReadCount(count)
<1>1. pos \in Nat /\ count \in Nat \ {0} /\ TypeOK
  BY MaxType DEF Position, IInv
<1>2. n \in Nat \ {0}
  BY <1>1, CountType
<1>3. PICK i \in Visited(pos, n, stop) : e \in Copied(pos, n, i)
  BY DEF soRead
<1>4. (pos + e[1]) \div BPC = i /\ e[2] = ReadFileCluster(i)[(pos + e[1]) % BPC]
  BY <1>1, <1>2, <1>3, CopiedByte
<1>5. \A p \in DOMAIN known :
        p \div BPC \in DOMAIN clus /\ clus[p \div BPC][p % BPC] = known[p]
  BY DEF IInv, KnownStored, Sound
<1>6. ReadFileCluster(i) = clus[i]
  BY <1>4, <1>5 DEF ReadFileCluster
<1>7. QED
  BY <1>4, <1>5, <1>6

\* Bytes that were all written are no more than the size, and none is in a hole.
LEMMA IInvReadsAll == IInv => ReadsAll
<1> SUFFICES ASSUME IInv, Sound,
                    NEW pos \in Position, NEW count \in 1 .. soGetMaxFileSize - pos, NEW stop \in Stop,
                    Span(pos, count) \subseteq Written
             PROVE  /\ soRead(pos, count, stop).ret = count
                    /\ {e[1] : e \in soRead(pos, count, stop).buff} = 0 .. count - 1
  BY DEF ReadsAll
<1> DEFINE all == pos \div BPC .. (pos + count - 1) \div BPC
<1>1. pos \in Nat /\ count \in Nat \ {0} /\ TypeOK
  BY MaxType DEF Position, IInv
<1>2. size \in Nat /\ count <= size
  <2>1. Cardinality(Span(pos, count)) = count
    BY <1>1, FS_Interval, pos + count - 1 \in Int, pos \in Int DEF Span
  <2>2. Cardinality(Span(pos, count)) <= Cardinality(Written) /\ Cardinality(Written) \in Nat
    BY <1>1, WrittenFinite, FS_Subset
  <2>3. Cardinality(Written) <= size
    BY DEF IInv, Covered
  <2>4. size \in Nat
    BY <1>1, HalfWord DEF TypeOK
  <2>5. QED
    BY <1>1, <2>1, <2>2, <2>3, <2>4
<1>3. ReadCount(count) = count
  BY <1>1, <1>2 DEF ReadCount
<1>4. ASSUME NEW i \in all PROVE i \in DOMAIN clus
  <2>1. i \in Nat /\ i >= pos \div BPC
    BY <1>1, ReadPiece, 0 \in Int
  <2>2. From(pos, i) \in Offset
    BY <1>1, <2>1, Place
  <2>3. i * BPC + From(pos, i) \in Span(pos, count)
    <3>1. ReadLength(pos, count, i) \in Nat \ {0}
      BY <1>1, ReadLengthType
    <3>2. From(pos, i) \in Span(From(pos, i), ReadLength(pos, count, i))
      BY <2>2, <3>1 DEF Span, Offset
    <3>3. QED
      BY <1>1, <2>2, <3>2, ReadPiece DEF Offset
  <2>4. (i * BPC + From(pos, i)) \div BPC = i
    BY <2>1, <2>2, DivModUnique
  <2>5. i * BPC + From(pos, i) \in DOMAIN known
    BY <2>3 DEF Written
  <2>6. QED
    BY <2>4, <2>5 DEF IInv, KnownStored, Sound
<1>5. Visited(pos, count, stop) = all
  <2>1. ASSUME NEW i \in all, NEW j \in pos \div BPC .. i PROVE j \in all
    BY <1>1, DivMod, pos + count - 1 \in Nat
  <2>2. stop \notin DOMAIN clus
    BY <1>1, Sizes DEF Stop, TypeOK, FileCluster
  <2>3. QED
    BY <1>4, <2>1, <2>2 DEF Visited
<1>6. soRead(pos, count, stop) = [ret |-> count, buff |-> UNION {Copied(pos, count, i) : i \in all}]
  <2>1. size # 0
    BY <1>1, <1>2
  <2>2. all \ Visited(pos, count, stop) = {}
    BY <1>5
  <2>3. QED
    BY <1>3, <1>5, <2>1, <2>2 DEF soRead
<1>7. ASSUME NEW e \in soRead(pos, count, stop).buff PROVE e[1] \in 0 .. count - 1
  <2>1. PICK i \in all : e \in Copied(pos, count, i)
    BY <1>6
  <2>2. pos + e[1] \in Span(pos, count)
    BY <1>1, <1>5, <2>1, CopiedByte
  <2>3. e[1] \in Int
    <3>1. i \in Nat /\ i >= pos \div BPC
      BY <1>1, ReadPiece, 0 \in Int
    <3>2. At(pos, i) \in Nat
      BY <1>1, <3>1, Place
    <3>3. QED
      BY <2>1, <3>2 DEF Copied
  <2>4. QED
    BY <1>1, <2>2, <2>3 DEF Span
<1>8. ASSUME NEW b \in 0 .. count - 1
      PROVE  \E e \in soRead(pos, count, stop).buff : e[1] = b
  <2> DEFINE i == (pos + b) \div BPC
             x == (pos + b) % BPC
  <2>1. pos + b \in Span(pos, count) /\ pos + b \in Nat /\ b \in Nat
    BY <1>1 DEF Span
  <2>2. i \in all /\ x \in Offset /\ pos + b = i * BPC + x
    BY <1>1, <2>1, SpanClusters, DivMod
  <2>3. i \in Nat /\ i >= pos \div BPC /\ x \in Span(From(pos, i), ReadLength(pos, count, i))
    BY <1>1, <2>1, <2>2, ReadPiece DEF Offset
  <2>4. /\ From(pos, i) \in Offset /\ At(pos, i) \in Nat
        /\ pos + At(pos, i) = i * BPC + From(pos, i)
    BY <1>1, <2>3, Place
  <2>5. ReadLength(pos, count, i) \in Nat
    BY <1>1, <2>2, ReadLengthType
  <2>6. DEFINE y == x - From(pos, i)
  <2>7. y \in 0 .. ReadLength(pos, count, i) - 1 /\ At(pos, i) + y = b
    <3>1. i * BPC \in Nat
      BY <2>3, Sizes
    <3>2. QED
      BY <1>1, <2>1, <2>2, <2>3, <2>4, <2>5, <3>1 DEF Span, Offset
  <2>8. <<At(pos, i) + y, ReadFileCluster(i)[From(pos, i) + y]>> \in Copied(pos, count, i)
    BY <2>7 DEF Copied
  <2>9. QED
    BY <1>6, <2>2, <2>7, <2>8
<1>9. QED
  BY <1>6, <1>7, <1>8

-----------------------------------------------------------------------------
(* A step of the clusters is a step of the ByteFile, or none.                 *)

\* The positions that have been given a byte.
Given == {q \in Position : q \div BPC \in DOMAIN clus /\ clus[q \div BPC][q % BPC] # Junk}

\* The flat file by position.
LEMMA FlatAt ==
  /\ DOMAIN Flat = Given
  /\ \A p \in Given : Flat[p] = clus[p \div BPC][p % BPC]
  BY DEF Flat, Given

\* The same of the next state.
LEMMA FlatNext ==
  /\ Flat' = [p \in Given' |-> clus'[p \div BPC][p % BPC]]
  /\ Given' = {q \in Position : q \div BPC \in DOMAIN clus' /\ clus'[q \div BPC][q % BPC] # Junk}
  BY DEF Flat, Given, Position, soGetMaxFileSize

\* Writing some clusters of a span gives the bytes of the span that lie in them.
LEMMA FlatWrite ==
  ASSUME TypeOK, NEW pos \in Nat, NEW count \in Nat \ {0}, NEW v \in Tag, Fits(pos, count),
         NEW D \in SUBSET Writes(pos, count), clus' = Stored(D, pos, count, v),
         NEW n \in Nat, Span(pos, n) = {p \in Span(pos, count) : p \div BPC \in D}
  PROVE  File!Write(pos, n, v)
<1>1. DOMAIN clus' = DOMAIN clus \cup D /\ Span(pos, count) \subseteq Position
  <2>1. DOMAIN clus' = DOMAIN clus \cup D
    BY DEF Stored
  <2>2. QED
    BY <2>1, SpanInFile
<1>2. ASSUME NEW p \in Position, p \div BPC \in DOMAIN clus'
      PROVE  clus'[p \div BPC][p % BPC] =
               IF p \in Span(pos, n) THEN Byte(v, p)
               ELSE IF p \div BPC \in DOMAIN clus THEN clus[p \div BPC][p % BPC] ELSE Junk
  BY <1>1, <1>2, StoredByte DEF Position
<1>3. ASSUME NEW p \in Span(pos, n)
      PROVE  /\ p \in Position /\ p \div BPC \in DOMAIN clus'
             /\ Byte(v, p) # Junk
  BY <1>1, <1>3, ByteType
<1>4. Given' = Given \cup Span(pos, n)
  <2>1. ASSUME NEW p \in Given' PROVE p \in Given \cup Span(pos, n)
    <3>1. p \in Position /\ p \div BPC \in DOMAIN clus' /\ clus'[p \div BPC][p % BPC] # Junk
      BY <2>1, FlatNext
    <3>2. QED
      BY <1>2, <3>1 DEF Given
  <2>2. ASSUME NEW p \in Span(pos, n) PROVE p \in Given'
    BY <1>2, <1>3, <2>2, FlatNext
  <2>3. ASSUME NEW p \in Given, p \notin Span(pos, n) PROVE p \in Given'
    <3>1. p \in Position /\ p \div BPC \in DOMAIN clus /\ clus[p \div BPC][p % BPC] # Junk
      BY <2>3 DEF Given
    <3>2. p \div BPC \in DOMAIN clus'
      BY <1>1, <3>1
    <3>3. QED
      BY <1>2, <2>3, <3>1, <3>2, FlatNext
  <2>4. QED
    BY <2>1, <2>2, <2>3
<1>5. ASSUME NEW p \in Given'
      PROVE  clus'[p \div BPC][p % BPC] = IF p \in Span(pos, n) THEN Byte(v, p) ELSE Flat[p]
  <2>1. p \in Position /\ p \div BPC \in DOMAIN clus'
    BY <1>5, FlatNext
  <2>2. CASE p \in Span(pos, n)
    BY <1>2, <2>1, <2>2
  <2>3. CASE p \notin Span(pos, n)
    <3>1. p \in Given
      BY <1>4, <1>5, <2>3
    <3>2. p \div BPC \in DOMAIN clus
      BY <3>1 DEF Given
    <3>3. QED
      BY <1>2, <2>1, <2>3, <3>1, <3>2, FlatAt
  <2>4. QED
    BY <2>2, <2>3
<1>6. Flat' = [p \in Given \cup Span(pos, n) |->
                 IF p \in Span(pos, n) THEN Byte(v, p) ELSE Flat[p]]
  BY <1>4, <1>5, FlatNext
<1>7. QED
  BY <1>6, FlatAt DEF File!Write, File!Byte, File!Span, Byte, Span

\* Any write the caller can ask for is one of the ByteFile's, as is its beginning.
LEMMA FileWriteNext ==
  ASSUME NEW pos \in Nat, NEW count \in Nat \ {0}, Fits(pos, count), NEW v \in Tag,
         NEW n \in 0 .. count, File!Write(pos, n, v)
  PROVE  File!Next
<1>1. pos \in Position /\ n \in 0 .. soGetMaxFileSize - pos
  BY MaxType DEF Fits, Position
<1>2. QED
  BY <1>1 DEF File!Next, File!Position, Position

\* soWrite writes all of its buffer,
LEMMA WriteRefines ==
  ASSUME TypeOK, NEW pos \in Nat, NEW count \in Nat \ {0}, NEW v \in Tag,
         Write(pos, count, v)
  PROVE  File!Next
<1>1. Fits(pos, count) /\ clus' = Stored(Writes(pos, count), pos, count, v)
  BY DEF Write
<1>2. Span(pos, count) = {p \in Span(pos, count) : p \div BPC \in Writes(pos, count)}
  BY SpanClusters
<1>3. Writes(pos, count) \in SUBSET Writes(pos, count) /\ count \in Nat
  OBVIOUS
<1>4. File!Write(pos, count, v)
  BY <1>1, <1>2, <1>3, FlatWrite
<1>5. count \in 0 .. count
  OBVIOUS
<1>6. QED
  BY <1>1, <1>4, <1>5, FileWriteNext

\* or its bytes before the cluster it did not get.
LEMMA WriteNoSpaceRefines ==
  ASSUME TypeOK, NEW pos \in Nat, NEW count \in Nat \ {0}, NEW v \in Tag,
         NEW k \in FileCluster, WriteNoSpace(pos, count, v, k)
  PROVE  File!Next
<1> DEFINE D == pos \div BPC .. k - 1
           n == IF k = pos \div BPC THEN 0 ELSE k * BPC - pos
<1>1. Fits(pos, count) /\ clus' = Stored(D, pos, count, v) /\ k \in Writes(pos, count)
  BY DEF WriteNoSpace
<1>2. /\ pos \div BPC \in Nat /\ pos % BPC \in Offset
      /\ pos = (pos \div BPC) * BPC + (pos % BPC)
      /\ (pos + count) \div BPC \in Nat /\ (pos + count) % BPC \in Offset
      /\ pos + count = ((pos + count) \div BPC) * BPC + ((pos + count) % BPC)
  BY DivMod, pos + count \in Nat
<1>3. k \in Nat /\ k >= pos \div BPC /\ k <= (pos + count) \div BPC /\ k * BPC \in Nat
  BY <1>1, <1>2, Sizes DEF Writes
<1>4. D \in SUBSET Writes(pos, count)
  BY <1>2, <1>3 DEF Writes
<1>5. n \in 0 .. count
  <2>1. CASE k = pos \div BPC
    BY <2>1
  <2>2. CASE k > pos \div BPC
    <3>1. (pos \div BPC) * BPC + BPC <= k * BPC /\ (pos \div BPC) * BPC \in Nat
      BY <1>2, <1>3, <2>2, Later
    <3>2. k * BPC <= pos + count
      <4>1. CASE k = (pos + count) \div BPC
        BY <1>2, <1>3, <4>1 DEF Offset
      <4>2. CASE k < (pos + count) \div BPC
        <5>1. /\ k * BPC + BPC <= ((pos + count) \div BPC) * BPC
              /\ ((pos + count) \div BPC) * BPC \in Nat
          BY <1>2, <1>3, <4>2, Later
        <5>2. QED
          BY <1>2, <1>3, <5>1, Sizes DEF Offset
      <4>3. QED
        BY <1>2, <1>3, <4>1, <4>2
    <3>3. pos <= k * BPC
      BY <1>2, <1>3, <3>1, Sizes DEF Offset
    <3>4. QED
      BY <1>3, <2>2, <3>2, <3>3
  <2>3. QED
    BY <1>2, <1>3, <2>1, <2>2
<1>6. ASSUME NEW p \in Nat, p >= pos
      PROVE  p \div BPC \in D <=> p < pos + n
  <2>1. /\ p \div BPC \in Nat /\ p % BPC \in Offset
        /\ p = (p \div BPC) * BPC + (p % BPC) /\ (p \div BPC) * BPC \in Nat
    BY <1>6, DivMod, Sizes
  <2>2. pos \div BPC <= p \div BPC
    BY <1>6, DivMonotone
  <2>3. CASE k = pos \div BPC
    BY <1>2, <1>6, <2>1, <2>2, <2>3
  <2>4. CASE k # pos \div BPC
    <3>1. pos + n = k * BPC
      BY <1>3, <2>4
    <3>2. p < k * BPC <=> p \div BPC < k
      <4>1. CASE p \div BPC < k
        <5>1. (p \div BPC) * BPC + BPC <= k * BPC
          BY <1>3, <2>1, <4>1, Later
        <5>2. QED
          BY <1>3, <2>1, <4>1, <5>1, Sizes DEF Offset
      <4>2. CASE p \div BPC = k
        BY <1>3, <2>1, <4>2 DEF Offset
      <4>3. CASE k < p \div BPC
        <5>1. k * BPC + BPC <= (p \div BPC) * BPC
          BY <1>3, <2>1, <4>3, Later
        <5>2. QED
          BY <1>3, <2>1, <4>3, <5>1, Sizes DEF Offset
      <4>4. QED
        BY <1>3, <2>1, <4>1, <4>2, <4>3
    <3>3. QED
      BY <1>2, <1>3, <2>1, <2>2, <3>1, <3>2
  <2>5. QED
    BY <2>3, <2>4
<1>7. Span(pos, n) = {p \in Span(pos, count) : p \div BPC \in D}
  <2>1. ASSUME NEW p \in Span(pos, n)
        PROVE  p \in Span(pos, count) /\ p \div BPC \in D
    BY <1>5, <1>6 DEF Span
  <2>2. ASSUME NEW p \in Span(pos, count), p \div BPC \in D
        PROVE  p \in Span(pos, n)
    BY <1>5, <1>6, <2>2 DEF Span
  <2>3. QED
    BY <2>1, <2>2
<1>8. File!Write(pos, n, v)
  <2>1. n \in Nat
    BY <1>5
  <2> HIDE DEF D, n
  <2>2. QED
    BY <1>1, <1>4, <1>7, <2>1, FlatWrite
<1>9. QED
  BY <1>1, <1>5, <1>8, FileWriteNext

\* soTruncate keeps what is before the length and brings nothing but zeros.
LEMMA TruncateShorterRefines ==
  ASSUME TypeOK, NEW length \in Lengths, NEW gone \in SUBSET FileCluster,
         TruncateShorter(length, gone)
  PROVE  File!Next
<1>1. /\ length \in Nat /\ Edge(length) \in FileCluster
      /\ DOMAIN clus' = (DOMAIN clus \ gone) \cup {Edge(length)}
      /\ \A p \in Nat : p < length /\ p \div BPC \in DOMAIN clus => p \div BPC \in DOMAIN clus'
      /\ \A p \in Nat : p \div BPC \in DOMAIN clus' =>
           clus'[p \div BPC][p % BPC] =
             IF /\ p \div BPC = Edge(length)
                /\ p >= length \/ Edge(length) \notin DOMAIN clus
               THEN Zero
               ELSE clus[p \div BPC][p % BPC]
  BY CutByte
<1>2. Position \subseteq Nat /\ Given \subseteq Position
  BY DEF Position, Given
<1>3. DOMAIN Flat = Given /\ DOMAIN Flat' = Given'
      /\ \A p \in Given' : Flat'[p] = clus'[p \div BPC][p % BPC]
  BY FlatAt, FlatNext
<1>4. ASSUME NEW p \in Given, p < length
      PROVE  p \in Given' /\ Flat'[p] = Flat[p]
  <2>1. p \in Nat /\ p \in Position /\ p \div BPC \in DOMAIN clus /\ clus[p \div BPC][p % BPC] # Junk
    BY <1>2 DEF Given
  <2>2. p \div BPC \in DOMAIN clus'
    BY <1>1, <1>4, <2>1
  <2>3. clus'[p \div BPC][p % BPC] = clus[p \div BPC][p % BPC]
    BY <1>1, <1>4, <2>1, <2>2
  <2>4. p \in Given'
    BY <2>1, <2>2, <2>3, FlatNext
  <2>5. QED
    BY <1>3, <2>3, <2>4, FlatAt
<1>5. ASSUME NEW p \in Given'
      PROVE  Flat'[p] = Zero \/ (p \in Given /\ Flat'[p] = Flat[p])
  <2>1. p \in Nat /\ p \in Position /\ p \div BPC \in DOMAIN clus' /\ clus'[p \div BPC][p % BPC] # Junk
    BY <1>2, <1>5, FlatNext
  <2>2. CASE clus'[p \div BPC][p % BPC] = Zero
    BY <1>3, <1>5, <2>2
  <2>3. CASE clus'[p \div BPC][p % BPC] # Zero
    <3>1. /\ ~ (p \div BPC = Edge(length) /\ (p >= length \/ Edge(length) \notin DOMAIN clus))
          /\ clus'[p \div BPC][p % BPC] = clus[p \div BPC][p % BPC]
      BY <1>1, <2>1, <2>3
    <3>2. p \div BPC \in DOMAIN clus
      BY <1>1, <2>1, <3>1
    <3>3. p \in Given
      BY <2>1, <3>1, <3>2 DEF Given
    <3>4. QED
      BY <1>3, <1>5, <3>1, <3>3, FlatAt
  <2>4. QED
    BY <2>2, <2>3
<1>6. File!Truncate(length)
  BY <1>3, <1>4, <1>5 DEF File!Truncate
<1>7. length \in 0 .. soGetMaxFileSize
  BY <1>1, MaxType DEF TruncateShorter
<1>8. QED
  BY <1>6, <1>7 DEF File!Next

\* An empty file is an empty ByteFile.
LEMMA InitRefines == Init => File!Init
<1> SUFFICES ASSUME Init PROVE File!Init
  OBVIOUS
<1>1. clus = [i \in {} |-> [x \in Offset |-> Zero]]
  BY DEF Init
<1>2. DOMAIN clus = {}
  BY <1>1
<1>3. Given = {}
  BY <1>2 DEF Given
<1>4. Flat = [p \in {} |-> Zero]
  BY <1>3 DEF Flat, Given
<1>5. QED
  BY <1>4 DEF File!Init

\* Every step is a step of the ByteFile or leaves its bytes alone.
LEMMA NextRefines == TypeOK /\ [Next]_vars => [File!Next]_Flat
<1> SUFFICES ASSUME TypeOK, [Next]_vars PROVE File!Next \/ Flat' = Flat
  OBVIOUS
<1>1. ASSUME clus' = clus PROVE Flat' = Flat
  BY <1>1 DEF Flat, Position, soGetMaxFileSize
<1>2. ASSUME NEW w \in Asked, NEW v \in Tag,
             \/ Write(w[1], w[2], v)
             \/ \E k \in FileCluster : WriteNoSpace(w[1], w[2], v, k)
      PROVE  File!Next
  <2>1. w[1] \in Nat /\ w[2] \in Nat \ {0}
    BY Sizes
  <2>2. QED
    BY <1>2, <2>1, WriteRefines, WriteNoSpaceRefines
<1>3. ASSUME NEW length \in Lengths,
             \/ \E gone \in SUBSET FileCluster : TruncateShorter(length, gone)
             \/ TruncateNoSpace(length) \/ TruncateLonger(length) \/ TruncateAstray(length)
      PROVE  File!Next \/ Flat' = Flat
  <2>1. CASE \E gone \in SUBSET FileCluster : TruncateShorter(length, gone)
    BY <2>1, TruncateShorterRefines
  <2>2. CASE TruncateNoSpace(length) \/ TruncateLonger(length) \/ TruncateAstray(length)
    <3>1. clus' = clus
      BY <2>2 DEF TruncateNoSpace, TruncateLonger, TruncateAstray
    <3>2. QED
      BY <1>1, <3>1
  <2>3. QED
    BY <1>3, <2>1, <2>2
<1>4. ASSUME NEW w \in Asked, WriteBlind(w[1], w[2]) PROVE Flat' = Flat
  BY <1>1, <1>4 DEF WriteBlind
<1>5. CASE UNCHANGED vars
  BY <1>1, <1>5 DEF vars
<1>6. QED
  BY <1>2, <1>3, <1>4, <1>5 DEF Next

-----------------------------------------------------------------------------
(* The theorems *)

\* The invariant holds of every reachable state.
THEOREM Invariance == Spec => []IInv
  BY InitIInv, NextIInv, PTL DEF Spec

\* soWrite and soTruncate keep the types of the size and of the clusters: no
\* cluster is past the last, and the size is a word.
THEOREM TypeCorrect == Spec => []TypeOK
<1>1. IInv => TypeOK
  BY DEF IInv
<1>2. QED
  BY <1>1, Invariance, PTL

\* Every byte soRead copies is the one the last successful soWrite left there,
\* or the 0 of soTruncate.
THEOREM ReadsBackWritten == Spec => []ReadsBack
  BY IInvReadsBack, Invariance, PTL

\* There are never more bytes written than the size says.
THEOREM SizeCoversWritten == Spec => []SizeCovers
<1>1. IInv => SizeCovers
  BY DEF IInv, SizeCovers, Covered
<1>2. QED
  BY <1>1, Invariance, PTL

\* So soRead of bytes that were all written returns them all.
THEOREM ReadsAllWritten == Spec => []ReadsAll
  BY IInvReadsAll, Invariance, PTL

\* soWrite, which may fail half way, and soTruncate implement the ByteFile.
THEOREM ImplementsByteFile == Spec => ByteFileSpec
  BY InitRefines, NextRefines, TypeCorrect, PTL DEF Spec, ByteFileSpec, File!Spec
=============================================================================
