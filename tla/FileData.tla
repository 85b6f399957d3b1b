------------------------------ MODULE FileData ------------------------------
(***************************************************************************)
(* The bytes of one regular file: soRead, soWrite, soTruncate (syscalls)    *)
(* and soReadFileCluster, soWriteFileCluster.                                *)
(*                                                                         *)
(* Below them FileClusters allocates and frees.  Here it is its interface:  *)
(* soAllocFileCluster gives a hole a cluster, whose contents are whatever   *)
(* its last owner left, or throws ENOSPC; soFreeFileClusters(ffcn) frees    *)
(* clusters from ffcn on, not always all of them, and none before ffcn as   *)
(* long as no allocation has thrown half way (FileClusters: AllocOnly,      *)
(* FreesAll, KeepsPrefix).  One that has thrown half way leaves a reference  *)
(* cluster linked and not written: the positions behind it are blind.  What  *)
(* soGetFileCluster answers for them is what that cluster held before, so a  *)
(* call that writes through it, or frees, ends the model.  Every call holds  *)
(* the mutex of sofsmount from its first line to its last, so it is a step.  *)
(*                                                                         *)
(* A byte is a value that names the buffer and the position it was written  *)
(* for, so that a byte copied to a wrong place shows.                        *)
(***************************************************************************)
EXTENDS Integers, FiniteSets

CONSTANTS
  BPC,         \* bytes per cluster
  N_DIRECT, N_INDIRECT, RPC, \* direct, single indirect references, and per cluster
  Word,        \* 2^32: sizes are uint32_t
  Tag,         \* buffers a caller writes
  Asked,       \* the writes callers ask for, pairs of position and count
  Lengths,     \* and the lengths they truncate to
  Zero, Junk   \* a byte that is 0, and one this file has not written

FirstDouble == N_DIRECT + N_INDIRECT * RPC   \* the first double indirect file cluster
MaxClusters == FirstDouble + RPC * RPC       \* the file clusters

ASSUME FileDataAssumption ==
  /\ BPC \in Nat \ {0} /\ Word \in Nat
  /\ N_DIRECT \in Nat \ {0} /\ N_INDIRECT \in Nat \ {0} /\ RPC \in Nat \ {0}
  /\ 2 * BPC * MaxClusters < Word
  /\ \A w \in Asked : w[1] \in Nat /\ w[2] \in Nat \ {0}
  /\ Lengths \subseteq 0 .. BPC * MaxClusters
  /\ Zero # Junk
  /\ \A v \in Tag, p \in 0 .. BPC * MaxClusters - 1 : <<v, p>> \notin {Zero, Junk}

VARIABLES
  size,      \* inode->size
  clus,      \* the contents of the file clusters that are not holes
  known,     \* history: the byte the last successful call left at a position
  huge,      \* history: size has been 2^31 or more
  blind,     \* positions behind a reference cluster that was never written
  undefined  \* what the file holds is not defined any more; the model ends

vars == <<size, clus, known, huge, blind, undefined>>

soGetMaxFileSize == BPC * MaxClusters
FileCluster == 0 .. MaxClusters - 1
Position == 0 .. soGetMaxFileSize - 1
Offset == 0 .. BPC - 1

Byte(v, p) == <<v, p>>
AnyByte == {Byte(v, p) : v \in Tag, p \in Position} \cup {Zero, Junk}
Span(pos, n) == pos .. pos + n - 1
Without(b, S) == [p \in DOMAIN b \ S |-> b[p]]

\* (int) of an unsigned word.
Signed(n) == LET w == n % Word IN IF w < Word \div 2 THEN w ELSE w - Word

Init ==
  /\ size = 0
  /\ clus = [i \in {} |-> [x \in Offset |-> Zero]]
  /\ known = [p \in {} |-> Zero]
  /\ huge = FALSE /\ blind = {} /\ undefined = FALSE

-----------------------------------------------------------------------------
(* Behind one reference cluster: with position i, which is not direct; and    *)
(* behind i2.                                                                 *)
Block(i) == {j \in N_DIRECT .. MaxClusters - 1 : (j - N_DIRECT) \div RPC = (i - N_DIRECT) \div RPC}
Double == FirstDouble .. MaxClusters - 1

\* What gets blind when the allocation for k throws half way, D being the
\* clusters the file has: a reference cluster that was not there is linked, and
\* what was to be written to it is not.
Behind(k, D) ==
  {B \in {Block(k), Double} : k \in B /\ k >= N_DIRECT /\ B \cap (D \cup blind) = {}}

\* soAllocFileCluster throws: at its first soAllocCluster, or half way.
NoSpace(k, D) ==
  \/ blind' = blind
  \/ \E B \in Behind(k, D) : blind' = blind \cup B

\* A reference cluster of i2 with none in its last place: behind its last
\* reference soFreeFileClusters may read past its copy of that cluster.
Ragged ==
  \E i \in Double \ DOMAIN clus :
    (i - N_DIRECT) % RPC = RPC - 1 /\ Block(i) \cap DOMAIN clus # {}

(* soReadFileCluster: a hole reads as zeros, and a blind position as anything. *)
ReadFileCluster(i) ==
  IF i \in DOMAIN clus THEN clus[i]
  ELSE [x \in Offset |-> IF i \in blind THEN Junk ELSE Zero]

(* soRead, for pos + count up to the largest file: what it returns, and what  *)
(* it leaves in buff.  The loop copies from each cluster one piece: from      *)
(* offset From(i), to buff + At(i), Length(i) bytes.  It ends at a hole, and  *)
(* at stop: MaxClusters, or the first blind position whose word is            *)
(* NULL_REFERENCE, or no cluster of the device (what it returns is an error). *)
ReadCount(count) == IF size < count THEN size + 1 ELSE count

From(pos, i) == IF i = pos \div BPC THEN pos % BPC ELSE 0
At(pos, i) == IF i = pos \div BPC THEN 0 ELSE i * BPC - pos
\* A mutant: the last piece is a byte short.
ReadLengthShort(pos, n, i) ==
  IF i = pos \div BPC THEN IF n <= BPC - (pos % BPC) THEN n ELSE BPC - (pos % BPC)
  ELSE IF i = (pos + n - 1) \div BPC THEN (pos + n - 1) % BPC
  ELSE BPC
ReadLength(pos, n, i) ==
  LET idx == pos % BPC
      last == pos + n - 1
  IN  IF i = pos \div BPC
        THEN IF n <= BPC - idx THEN (last % BPC) - idx + 1 ELSE BPC - idx
      ELSE IF i = last \div BPC THEN (last % BPC) + 1
      ELSE BPC

Copied(pos, n, i) ==
  {<<At(pos, i) + x, ReadFileCluster(i)[From(pos, i) + x]>> : x \in 0 .. ReadLength(pos, n, i) - 1}

\* The clusters read before the end, the first hole or stop.
Stop == blind \cup {MaxClusters}
Visited(pos, n, stop) ==
  {i \in pos \div BPC .. (pos + n - 1) \div BPC :
     \A j \in pos \div BPC .. i : j \in (DOMAIN clus \cup blind) \ {stop}}

soRead(pos, count, stop) ==
  LET n == ReadCount(count)
      read == Visited(pos, n, stop)
      holes == (pos \div BPC .. (pos + n - 1) \div BPC) \ read
  IN  IF size = 0 THEN [ret |-> 0, buff |-> {}]
      ELSE [ ret |-> IF holes = {} THEN n
                     ELSE At(pos, CHOOSE i \in holes : \A j \in holes : i <= j),
             buff |-> UNION {Copied(pos, n, i) : i \in read} ]

-----------------------------------------------------------------------------
(* soWrite                                                                    *)

\* The clusters it goes through, the one after the last byte included.
Writes(pos, count) == pos \div BPC .. (pos + count) \div BPC

\* How many bytes it copies into cluster i, from buff + At(pos, i).
WriteLength(pos, count, i) ==
  IF i = pos \div BPC
    THEN IF count > BPC - (pos % BPC) THEN BPC - (pos % BPC) ELSE count
  ELSE IF i = (pos + count) \div BPC THEN count - At(pos, i)
  ELSE BPC

\* Cluster i, new or not, once its part of the buffer is in it.  Of a new one
\* soReadFileCluster reads whatever it held.
Merged(pos, count, v, i) ==
  [x \in Offset |->
     IF x \in Span(From(pos, i), WriteLength(pos, count, i))
       THEN Byte(v, pos + At(pos, i) + x - From(pos, i))
     ELSE IF i \in DOMAIN clus THEN clus[i][x] ELSE Junk]

\* The file with the clusters of D written.
Stored(D, pos, count, v) ==
  [i \in DOMAIN clus \cup D |-> IF i \in D THEN Merged(pos, count, v, i) ELSE clus[i]]

Fits(pos, count) == pos + count < soGetMaxFileSize

\* A mutant: the size grows only with a write that begins at the end or after it.
WriteAppends(pos, count, v) ==
  /\ ~ undefined /\ Fits(pos, count) /\ Writes(pos, count) \cap blind = {}
  /\ clus' = Stored(Writes(pos, count), pos, count, v)
  /\ size' = IF pos >= size THEN (size + count) % Word ELSE size
  /\ huge' = (huge \/ size' >= Word \div 2)
  /\ known' = [p \in DOMAIN known \cup Span(pos, count) |->
                 IF p \in Span(pos, count) THEN Byte(v, p) ELSE known[p]]
  /\ UNCHANGED <<blind, undefined>>
Write(pos, count, v) ==
  /\ ~ undefined /\ Fits(pos, count) /\ Writes(pos, count) \cap blind = {}
  /\ clus' = Stored(Writes(pos, count), pos, count, v)
  /\ size' = (size + count) % Word
  /\ huge' = (huge \/ size' >= Word \div 2)
  /\ known' = [p \in DOMAIN known \cup Span(pos, count) |->
                 IF p \in Span(pos, count) THEN Byte(v, p) ELSE known[p]]
  /\ UNCHANGED <<blind, undefined>>

\* soAllocFileCluster throws at cluster k: the clusters before it are written,
\* and the size is not.  What the write did is not promised to anybody.  (k is no
\* blind position: WriteBlind.)
\* A mutant: the write goes on behind the cluster it did not get.
WriteNoSpaceGoesOn(pos, count, v, k) ==
  LET done == Writes(pos, count) \ {k} IN
  /\ ~ undefined /\ Fits(pos, count) /\ (pos \div BPC .. k) \cap blind = {}
  /\ k \in Writes(pos, count) \ DOMAIN clus
  /\ clus' = Stored(done, pos, count, v)
  /\ known' = Without(known, {p \in Span(pos, count) : p \div BPC \in done})
  /\ NoSpace(k, DOMAIN clus')
  /\ UNCHANGED <<size, huge, undefined>>
WriteNoSpace(pos, count, v, k) ==
  LET done == pos \div BPC .. k - 1 IN
  /\ ~ undefined /\ Fits(pos, count) /\ (pos \div BPC .. k) \cap blind = {}
  /\ k \in Writes(pos, count) \ DOMAIN clus
  /\ clus' = Stored(done, pos, count, v)
  /\ known' = Without(known, {p \in Span(pos, count) : p \div BPC \in done})
  /\ NoSpace(k, DOMAIN clus')
  /\ UNCHANGED <<size, huge, undefined>>

\* It comes to a blind position: the cluster it writes is the one a word that
\* nobody wrote names, another file's or one of this file, or it is allocated in
\* a reference cluster of such words.
WriteBlind(pos, count) ==
  /\ ~ undefined /\ Fits(pos, count) /\ Writes(pos, count) \cap blind # {}
  /\ undefined' = TRUE
  /\ UNCHANGED <<size, clus, known, huge, blind>>

-----------------------------------------------------------------------------
(* soTruncate.  Its cluster is the one that holds, or would hold, the first   *)
(* byte after the new end.                                                    *)

Shrinks(length) == Signed(length - size) < 0
Edge(length) == length \div BPC

\* soReadFileCluster, memset and soWriteFileCluster of that cluster.
\* A mutant: the cluster is written as it was read.
CutUncleared(length) == ReadFileCluster(Edge(length))
Cut(length) ==
  [x \in Offset |-> IF x >= length % BPC THEN Zero ELSE ReadFileCluster(Edge(length))[x]]

\* Where soTruncate has written zeros.
Cleared(length) ==
  {p \in Position : p \div BPC = Edge(length) /\ (p >= length \/ Edge(length) \notin DOMAIN clus)}

Freeable(length) == {i \in DOMAIN clus : i >= Edge(length) + 1}

KnownBelow(length) ==
  [p \in {q \in DOMAIN known : q < length} \cup Cleared(length) |->
     IF p \in Cleared(length) THEN Zero ELSE known[p]]

TruncateShorter(length, gone) ==
  /\ ~ undefined /\ blind = {}
  /\ Shrinks(length) /\ length < soGetMaxFileSize
  /\ gone \subseteq Freeable(length)
  /\ clus' = [i \in (DOMAIN clus \ gone) \cup {Edge(length)} |->
                IF i = Edge(length) THEN Cut(length) ELSE clus[i]]
  /\ size' = length
  /\ known' = KnownBelow(length)
  /\ UNCHANGED <<huge, blind, undefined>>

\* The cluster to write is a hole and there is none to be had.  Nothing has been
\* freed then: what it frees is enough for what it needs.
TruncateNoSpace(length) ==
  /\ ~ undefined /\ blind = {} /\ Shrinks(length) /\ length < soGetMaxFileSize
  /\ Edge(length) \notin DOMAIN clus
  /\ \A i \in DOMAIN clus : i < Edge(length)
  /\ NoSpace(Edge(length), DOMAIN clus)
  /\ UNCHANGED <<size, clus, known, huge, undefined>>

\* The difference is not negative, or 2^31 and more.  The caller of a shorter
\* length is owed the zeros all the same.
TruncateLonger(length) ==
  /\ ~ undefined /\ ~ Shrinks(length) /\ length <= soGetMaxFileSize
  /\ size' = length
  /\ known' = IF length < size THEN KnownBelow(length) ELSE known
  /\ UNCHANGED <<clus, huge, blind, undefined>>

\* Three ways out.  After an allocation that threw half way soFreeFileClusters counts
\* down a csize that is short, and frees a reference cluster it has not looked
\* through.  With a ragged cluster it reads past its array, and frees what it finds
\* there if that begins with NULL_REFERENCE.  And file cluster MaxClusters, which
\* passes the test of soGetFileCluster, is looked for behind the last double
\* reference when the length is that of the largest file.
TruncateAstray(length) ==
  /\ ~ undefined /\ Shrinks(length)
  /\ blind # {} \/ Ragged \/ length = soGetMaxFileSize
  /\ undefined' = TRUE
  /\ UNCHANGED <<size, clus, known, huge, blind>>

Next ==
  \/ \E w \in Asked, v \in Tag :
       \/ Write(w[1], w[2], v)
       \/ \E k \in FileCluster : WriteNoSpace(w[1], w[2], v, k)
  \/ \E w \in Asked : WriteBlind(w[1], w[2])
  \/ \E length \in Lengths :
       \/ \E gone \in SUBSET FileCluster : TruncateShorter(length, gone)
       \/ TruncateNoSpace(length) \/ TruncateLonger(length) \/ TruncateAstray(length)

Spec == Init /\ [][Next]_vars

-----------------------------------------------------------------------------
TypeOK ==
  /\ size \in 0 .. Word - 1
  /\ DOMAIN clus \subseteq FileCluster
  /\ \A i \in DOMAIN clus : DOMAIN clus[i] = Offset /\ \A x \in Offset : clus[i][x] \in AnyByte
  /\ DOMAIN known \subseteq Position
  /\ \A p \in DOMAIN known : known[p] \in AnyByte \ {Junk}
  /\ huge \in BOOLEAN /\ blind \subseteq FileCluster \ DOMAIN clus /\ undefined \in BOOLEAN

\* What is promised to readers, unless the size has passed 2^31 or the model
\* has ended.
Sound == ~ huge /\ ~ undefined

(* Reading gives back what was written.  Every byte soRead copies into its    *)
(* answer, at whatever position and in whatever pieces, is the byte the last  *)
(* successful soWrite put there, or the 0 soTruncate left there.              *)
ReadsBack ==
  Sound =>
    \A pos \in Position : \A count \in 1 .. soGetMaxFileSize - pos, stop \in Stop :
      LET r == soRead(pos, count, stop) IN
      \A e \in r.buff :
        e[1] < count /\ pos + e[1] \in DOMAIN known => e[2] = known[pos + e[1]]

\* Bytes written by a soWrite that succeeded and not cut off since.
Written == {p \in DOMAIN known : known[p] # Zero}

(* The size, which soWrite grows by its count wherever it writes, is no       *)
(* position in the file; but there are never more bytes written than it says. *)
SizeCovers == TypeOK /\ (Sound => Cardinality(Written) <= size)

(* Because of it a read of bytes that were all written is never cut short by  *)
(* soRead's comparison of count with size, nor by a hole.                     *)
ReadsAll ==
  Sound =>
    \A pos \in Position : \A count \in 1 .. soGetMaxFileSize - pos, stop \in Stop :
      Span(pos, count) \subseteq Written =>
        /\ soRead(pos, count, stop).ret = count
        /\ {e[1] : e \in soRead(pos, count, stop).buff} = 0 .. count - 1

(* Violated.  sofsmount.cpp:414 says that a read returns what was asked for    *)
(* except at the end of the file; soRead of more than the file holds answers   *)
(* one byte more than its size, and that from every position.                  *)
ReadStopsAtEnd ==
  Sound => \A pos \in Position : \A count \in 1 .. soGetMaxFileSize - pos :
             soRead(pos, count, MaxClusters).ret <= size

(* The file is a ByteFile: a write changes no byte outside what it was asked  *)
(* to write, and one that fails has written a beginning of it; a truncation   *)
(* keeps every byte before the length, and brings nothing but zeros.          *)
Flat == [p \in {q \in Position : q \div BPC \in DOMAIN clus /\ clus[q \div BPC][q % BPC] # Junk} |->
           clus[p \div BPC][p % BPC]]
File == INSTANCE ByteFile WITH bytes <- Flat, MaxSize <- soGetMaxFileSize
ByteFileSpec == File!Spec
=============================================================================
