------------------------ MODULE FreeClustersProofs ------------------------
(***************************************************************************)
(* Theorems about the list of free clusters, for any number of clusters,    *)
(* any size of the caches and of a reference cluster.                       *)
(*                                                                         *)
(* For each routine there is a lemma that says what it does to every field  *)
(* of the superblock and the chain (the ...Type and ...Is lemmas); all else *)
(* is proved from these, routine by routine, soReplenish and soDeplete as   *)
(* the other one calls them included.  Three invariants build on another:   *)
(*                                                                         *)
(* Counted: the ranges of the fields, and the counters.                     *)
(*                                                                         *)
(* Placed: every cluster is in one place, a slot of a cache, a position of  *)
(* a reference cluster, in use, or in the chain.  In the middle of          *)
(* soDeplete the tail cluster is there twice, on disk and in its array, and *)
(* neither must list what is anywhere else (Buffered).  What soReplenish    *)
(* reads is no place of a reference when the head is no reference cluster   *)
(* (Trusted): Placed says nothing after a call that has touched a stray     *)
(* cluster, but NoDoubleAlloc holds even there.                             *)
(*                                                                         *)
(* Kept: the chain is linked in order from the head cluster to the tail     *)
(* cluster (InOrder), so that the routines touch as the head or the tail    *)
(* cluster a reference cluster, or none, or one that this call has taken    *)
(* off the chain.  It takes a volume whose clusters a uint8_t can number.   *)
(***************************************************************************)
EXTENDS FreeClusters, FiniteSetTheorems, WellFoundedInduction, TLAPS

-----------------------------------------------------------------------------
(* States *)

Cache == [Slot -> OptCluster]
Array == [Position -> OptCluster]
Heads == [ref : Cache, in : 0 .. FCT_CACHE_SIZE, out : Slot,
          cluster_number : OptCluster \cup {1}, cluster_idx : Position]
Tails == [ref : Cache, in : Slot, out : Slot,
          cluster_number : OptCluster \cup {1}, cluster_idx : Position]
States == [cfree : Nat, crefs : Nat, chead : Heads, ctail : Tails,
           disk : [Cluster -> Array], refs : SUBSET Cluster,
           ret : OptCluster, err : {"OK", "ENOSPC", "EINVAL"},
           stray : SUBSET (0 .. Word - 1), deep : BOOLEAN]

\* The locals of soDeplete.
Locals == [ref : Array, index : Slot, z : States]

LEMMA Sizes ==
  /\ CTotal \in Nat \ {0} /\ FCT_CACHE_SIZE \in Nat \ {0, 1}
  /\ RPC \in Nat /\ RPC > FCT_CACHE_SIZE
  /\ Byte \in Nat /\ Byte > FCT_CACHE_SIZE
  /\ Word \in Nat /\ CTotal + 2 < Word
BY FreeClustersAssumption

LEMMA NullIs ==
  /\ NULL_REFERENCE = Word - 1
  /\ NULL_REFERENCE \in Nat /\ NULL_REFERENCE \notin Cluster /\ NULL_REFERENCE >= CTotal
  /\ NULL_REFERENCE \in OptCluster /\ NULL_REFERENCE \in 0 .. Word - 1
<1>1. NULL_REFERENCE = Word - 1
  BY DEF NULL_REFERENCE, Layout!NULL_REFERENCE
<1>2. NULL_REFERENCE \in Nat /\ NULL_REFERENCE >= CTotal
  BY <1>1, Sizes
<1>3. NULL_REFERENCE \in 0 .. Word - 1
  BY <1>1, Sizes
<1> QED BY <1>1, <1>2, <1>3, Sizes DEF Cluster, OptCluster

LEMMA Numbers ==
  /\ \A c \in OptCluster \cup {1} : c \in 0 .. Word - 1 /\ c % Byte \in 0 .. Word - 1
  /\ Cluster \subseteq OptCluster
<1>1. \A c \in OptCluster \cup {1} : c \in 0 .. Word - 1
  BY Sizes, NullIs DEF OptCluster, Cluster
<1>2. \A c \in 0 .. Word - 1 : c % Byte \in 0 .. c
  BY Sizes
<1>3. \A c \in 0 .. Word - 1 : c % Byte \in 0 .. Word - 1
  BY <1>2, Sizes
<1>4. ASSUME NEW c \in OptCluster \cup {1}
      PROVE  c \in 0 .. Word - 1 /\ c % Byte \in 0 .. Word - 1
  BY <1>1, <1>3
<1>5. Cluster \subseteq OptCluster
  BY DEF OptCluster
<1> QED BY <1>4, <1>5

\* The least of some numbers, and the greatest of some that have a bound.
LEMMA SmallestOf ==
  ASSUME NEW S, S \subseteq Nat, S # {}
  PROVE  \E m \in S : \A k \in S : m <= k
<1> DEFINE R == OpToRel(<, Nat)
<1>1. IsWellFoundedOn(R, Nat)
  BY NatLessThanWellFounded DEF OpToRel
<1>2. \A x, y \in Nat : x < y => <<x, y>> \in R
  BY DEF OpToRel
<1> HIDE DEF R
<1>3. PICK x \in S : \A y \in S : ~ (<<y, x>> \in R)
  BY <1>1, WFMin
<1>4. ASSUME NEW k \in S PROVE x <= k
  <2>1. ~ (k < x)
    BY <1>2, <1>3
  <2> QED BY <2>1
<1> QED BY <1>3, <1>4

LEMMA GreatestOf ==
  ASSUME NEW N \in Nat, NEW S, S \subseteq 0 .. N, 0 \in S
  PROVE  Max(S) \in S
<1> DEFINE T == {N - s : s \in S}
<1>1. T \subseteq Nat /\ T # {}
  OBVIOUS
<1>2. PICK m \in T : \A k \in T : m <= k
  <2> HIDE DEF T
  <2> QED BY <1>1, SmallestOf
<1>3. PICK s \in S : m = N - s
  BY <1>2
<1>4. \A x \in S : s >= x
  BY <1>2, <1>3
<1> QED BY <1>4, Zenon DEF Max

-----------------------------------------------------------------------------
(* Slots *)

LEMMA NextType == \A s \in Slot : Next1(s) \in Slot
BY Sizes DEF Next1, Slot

LEMMA AtType == \A s \in Slot, k \in Nat : At(s, k) \in Slot
BY Sizes DEF At, Slot

LEMMA ModSize ==
  ASSUME NEW a \in 0 .. 2 * FCT_CACHE_SIZE - 1
  PROVE  a % FCT_CACHE_SIZE = IF a < FCT_CACHE_SIZE THEN a ELSE a - FCT_CACHE_SIZE
BY Sizes

\* The slots from s on, in order; fewer than a cache apart they differ.
LEMMA AtIs ==
  ASSUME NEW s \in Slot, NEW k \in Slot
  PROVE  At(s, k) = IF s + k < FCT_CACHE_SIZE THEN s + k ELSE s + k - FCT_CACHE_SIZE
BY Sizes, ModSize DEF At, Slot

LEMMA AtInjective ==
  ASSUME NEW s \in Slot, NEW j \in Slot, NEW k \in Slot, At(s, j) = At(s, k)
  PROVE  j = k
BY Sizes, AtIs DEF Slot

LEMMA AtZero == \A s \in Slot : At(s, 0) = s
BY Sizes, AtIs DEF Slot

LEMMA LeastIs ==
  \A m, n \in Int : /\ Least(m, n) \in {m, n}
                    /\ Least(m, n) <= m /\ Least(m, n) <= n
BY DEF Least

LEMMA RunType ==
  ASSUME NEW cache \in Cache, NEW s \in Slot
  PROVE  Run(cache, s) \in 0 .. FCT_CACHE_SIZE
<1> DEFINE S == {n \in 0 .. FCT_CACHE_SIZE :
         \A k \in 0 .. n - 1 : cache[(s + k) % FCT_CACHE_SIZE] # NULL_REFERENCE}
<1>1. S \subseteq 0 .. FCT_CACHE_SIZE /\ 0 \in S
  BY Sizes
<1>2. Run(cache, s) = Max(S)
  BY DEF Run
<1> HIDE DEF S
<1> QED BY <1>1, <1>2, Sizes, GreatestOf

LEMMA RoomType ==
  ASSUME NEW z \in States
  PROVE  RoomInHead(z) \in 0 .. FCT_CACHE_SIZE - z.chead.in
<1> DEFINE S == {n \in 0 .. FCT_CACHE_SIZE - z.chead.in :
         \A k \in 0 .. n - 1 : z.chead.ref[z.chead.in + k] = NULL_REFERENCE}
<1>1. z.chead.in \in 0 .. FCT_CACHE_SIZE
  BY DEF States, Heads
<1>2. S \subseteq 0 .. FCT_CACHE_SIZE - z.chead.in /\ 0 \in S
  BY <1>1, Sizes
<1>3. RoomInHead(z) = Max(S)
  BY DEF RoomInHead
<1> DEFINE N == FCT_CACHE_SIZE - z.chead.in
<1>4. N \in Nat
  BY <1>1, Sizes
<1>5. S \subseteq 0 .. N
  BY <1>2
<1> HIDE DEF S
<1>6. Max(S) \in S
  <2> HIDE DEF N
  <2> QED BY <1>4, <1>5, <1>2, GreatestOf
<1> QED BY <1>2, <1>3, <1>6

LEMMA WithoutType ==
  ASSUME NEW cache \in Cache, NEW s \in Slot, NEW n
  PROVE  Without(cache, s, n) \in Cache
BY NullIs DEF Without, Cache

-----------------------------------------------------------------------------
(* What each operation does to the fields *)

LEMMA SetHead ==
  ASSUME NEW z \in States, NEW h \in Heads
  PROVE  LET y == [z EXCEPT !.chead = h] IN
         /\ y \in States /\ y.chead = h /\ y.ctail = z.ctail
         /\ y.cfree = z.cfree /\ y.crefs = z.crefs
         /\ y.disk = z.disk /\ y.refs = z.refs /\ y.ret = z.ret
         /\ y.err = z.err /\ y.stray = z.stray /\ y.deep = z.deep
BY DEF States

LEMMA SetTail ==
  ASSUME NEW z \in States, NEW t \in Tails
  PROVE  LET y == [z EXCEPT !.ctail = t] IN
         /\ y \in States /\ y.ctail = t /\ y.chead = z.chead
         /\ y.cfree = z.cfree /\ y.crefs = z.crefs
         /\ y.disk = z.disk /\ y.refs = z.refs /\ y.ret = z.ret
         /\ y.err = z.err /\ y.stray = z.stray /\ y.deep = z.deep
BY DEF States

LEMMA TakeType ==
  ASSUME NEW z \in States, z.cfree > 0
  PROVE  LET y == Take(z) IN
         /\ y \in States
         /\ y.chead.ref = [z.chead.ref EXCEPT ![z.chead.out] = NULL_REFERENCE]
         /\ y.chead.in = z.chead.in /\ y.chead.out = Next1(z.chead.out)
         /\ y.chead.cluster_number = z.chead.cluster_number
         /\ y.chead.cluster_idx = z.chead.cluster_idx
         /\ y.ctail = z.ctail
         /\ y.cfree = z.cfree - 1 /\ y.crefs = z.crefs
         /\ y.disk = z.disk /\ y.refs = z.refs /\ y.ret = z.chead.ref[z.chead.out]
         /\ y.err = z.err /\ y.stray = z.stray /\ y.deep = z.deep
<1> DEFINE h == [z.chead EXCEPT !.ref[z.chead.out] = NULL_REFERENCE,
                                !.out = Next1(z.chead.out)]
           a == [z EXCEPT !.ret = z.chead.ref[z.chead.out]]
           b == [a EXCEPT !.chead = h]
           c == [b EXCEPT !.cfree = z.cfree - 1]
<1>1. /\ h \in Heads
      /\ h.ref = [z.chead.ref EXCEPT ![z.chead.out] = NULL_REFERENCE]
      /\ h.in = z.chead.in /\ h.out = Next1(z.chead.out)
      /\ h.cluster_number = z.chead.cluster_number
      /\ h.cluster_idx = z.chead.cluster_idx
  BY NextType, NullIs DEF States, Heads, Cache
<1>2. /\ a \in States /\ a.ret = z.chead.ref[z.chead.out]
      /\ a.chead = z.chead /\ a.ctail = z.ctail
      /\ a.cfree = z.cfree /\ a.crefs = z.crefs
      /\ a.disk = z.disk /\ a.refs = z.refs
      /\ a.err = z.err /\ a.stray = z.stray /\ a.deep = z.deep
  BY DEF States, Heads, Cache
<1>3. Take(z) = c
  BY DEF Take, HeadReference
<1>4. /\ b \in States /\ b.chead = h /\ b.ctail = a.ctail
      /\ b.cfree = a.cfree /\ b.crefs = a.crefs
      /\ b.disk = a.disk /\ b.refs = a.refs /\ b.ret = a.ret
      /\ b.err = a.err /\ b.stray = a.stray /\ b.deep = a.deep
  <2> HIDE DEF a, h
  <2> QED BY <1>1, <1>2, SetHead
<1>5. /\ c \in States /\ c.chead = h /\ c.ctail = a.ctail
      /\ c.cfree = z.cfree - 1 /\ c.crefs = a.crefs
      /\ c.disk = a.disk /\ c.refs = a.refs /\ c.ret = a.ret
      /\ c.err = a.err /\ c.stray = a.stray /\ c.deep = a.deep
  <2> HIDE DEF b
  <2>1. z.cfree - 1 \in Nat
    BY DEF States
  <2> QED BY <1>4, <2>1 DEF States
<1> HIDE DEF a, b, c, h
<1> QED BY <1>1, <1>2, <1>3, <1>5

LEMMA PushType ==
  ASSUME NEW z \in States, NEW cn \in OptCluster
  PROVE  LET y == Push(z, cn) IN
         /\ y \in States
         /\ y.ctail.ref = [z.ctail.ref EXCEPT ![z.ctail.in] = cn]
         /\ y.ctail.in = Next1(z.ctail.in) /\ y.ctail.out = z.ctail.out
         /\ y.ctail.cluster_number = z.ctail.cluster_number
         /\ y.ctail.cluster_idx = z.ctail.cluster_idx
         /\ y.chead = z.chead
         /\ y.cfree = z.cfree /\ y.crefs = z.crefs
         /\ y.disk = z.disk /\ y.refs = z.refs /\ y.ret = z.ret
         /\ y.err = z.err /\ y.stray = z.stray /\ y.deep = z.deep
<1> DEFINE t == [z.ctail EXCEPT !.ref[z.ctail.in] = cn, !.in = Next1(z.ctail.in)]
<1>1. /\ t \in Tails
      /\ t.ref = [z.ctail.ref EXCEPT ![z.ctail.in] = cn]
      /\ t.in = Next1(z.ctail.in) /\ t.out = z.ctail.out
      /\ t.cluster_number = z.ctail.cluster_number
      /\ t.cluster_idx = z.ctail.cluster_idx
  BY NextType, NullIs DEF States, Tails, Cache
<1>2. Push(z, cn) = [z EXCEPT !.ctail = t]
  BY DEF Push
<1> HIDE DEF t
<1> QED BY <1>1, <1>2, SetTail

LEMMA WriteType ==
  ASSUME NEW z \in States, NEW n \in 0 .. Word - 1, NEW ref \in Array
  PROVE  LET y == Write(z, n, ref) IN
         /\ y \in States
         /\ y.chead = z.chead /\ y.ctail = z.ctail
         /\ y.cfree = z.cfree /\ y.crefs = z.crefs
         /\ y.disk = IF n \in z.refs THEN [z.disk EXCEPT ![n] = ref] ELSE z.disk
         /\ y.stray = IF n \in z.refs THEN z.stray ELSE z.stray \cup {n}
         /\ y.refs = z.refs /\ y.ret = z.ret /\ y.err = z.err /\ y.deep = z.deep
<1>1. CASE n \in z.refs
  <2>1. Write(z, n, ref) = [z EXCEPT !.disk[n] = ref]
    BY <1>1 DEF Write
  <2> QED BY <1>1, <2>1 DEF States
<1>2. CASE n \notin z.refs
  <2>1. {n} \ z.refs = {n}
    BY <1>2
  <2>2. Write(z, n, ref) = [z EXCEPT !.stray = z.stray \cup {n}]
    BY <1>2, <2>1 DEF Write, Wild, Stray
  <2> QED BY <1>2, <2>2 DEF States
<1> QED BY <1>1, <1>2

LEMMA StrayType ==
  ASSUME NEW z \in States, NEW S \in SUBSET (0 .. Word - 1)
  PROVE  LET y == Stray(z, S) IN
         /\ y \in States
         /\ y.chead = z.chead /\ y.ctail = z.ctail
         /\ y.cfree = z.cfree /\ y.crefs = z.crefs
         /\ y.disk = z.disk /\ y.stray = z.stray \cup S
         /\ y.refs = z.refs /\ y.ret = z.ret /\ y.err = z.err /\ y.deep = z.deep
BY DEF Stray, States

LEMMA ReadType ==
  ASSUME NEW z \in States, NEW n
  PROVE  /\ Read(z, n) \in Array
         /\ n \in z.refs => Read(z, n) = z.disk[n]
         /\ n \notin z.refs => \A p \in Position : Read(z, n)[p] = NULL_REFERENCE
BY NullIs DEF Read, States, Array

(* References go from the tail cache to the head cache, when there are no     *)
(* reference clusters: by soDeplete, and by soReplenish.                      *)
LEMMA DepleteToHeadCacheType ==
  ASSUME NEW z \in States, NEW n,
         n = Least(Run(z.ctail.ref, z.ctail.out), RoomInHead(z))
  PROVE  LET y == DepleteToHeadCache(z) IN
         /\ n \in 0 .. FCT_CACHE_SIZE - z.chead.in
         /\ y \in States
         /\ y.chead.ref = [s \in Slot |->
              IF s \in z.chead.in .. z.chead.in + n - 1
                THEN z.ctail.ref[At(z.ctail.out, s - z.chead.in)] ELSE z.chead.ref[s]]
         /\ y.chead.in = z.chead.in + n /\ y.chead.out = z.chead.out
         /\ y.chead.cluster_number = z.chead.cluster_number
         /\ y.chead.cluster_idx = z.chead.cluster_idx
         /\ y.ctail.ref = Without(z.ctail.ref, z.ctail.out, n)
         /\ y.ctail.in = z.ctail.in /\ y.ctail.out = At(z.ctail.out, n)
         /\ y.ctail.cluster_number = z.ctail.cluster_number
         /\ y.ctail.cluster_idx = z.ctail.cluster_idx
         /\ y.cfree = z.cfree /\ y.crefs = z.crefs
         /\ y.disk = z.disk /\ y.refs = z.refs /\ y.ret = z.ret
         /\ y.err = z.err /\ y.stray = z.stray /\ y.deep = z.deep
<1>0. /\ z.chead \in Heads /\ z.ctail \in Tails
      /\ z.chead.ref \in Cache /\ z.ctail.ref \in Cache
      /\ z.ctail.out \in Slot /\ z.chead.in \in 0 .. FCT_CACHE_SIZE
  BY DEF States, Heads, Tails
<1>1. n \in 0 .. FCT_CACHE_SIZE - z.chead.in
  BY <1>0, RunType, RoomType, LeastIs, Sizes
<1> DEFINE f == [s \in Slot |->
              IF s \in z.chead.in .. z.chead.in + n - 1
                THEN z.ctail.ref[At(z.ctail.out, s - z.chead.in)] ELSE z.chead.ref[s]]
           g == Without(z.ctail.ref, z.ctail.out, n)
           h == [z.chead EXCEPT !.ref = f, !.in = z.chead.in + n]
           t == [z.ctail EXCEPT !.ref = g, !.out = At(z.ctail.out, n)]
<1>2. f \in Cache
  <2> SUFFICES ASSUME NEW s \in Slot
               PROVE  f[s] \in OptCluster
    BY DEF Cache
  <2>1. CASE s \in z.chead.in .. z.chead.in + n - 1
    <3>1. s - z.chead.in \in Nat
      BY <2>1, <1>0, <1>1, Sizes
    <3>2. At(z.ctail.out, s - z.chead.in) \in Slot
      BY <3>1, <1>0, AtType
    <3> QED BY <3>2, <2>1, <1>0 DEF Cache
  <2>2. CASE s \notin z.chead.in .. z.chead.in + n - 1
    BY <2>2, <1>0 DEF Cache
  <2> QED BY <2>1, <2>2
<1>3. g \in Cache
  BY <1>0, WithoutType
<1>4. DepleteToHeadCache(z) = [[z EXCEPT !.chead = h] EXCEPT !.ctail = t]
  BY Zenon DEF DepleteToHeadCache
<1>5. z.chead.in + n \in 0 .. FCT_CACHE_SIZE /\ At(z.ctail.out, n) \in Slot
  BY <1>0, <1>1, AtType, Sizes
<1>6. /\ h \in Heads /\ h.ref = f /\ h.in = z.chead.in + n /\ h.out = z.chead.out
      /\ h.cluster_number = z.chead.cluster_number
      /\ h.cluster_idx = z.chead.cluster_idx
  <2> HIDE DEF f
  <2> QED BY <1>0, <1>2, <1>5 DEF Heads
<1>7. /\ t \in Tails /\ t.ref = g /\ t.out = At(z.ctail.out, n) /\ t.in = z.ctail.in
      /\ t.cluster_number = z.ctail.cluster_number
      /\ t.cluster_idx = z.ctail.cluster_idx
  <2> HIDE DEF g
  <2> QED BY <1>0, <1>3, <1>5 DEF Tails
<1> HIDE DEF h, t
<1> DEFINE a == [z EXCEPT !.chead = h]
<1>8. /\ a \in States /\ a.chead = h /\ a.ctail = z.ctail
      /\ a.cfree = z.cfree /\ a.crefs = z.crefs
      /\ a.disk = z.disk /\ a.refs = z.refs /\ a.ret = z.ret
      /\ a.err = z.err /\ a.stray = z.stray /\ a.deep = z.deep
  BY <1>6, SetHead
<1> HIDE DEF a
<1> DEFINE b == [a EXCEPT !.ctail = t]
<1>9. /\ b \in States /\ b.ctail = t /\ b.chead = a.chead
      /\ b.cfree = a.cfree /\ b.crefs = a.crefs
      /\ b.disk = a.disk /\ b.refs = a.refs /\ b.ret = a.ret
      /\ b.err = a.err /\ b.stray = a.stray /\ b.deep = a.deep
  BY <1>7, <1>8, SetTail
<1>10. DepleteToHeadCache(z) = b
  BY <1>4 DEF a
<1> HIDE DEF b
<1> QED BY <1>1, <1>6, <1>7, <1>8, <1>9, <1>10

LEMMA ReplenishFromTailCacheType ==
  ASSUME NEW z \in States, NEW n, n = Run(z.ctail.ref, z.ctail.out)
  PROVE  LET y == ReplenishFromTailCache(z) IN
         /\ n \in 0 .. FCT_CACHE_SIZE
         /\ y \in States
         /\ y.chead.ref = [s \in Slot |->
              IF s < n THEN z.ctail.ref[At(z.ctail.out, s)] ELSE z.chead.ref[s]]
         /\ y.chead.out = z.chead.out
         /\ y.chead.cluster_number = z.chead.cluster_number
         /\ y.chead.cluster_idx = z.chead.cluster_idx
         /\ y.ctail.ref = Without(z.ctail.ref, z.ctail.out, n)
         /\ y.ctail.cluster_number = z.ctail.cluster_number
         /\ y.ctail.cluster_idx = z.ctail.cluster_idx
         /\ y.cfree = z.cfree /\ y.crefs = z.crefs
         /\ y.disk = z.disk /\ y.refs = z.refs /\ y.ret = z.ret
         /\ y.err = z.err /\ y.stray = z.stray /\ y.deep = z.deep
<1>0. /\ z.chead \in Heads /\ z.ctail \in Tails
      /\ z.chead.ref \in Cache /\ z.ctail.ref \in Cache /\ z.ctail.out \in Slot
  BY DEF States, Heads, Tails
<1>1. n \in 0 .. FCT_CACHE_SIZE
  BY <1>0, RunType
<1> DEFINE f == [s \in Slot |->
              IF s < n THEN z.ctail.ref[At(z.ctail.out, s)] ELSE z.chead.ref[s]]
           g == Without(z.ctail.ref, z.ctail.out, n)
           h == [z.chead EXCEPT !.ref = f, !.in = n % FCT_CACHE_SIZE]
           t == [z.ctail EXCEPT !.ref = g, !.out = At(z.ctail.out, n)]
<1>2. f \in Cache
  <2> SUFFICES ASSUME NEW s \in Slot
               PROVE  f[s] \in OptCluster
    BY DEF Cache
  <2>1. s \in Nat
    BY DEF Slot
  <2>2. At(z.ctail.out, s) \in Slot
    BY <1>0, <2>1, AtType
  <2> QED BY <2>2, <1>0 DEF Cache
<1>3. g \in Cache
  BY <1>0, WithoutType
<1>4. ReplenishFromTailCache(z) = [[z EXCEPT !.chead = h] EXCEPT !.ctail = t]
  BY Zenon DEF ReplenishFromTailCache
<1>5. n % FCT_CACHE_SIZE \in 0 .. FCT_CACHE_SIZE /\ At(z.ctail.out, n) \in Slot
  BY <1>0, <1>1, AtType, Sizes
<1>6. /\ h \in Heads /\ h.ref = f /\ h.out = z.chead.out
      /\ h.cluster_number = z.chead.cluster_number
      /\ h.cluster_idx = z.chead.cluster_idx
  <2> HIDE DEF f
  <2> QED BY <1>0, <1>2, <1>5 DEF Heads
<1>7. /\ t \in Tails /\ t.ref = g /\ t.in = z.ctail.in
      /\ t.cluster_number = z.ctail.cluster_number
      /\ t.cluster_idx = z.ctail.cluster_idx
  <2> HIDE DEF g
  <2> QED BY <1>0, <1>3, <1>5 DEF Tails
<1> HIDE DEF h, t
<1> DEFINE a == [z EXCEPT !.chead = h]
<1>8. /\ a \in States /\ a.chead = h /\ a.ctail = z.ctail
      /\ a.cfree = z.cfree /\ a.crefs = z.crefs
      /\ a.disk = z.disk /\ a.refs = z.refs /\ a.ret = z.ret
      /\ a.err = z.err /\ a.stray = z.stray /\ a.deep = z.deep
  BY <1>6, SetHead
<1> HIDE DEF a
<1> DEFINE b == [a EXCEPT !.ctail = t]
<1>9. /\ b \in States /\ b.ctail = t /\ b.chead = a.chead
      /\ b.cfree = a.cfree /\ b.crefs = a.crefs
      /\ b.disk = a.disk /\ b.refs = a.refs /\ b.ret = a.ret
      /\ b.err = a.err /\ b.stray = a.stray /\ b.deep = a.deep
  BY <1>7, <1>8, SetTail
<1>10. ReplenishFromTailCache(z) = b
  BY <1>4 DEF a
<1> HIDE DEF b
<1> QED BY <1>1, <1>6, <1>7, <1>8, <1>9, <1>10

(* How many references go from the tail cache to the tail cluster. *)
Fill(w) == Least(Run(w.z.ctail.ref, w.index), RPC - 1 - w.z.ctail.cluster_idx)

LEMMA FillTailClusterType ==
  ASSUME NEW w \in Locals
  PROVE  LET n == Fill(w)
             first == w.z.ctail.cluster_idx
             y == FillTailCluster(w) IN
         /\ n \in 0 .. FCT_CACHE_SIZE /\ first \in Nat /\ first + n \in Position
         /\ y \in Locals
         /\ y.ref = [p \in Position |-> IF p \in first .. first + n - 1
                       THEN w.z.ctail.ref[At(w.index, p - first)] ELSE w.ref[p]]
         /\ y.index = At(w.index, n)
         /\ y.z.ctail.ref = Without(w.z.ctail.ref, w.index, n)
         /\ y.z.ctail.in = w.z.ctail.in /\ y.z.ctail.out = w.z.ctail.out
         /\ y.z.ctail.cluster_number = w.z.ctail.cluster_number
         /\ y.z.ctail.cluster_idx = first + n
         /\ y.z.chead = w.z.chead
         /\ y.z.cfree = w.z.cfree /\ y.z.crefs = w.z.crefs
         /\ y.z.disk = w.z.disk /\ y.z.refs = w.z.refs /\ y.z.ret = w.z.ret
         /\ y.z.err = w.z.err /\ y.z.stray = w.z.stray /\ y.z.deep = w.z.deep
<1> DEFINE z == w.z
           n == Fill(w)
           first == z.ctail.cluster_idx
<1>0. /\ z \in States /\ w.ref \in Array /\ w.index \in Slot
      /\ z.ctail \in Tails /\ z.ctail.ref \in Cache /\ first \in Position
  BY DEF Locals, States, Tails
<1>1. /\ n \in 0 .. FCT_CACHE_SIZE /\ first \in Nat /\ first + n \in Position
  BY <1>0, RunType, LeastIs, Sizes DEF Fill, Position
<1> DEFINE f == [p \in Position |-> IF p \in first .. first + n - 1
                       THEN z.ctail.ref[At(w.index, p - first)] ELSE w.ref[p]]
           g == Without(z.ctail.ref, w.index, n)
           t == [z.ctail EXCEPT !.ref = g, !.cluster_idx = first + n]
<1>2. FillTailCluster(w) = [ref |-> f, index |-> At(w.index, n), z |-> [z EXCEPT !.ctail = t]]
  BY Zenon DEF FillTailCluster, Fill
<1> HIDE DEF z, n
<1>3. f \in Array
  <2> SUFFICES ASSUME NEW p \in Position
               PROVE  f[p] \in OptCluster
    BY DEF Array
  <2>1. CASE p \in first .. first + n - 1
    <3>1. p - first \in Nat
      BY <2>1, <1>1
    <3>2. At(w.index, p - first) \in Slot
      BY <3>1, <1>0, AtType
    <3> QED BY <3>2, <2>1, <1>0 DEF Cache
  <2>2. CASE p \notin first .. first + n - 1
    BY <2>2, <1>0 DEF Array
  <2> QED BY <2>1, <2>2
<1>4. g \in Cache
  BY <1>0, WithoutType
<1>5. At(w.index, n) \in Slot
  BY <1>0, <1>1, AtType
<1>6. /\ t \in Tails /\ t.ref = g /\ t.in = z.ctail.in /\ t.out = z.ctail.out
      /\ t.cluster_number = z.ctail.cluster_number
      /\ t.cluster_idx = first + n
  <2> HIDE DEF g
  <2> QED BY <1>0, <1>1, <1>4 DEF Tails
<1> HIDE DEF t
<1> DEFINE a == [z EXCEPT !.ctail = t]
<1>7. /\ a \in States /\ a.ctail = t /\ a.chead = z.chead
      /\ a.cfree = z.cfree /\ a.crefs = z.crefs
      /\ a.disk = z.disk /\ a.refs = z.refs /\ a.ret = z.ret
      /\ a.err = z.err /\ a.stray = z.stray /\ a.deep = z.deep
  BY <1>0, <1>6, SetTail
<1> HIDE DEF a, f, g
<1> DEFINE y == [ref |-> f, index |-> At(w.index, n), z |-> a]
<1>8. y \in Locals /\ y.ref = f /\ y.index = At(w.index, n) /\ y.z = a
  BY <1>3, <1>5, <1>7 DEF Locals
<1>9. FillTailCluster(w) = y
  BY <1>2 DEF a
<1> HIDE DEF y
<1> QED BY <1>1, <1>6, <1>7, <1>8, <1>9 DEF f, g, n, z

(* The tail cluster full and another allocated, y being what that call has    *)
(* left and answered.                                                         *)
Extended(w, y) ==
  LET c == y.ret
      linked == Write([y EXCEPT !.crefs = @ + 1], y.ctail.cluster_number,
                      [w.ref EXCEPT ![RPC - 1] = c])
  IN  [ ref |-> [p \in Position |-> IF p = 0 THEN y.ctail.ref[w.index]
                                    ELSE NULL_REFERENCE],
        index |-> Next1(w.index),
        z |-> [linked EXCEPT !.ctail.cluster_number = c,
                             !.ctail.cluster_idx = 1,
                             !.ctail.ref[w.index] = NULL_REFERENCE,
                             !.refs = (@ \cup {c}) \ {NULL_REFERENCE}] ]

LEMMA ExtendedType ==
  ASSUME NEW w \in Locals, NEW y \in States
  PROVE  LET c == y.ret
             t == y.ctail.cluster_number
             e == Extended(w, y) IN
         /\ e \in Locals
         /\ e.ref = [p \in Position |-> IF p = 0 THEN y.ctail.ref[w.index]
                                        ELSE NULL_REFERENCE]
         /\ e.index = Next1(w.index)
         /\ e.z.ctail.ref = [y.ctail.ref EXCEPT ![w.index] = NULL_REFERENCE]
         /\ e.z.ctail.in = y.ctail.in /\ e.z.ctail.out = y.ctail.out
         /\ e.z.ctail.cluster_number = c /\ e.z.ctail.cluster_idx = 1
         /\ e.z.chead = y.chead
         /\ e.z.cfree = y.cfree /\ e.z.crefs = y.crefs + 1
         /\ e.z.disk = IF t \in y.refs
                         THEN [y.disk EXCEPT ![t] = [w.ref EXCEPT ![RPC - 1] = c]]
                         ELSE y.disk
         /\ e.z.stray = IF t \in y.refs THEN y.stray ELSE y.stray \cup {t}
         /\ e.z.refs = (y.refs \cup {c}) \ {NULL_REFERENCE}
         /\ e.z.ret = y.ret /\ e.z.err = y.err /\ e.z.deep = y.deep
<1> DEFINE c == y.ret
           t == y.ctail.cluster_number
           last == [w.ref EXCEPT ![RPC - 1] = c]
           a == [y EXCEPT !.crefs = y.crefs + 1]
           b == Write(a, t, last)
           first == [p \in Position |-> IF p = 0 THEN y.ctail.ref[w.index]
                                        ELSE NULL_REFERENCE]
           k1 == [b.ctail EXCEPT !.cluster_number = c]
           d1 == [b EXCEPT !.ctail = k1]
           k2 == [d1.ctail EXCEPT !.cluster_idx = 1]
           d2 == [d1 EXCEPT !.ctail = k2]
           k == [d2.ctail EXCEPT !.ref[w.index] = NULL_REFERENCE]
           d == [d2 EXCEPT !.ctail = k]
           R == (b.refs \cup {c}) \ {NULL_REFERENCE}
           x == [d EXCEPT !.refs = R]
           e == [ref |-> first, index |-> Next1(w.index), z |-> x]
<1>14. Extended(w, y) = e
  BY DEF Extended
<1>0. /\ w.ref \in Array /\ w.index \in Slot
      /\ y.ctail \in Tails /\ y.ctail.ref \in Cache /\ c \in OptCluster
      /\ y.refs \subseteq Cluster
  BY DEF Locals, States, Tails
<1>1. t \in 0 .. Word - 1
  BY <1>0, Numbers DEF Tails
<1>2. last \in Array
  BY <1>0, Sizes DEF Array, Position
<1>3. /\ a \in States /\ a.ctail = y.ctail /\ a.chead = y.chead
      /\ a.cfree = y.cfree /\ a.crefs = y.crefs + 1
      /\ a.disk = y.disk /\ a.refs = y.refs /\ a.ret = y.ret
      /\ a.err = y.err /\ a.stray = y.stray /\ a.deep = y.deep
  BY DEF States
<1> HIDE DEF a, last, c, t, e, x, R, first
<1>4. /\ b \in States
      /\ b.chead = a.chead /\ b.ctail = a.ctail
      /\ b.cfree = a.cfree /\ b.crefs = a.crefs
      /\ b.disk = IF t \in a.refs THEN [a.disk EXCEPT ![t] = last] ELSE a.disk
      /\ b.stray = IF t \in a.refs THEN a.stray ELSE a.stray \cup {t}
      /\ b.refs = a.refs /\ b.ret = a.ret /\ b.err = a.err /\ b.deep = a.deep
  BY <1>1, <1>2, <1>3, WriteType
<1> HIDE DEF b, d, d1, d2, k, k1, k2
<1>6. first \in Array
  <2> SUFFICES ASSUME NEW p \in Position PROVE first[p] \in OptCluster
    BY DEF Array, first
  <2> QED BY <1>0, NullIs DEF Cache, first
<1>7. b.ctail = y.ctail
  BY <1>3, <1>4
<1>8. 1 \in Position /\ Next1(w.index) \in Slot
  BY <1>0, NextType, Sizes DEF Position
<1>9. /\ k1 \in Tails /\ k1.ref = y.ctail.ref
      /\ k1.in = y.ctail.in /\ k1.out = y.ctail.out
      /\ k1.cluster_number = c
  BY <1>0, <1>7 DEF Tails, k1
<1>10. /\ d1 \in States /\ d1.ctail = k1 /\ d1.chead = b.chead
       /\ d1.cfree = b.cfree /\ d1.crefs = b.crefs
       /\ d1.disk = b.disk /\ d1.refs = b.refs /\ d1.ret = b.ret
       /\ d1.err = b.err /\ d1.stray = b.stray /\ d1.deep = b.deep
  BY <1>4, <1>9, SetTail DEF d1
<1>18. /\ k2 \in Tails /\ k2.ref = y.ctail.ref
       /\ k2.in = y.ctail.in /\ k2.out = y.ctail.out
       /\ k2.cluster_number = c /\ k2.cluster_idx = 1
  BY <1>8, <1>9, <1>10 DEF Tails, k2
<1>19. /\ d2 \in States /\ d2.ctail = k2 /\ d2.chead = b.chead
       /\ d2.cfree = b.cfree /\ d2.crefs = b.crefs
       /\ d2.disk = b.disk /\ d2.refs = b.refs /\ d2.ret = b.ret
       /\ d2.err = b.err /\ d2.stray = b.stray /\ d2.deep = b.deep
  BY <1>10, <1>18, SetTail DEF d2
<1>20. /\ k \in Tails /\ k.ref = [y.ctail.ref EXCEPT ![w.index] = NULL_REFERENCE]
       /\ k.in = y.ctail.in /\ k.out = y.ctail.out
       /\ k.cluster_number = c /\ k.cluster_idx = 1
  BY <1>0, <1>18, <1>19, NullIs DEF Tails, Cache, k
<1>21. /\ d \in States /\ d.ctail = k /\ d.chead = b.chead
       /\ d.cfree = b.cfree /\ d.crefs = b.crefs
       /\ d.disk = b.disk /\ d.refs = b.refs /\ d.ret = b.ret
       /\ d.err = b.err /\ d.stray = b.stray /\ d.deep = b.deep
  BY <1>19, <1>20, SetTail DEF d
<1>11. R \subseteq Cluster
  BY <1>0, <1>3, <1>4 DEF OptCluster, R
<1>12. /\ x \in States /\ x.ctail = k /\ x.chead = d.chead
       /\ x.cfree = d.cfree /\ x.crefs = d.crefs
       /\ x.disk = d.disk /\ x.refs = R /\ x.ret = d.ret
       /\ x.err = d.err /\ x.stray = d.stray /\ x.deep = d.deep
  BY <1>21, <1>11 DEF States, x
<1>13. e \in Locals /\ e.ref = first /\ e.index = Next1(w.index) /\ e.z = x
  BY <1>6, <1>8, <1>12 DEF Locals, e
<1>15. e.z.refs = (y.refs \cup {c}) \ {NULL_REFERENCE}
  BY <1>13, <1>12, <1>4, <1>3 DEF R
<1>16. /\ e.z.disk = IF t \in y.refs THEN [y.disk EXCEPT ![t] = last] ELSE y.disk
       /\ e.z.stray = IF t \in y.refs THEN y.stray ELSE y.stray \cup {t}
  BY <1>13, <1>12, <1>21, <1>4, <1>3
<1>17. /\ e.z.ctail = k /\ e.z.chead = y.chead
       /\ e.z.cfree = y.cfree /\ e.z.crefs = y.crefs + 1
       /\ e.z.ret = y.ret /\ e.z.err = y.err /\ e.z.deep = y.deep
  BY <1>13, <1>12, <1>21, <1>4, <1>3
<1> QED BY <1>20, <1>13, <1>14, <1>15, <1>16, <1>17 DEF first, last, c, t

\* soDeplete with the tail cluster read, and with what it holds written.
Opened(z) == [ z |-> Wild(z, z.ctail.cluster_number), ref |-> Read(z, z.ctail.cluster_number),
               index |-> z.ctail.out ]
Finished(w) == [Write(w.z, w.z.ctail.cluster_number, w.ref)
                  EXCEPT !.ctail.out = w.index, !.deep = @ \/ More(w)]
Started(z) == FillTailCluster(Opened(z))

\* soDeplete with reference clusters, y being the result of soAllocCluster.
Depleted(z, y) ==
  IF ~ More(Started(z)) THEN Finished(Started(z))
  ELSE IF Threw(y) THEN y
  ELSE Finished(FillTailCluster(Extended(Started(z), y)))

LEMMA OpenedType ==
  ASSUME NEW z \in States
  PROVE  LET o == Opened(z)
             t == z.ctail.cluster_number IN
         /\ o \in Locals /\ o.ref = Read(z, t) /\ o.index = z.ctail.out
         /\ o.z.chead = z.chead /\ o.z.ctail = z.ctail
         /\ o.z.cfree = z.cfree /\ o.z.crefs = z.crefs
         /\ o.z.disk = z.disk /\ o.z.stray = z.stray \cup ({t} \ z.refs)
         /\ o.z.refs = z.refs /\ o.z.ret = z.ret /\ o.z.err = z.err /\ o.z.deep = z.deep
<1> DEFINE t == z.ctail.cluster_number
<1>1. t \in 0 .. Word - 1 /\ z.ctail.out \in Slot
  BY Numbers DEF States, Tails
<1>2. {t} \ z.refs \in SUBSET (0 .. Word - 1)
  BY <1>1
<1> HIDE DEF t
<1> DEFINE a == Stray(z, {t} \ z.refs)
<1>3. /\ a \in States
      /\ a.chead = z.chead /\ a.ctail = z.ctail
      /\ a.cfree = z.cfree /\ a.crefs = z.crefs
      /\ a.disk = z.disk /\ a.stray = z.stray \cup ({t} \ z.refs)
      /\ a.refs = z.refs /\ a.ret = z.ret /\ a.err = z.err /\ a.deep = z.deep
  BY <1>2, StrayType
<1>4. Read(z, t) \in Array
  BY ReadType
<1> HIDE DEF a
<1> DEFINE o == [z |-> a, ref |-> Read(z, t), index |-> z.ctail.out]
<1>5. Opened(z) = o
  BY DEF Opened, Wild, a, t
<1>6. o \in Locals /\ o.ref = Read(z, t) /\ o.index = z.ctail.out /\ o.z = a
  BY <1>1, <1>3, <1>4 DEF Locals
<1> HIDE DEF o
<1> QED BY <1>3, <1>5, <1>6 DEF t

LEMMA FinishedType ==
  ASSUME NEW w \in Locals
  PROVE  LET y == Finished(w)
             z == w.z
             t == z.ctail.cluster_number IN
         /\ y \in States
         /\ y.chead = z.chead
         /\ y.ctail.ref = z.ctail.ref /\ y.ctail.in = z.ctail.in
         /\ y.ctail.out = w.index
         /\ y.ctail.cluster_number = t /\ y.ctail.cluster_idx = z.ctail.cluster_idx
         /\ y.cfree = z.cfree /\ y.crefs = z.crefs
         /\ y.disk = IF t \in z.refs THEN [z.disk EXCEPT ![t] = w.ref] ELSE z.disk
         /\ y.stray = IF t \in z.refs THEN z.stray ELSE z.stray \cup {t}
         /\ y.refs = z.refs /\ y.ret = z.ret /\ y.err = z.err
         /\ y.deep = (z.deep \/ More(w))
<1> DEFINE z == w.z
           t == z.ctail.cluster_number
           b == Write(z, t, w.ref)
           k == [b.ctail EXCEPT !.out = w.index]
           d == [b EXCEPT !.ctail = k]
           m == (b.deep \/ More(w))
           x == [d EXCEPT !.deep = m]
<1>0. z \in States /\ w.ref \in Array /\ w.index \in Slot
  BY DEF Locals
<1>1. t \in 0 .. Word - 1
  BY <1>0, Numbers DEF States, Tails
<1>2. Finished(w) = x
  BY DEF Finished
<1> HIDE DEF z, t, x, m, k, d
<1>3. /\ b \in States
      /\ b.chead = z.chead /\ b.ctail = z.ctail
      /\ b.cfree = z.cfree /\ b.crefs = z.crefs
      /\ b.disk = IF t \in z.refs THEN [z.disk EXCEPT ![t] = w.ref] ELSE z.disk
      /\ b.stray = IF t \in z.refs THEN z.stray ELSE z.stray \cup {t}
      /\ b.refs = z.refs /\ b.ret = z.ret /\ b.err = z.err /\ b.deep = z.deep
  BY <1>0, <1>1, WriteType
<1> HIDE DEF b
<1>4. /\ k \in Tails /\ k.ref = z.ctail.ref /\ k.in = z.ctail.in /\ k.out = w.index
      /\ k.cluster_number = z.ctail.cluster_number
      /\ k.cluster_idx = z.ctail.cluster_idx
  BY <1>0, <1>3 DEF States, Tails, k
<1>5. /\ d \in States /\ d.ctail = k /\ d.chead = b.chead
      /\ d.cfree = b.cfree /\ d.crefs = b.crefs
      /\ d.disk = b.disk /\ d.refs = b.refs /\ d.ret = b.ret
      /\ d.err = b.err /\ d.stray = b.stray /\ d.deep = b.deep
  BY <1>3, <1>4, SetTail DEF d
<1>6. m \in BOOLEAN
  BY DEF m
<1>7. /\ x \in States /\ x.ctail = k /\ x.chead = d.chead
      /\ x.cfree = d.cfree /\ x.crefs = d.crefs
      /\ x.disk = d.disk /\ x.refs = d.refs /\ x.ret = d.ret
      /\ x.err = d.err /\ x.stray = d.stray /\ x.deep = m
  BY <1>5, <1>6 DEF States, x
<1>8. m = (z.deep \/ More(w))
  BY <1>3 DEF m
<1>9. /\ x.disk = IF t \in z.refs THEN [z.disk EXCEPT ![t] = w.ref] ELSE z.disk
      /\ x.stray = IF t \in z.refs THEN z.stray ELSE z.stray \cup {t}
      /\ x.chead = z.chead /\ x.cfree = z.cfree /\ x.crefs = z.crefs
      /\ x.refs = z.refs /\ x.ret = z.ret /\ x.err = z.err
  BY <1>3, <1>5, <1>7
<1>10. x.deep = (z.deep \/ More(w))
  BY <1>7, <1>8
<1> QED BY <1>2, <1>4, <1>7, <1>9, <1>10 DEF z, t

LEMMA DepletedIs ==
  ASSUME NEW z \in States, z.err = "OK", NEW y \in States,
         NEW w2, w2 = IF Threw(y) THEN [Started(z) EXCEPT !.z = y] ELSE Extended(Started(z), y),
         NEW w3, w3 = IF ~ More(Started(z)) THEN Started(z)
                      ELSE IF Threw(w2.z) THEN w2 ELSE FillTailCluster(w2)
  PROVE  Depleted(z, y) = IF Threw(w3.z) THEN w3.z ELSE Finished(w3)
<1> DEFINE w1 == Started(z)
<1>1. w1 \in Locals /\ w1.z.err = "OK"
  <2>1. Opened(z) \in Locals /\ Opened(z).z.err = "OK"
    BY OpenedType
  <2> QED BY <2>1, FillTailClusterType DEF Started
<1>2. [w1 EXCEPT !.z = y].z = y
  BY <1>1 DEF Locals
<1> HIDE DEF w1
<1>3. CASE ~ More(w1)
  BY <1>1, <1>3 DEF Depleted, Threw, w1
<1>4. CASE More(w1) /\ Threw(y)
  BY <1>2, <1>4 DEF Depleted, w1
<1>5. CASE More(w1) /\ ~ Threw(y)
  <2>1. w2 = Extended(w1, y) /\ w2 \in Locals /\ w2.z.err = y.err
    <3>1. Extended(w1, y) \in Locals /\ Extended(w1, y).z.err = y.err
      BY ZenonT(60), <1>1, ExtendedType
    <3>2. w2 = Extended(w1, y)
      BY <1>5 DEF w1
    <3> QED BY <3>1, <3>2
  <2>2. ~ Threw(w2.z)
    BY <2>1, <1>5 DEF Threw
  <2>3. w3 = FillTailCluster(w2)
    BY <2>2, <1>5 DEF w1
  <2>4. w3.z.err = w2.z.err
    BY <2>1, <2>3, FillTailClusterType
  <2> QED BY <2>1, <2>2, <2>3, <2>4, <1>5 DEF Depleted, Threw, w1
<1> QED BY <1>3, <1>4, <1>5

LEMMA DepleteIs ==
  ASSUME NEW z \in States, z.err = "OK", z.crefs # 0,
         z.ctail.ref[z.ctail.out] # NULL_REFERENCE
  PROVE  /\ InnerAlloc(Started(z).z) \in States =>
              InnerDeplete(z) = Depleted(z, InnerAlloc(Started(z).z))
         /\ soAllocCluster(Started(z).z) \in States =>
              soDeplete(z) = Depleted(z, soAllocCluster(Started(z).z))
<1> DEFINE w2(y) == IF Threw(y) THEN [Started(z) EXCEPT !.z = y] ELSE Extended(Started(z), y)
           w3(y) == IF ~ More(Started(z)) THEN Started(z)
                    ELSE IF Threw(w2(y).z) THEN w2(y) ELSE FillTailCluster(w2(y))
           x(y) == IF Threw(w3(y).z) THEN w3(y).z ELSE Finished(w3(y))
<1>1. InnerDeplete(z) = x(InnerAlloc(Started(z).z))
  BY DEF InnerDeplete, Deplete, DepleteToTailCluster, ExtendChain, Extended, Started, Opened,
         Finished
<1>2. soDeplete(z) = x(soAllocCluster(Started(z).z))
  BY DEF soDeplete, Deplete, DepleteToTailCluster, ExtendChain, Extended, Started, Opened,
         Finished
<1>3. ASSUME NEW y \in States
      PROVE  x(y) = Depleted(z, y)
  <2> DEFINE v2 == w2(y)
             v3 == w3(y)
  <2>1. /\ v2 = IF Threw(y) THEN [Started(z) EXCEPT !.z = y] ELSE Extended(Started(z), y)
        /\ v3 = IF ~ More(Started(z)) THEN Started(z)
                ELSE IF Threw(v2.z) THEN v2 ELSE FillTailCluster(v2)
        /\ x(y) = IF Threw(v3.z) THEN v3.z ELSE Finished(v3)
    OBVIOUS
  <2> HIDE DEF v2, v3, w2, w3, x
  <2>2. Depleted(z, y) = IF Threw(v3.z) THEN v3.z ELSE Finished(v3)
    BY ZenonT(60), <2>1, DepletedIs
  <2> QED BY <2>1, <2>2
<1> HIDE DEF x
<1> QED BY <1>1, <1>2, <1>3

-----------------------------------------------------------------------------
(* soReplenish from the head cluster *)

ToLink(z) == RPC - 1 - z.chead.cluster_idx

\* How many references go to the head cache, and what of the cluster stays.
Moving(z) == Least(FCT_CACHE_SIZE, Least(ToLink(z), Left(z)))
Source(z) == Read(z, z.chead.cluster_number % Byte)
Rest(z) ==
  LET h == z.chead.cluster_idx
      n == Moving(z)
      ref0 == Source(z)
  IN  [p \in Position |-> IF p \in h .. h + n - 1 THEN NULL_REFERENCE ELSE ref0[p]]
Moved(z) ==
  LET c == z.chead.cluster_number
      h == z.chead.cluster_idx
      n == Moving(z)
      ref0 == Source(z)
  IN  [Stray(Wild(z, c), {c % Byte} \ {c}) EXCEPT
         !.chead.ref = [s \in Slot |-> IF s < n THEN ref0[h + s] ELSE @[s]],
         !.chead.cluster_idx = h + n]

\* The three ends, d being what soDeplete has left.
Linked(z, d) ==
  [Retire(Write(d, z.chead.cluster_number, [Rest(z) EXCEPT ![RPC - 1] = NULL_REFERENCE]))
     EXCEPT !.chead.cluster_number = Rest(z)[RPC - 1]]
Ended(z) ==
  [Retire(Write(Moved(z), z.chead.cluster_number, Rest(z))) EXCEPT
     !.chead.cluster_number = NULL_REFERENCE,
     !.ctail.cluster_number = NULL_REFERENCE,
     !.ctail.cluster_idx = 0]
Filled(z) == Write(Moved(z), z.chead.cluster_number, Rest(z))
Refilled(z, d) ==
  LET n == Moving(z)
      y == IF n = ToLink(z) THEN Linked(z, d)
           ELSE IF n = Left(z) /\ n < FCT_CACHE_SIZE THEN Ended(z)
           ELSE Filled(z)
  IN  IF n = ToLink(z) /\ Threw(d) THEN d
      ELSE [y EXCEPT !.chead.in = n % FCT_CACHE_SIZE]

LEMMA MovingType ==
  ASSUME NEW z \in States
  PROVE  /\ z.chead.cluster_idx \in Position
         /\ Moving(z) \in 0 .. FCT_CACHE_SIZE
         /\ z.chead.cluster_idx + Moving(z) \in Position
         /\ Moving(z) <= ToLink(z)
<1>1. /\ z.chead.cluster_idx \in Position /\ z.ctail.cluster_idx \in Position
      /\ z.chead.cluster_number \in Int /\ z.ctail.cluster_number \in Int
  BY Numbers DEF States, Heads, Tails
<1>2. Left(z) \in Nat
  BY <1>1, Sizes DEF Left, Position
<1>3. ToLink(z) \in Nat /\ ToLink(z) = RPC - 1 - z.chead.cluster_idx
  BY <1>1, Sizes DEF ToLink, Position
<1>4. Least(ToLink(z), Left(z)) \in Nat /\ Least(ToLink(z), Left(z)) <= ToLink(z)
  BY <1>2, <1>3, LeastIs
<1>5. Moving(z) \in 0 .. FCT_CACHE_SIZE /\ Moving(z) <= Least(ToLink(z), Left(z))
  BY <1>4, LeastIs, Sizes DEF Moving
<1> QED BY <1>1, <1>3, <1>4, <1>5, Sizes DEF Position

LEMMA RestType ==
  ASSUME NEW z \in States
  PROVE  /\ Source(z) \in Array /\ Rest(z) \in Array
         /\ Rest(z)[RPC - 1] = Source(z)[RPC - 1]
<1>1. Source(z) \in Array
  BY ReadType DEF Source
<1>2. RPC - 1 \in Position /\ RPC - 1 \notin z.chead.cluster_idx .. z.chead.cluster_idx + Moving(z) - 1
  BY MovingType, Sizes DEF Position
<1> QED BY <1>1, <1>2, NullIs DEF Rest, Array

LEMMA MovedType ==
  ASSUME NEW z \in States
  PROVE  LET c == z.chead.cluster_number
             h == z.chead.cluster_idx
             n == Moving(z)
             y == Moved(z) IN
         /\ y \in States
         /\ y.chead.ref = [s \in Slot |-> IF s < n THEN Source(z)[h + s] ELSE z.chead.ref[s]]
         /\ y.chead.in = z.chead.in /\ y.chead.out = z.chead.out
         /\ y.chead.cluster_number = c /\ y.chead.cluster_idx = h + n
         /\ y.ctail = z.ctail
         /\ y.cfree = z.cfree /\ y.crefs = z.crefs
         /\ y.disk = z.disk
         /\ y.stray = z.stray \cup ({c} \ z.refs) \cup ({c % Byte} \ {c})
         /\ y.refs = z.refs /\ y.ret = z.ret /\ y.err = z.err /\ y.deep = z.deep
<1> DEFINE c == z.chead.cluster_number
           h == z.chead.cluster_idx
           n == Moving(z)
           f == [s \in Slot |-> IF s < n THEN Source(z)[h + s] ELSE z.chead.ref[s]]
           a == Stray(z, {c} \ z.refs)
           b == Stray(a, {c % Byte} \ {c})
           k1 == [b.chead EXCEPT !.ref = [s \in Slot |-> IF s < n THEN Source(z)[h + s] ELSE b.chead.ref[s]]]
           d1 == [b EXCEPT !.chead = k1]
           k2 == [d1.chead EXCEPT !.cluster_idx = h + n]
           d2 == [d1 EXCEPT !.chead = k2]
<1>1. Moved(z) = d2
  BY DEF Moved, Wild
<1> HIDE DEF k1, d1, k2, d2
<1>2. /\ z.chead \in Heads /\ c \in OptCluster \cup {1} /\ h \in Position
      /\ n \in 0 .. FCT_CACHE_SIZE /\ h + n \in Position /\ z.chead.ref \in Cache
  BY MovingType DEF States, Heads
<1>3. {c} \ z.refs \in SUBSET (0 .. Word - 1) /\ {c % Byte} \ {c} \in SUBSET (0 .. Word - 1)
  BY <1>2, Numbers
<1>4. f \in Cache
  <2> SUFFICES ASSUME NEW s \in Slot PROVE f[s] \in OptCluster
    BY DEF Cache
  <2>1. CASE s < n
    <3>1. h + s \in Position
      BY <2>1, <1>2, Sizes DEF Slot, Position
    <3> QED BY <3>1, <2>1, RestType DEF Array
  <2>2. CASE ~ (s < n)
    BY <2>2, <1>2 DEF Cache
  <2> QED BY <2>1, <2>2
<1> HIDE DEF c, h, n, f, a, b
<1>5. /\ a \in States
      /\ a.chead = z.chead /\ a.ctail = z.ctail
      /\ a.cfree = z.cfree /\ a.crefs = z.crefs
      /\ a.disk = z.disk /\ a.stray = z.stray \cup ({c} \ z.refs)
      /\ a.refs = z.refs /\ a.ret = z.ret /\ a.err = z.err /\ a.deep = z.deep
  BY <1>3, StrayType DEF a
<1>6. /\ b \in States
      /\ b.chead = a.chead /\ b.ctail = a.ctail
      /\ b.cfree = a.cfree /\ b.crefs = a.crefs
      /\ b.disk = a.disk /\ b.stray = a.stray \cup ({c % Byte} \ {c})
      /\ b.refs = a.refs /\ b.ret = a.ret /\ b.err = a.err /\ b.deep = a.deep
  BY <1>3, <1>5, StrayType DEF b
<1>7. k1 = [z.chead EXCEPT !.ref = f]
  BY <1>5, <1>6 DEF k1, f
<1>8. /\ k1 \in Heads /\ k1.ref = f /\ k1.in = z.chead.in /\ k1.out = z.chead.out
      /\ k1.cluster_number = c
  BY <1>2, <1>4, <1>7 DEF Heads, c
<1>9. /\ d1 \in States /\ d1.chead = k1 /\ d1.ctail = b.ctail
      /\ d1.cfree = b.cfree /\ d1.crefs = b.crefs
      /\ d1.disk = b.disk /\ d1.refs = b.refs /\ d1.ret = b.ret
      /\ d1.err = b.err /\ d1.stray = b.stray /\ d1.deep = b.deep
  BY <1>6, <1>8, SetHead DEF d1
<1>10. /\ k2 \in Heads /\ k2.ref = f /\ k2.in = z.chead.in /\ k2.out = z.chead.out
       /\ k2.cluster_number = c /\ k2.cluster_idx = h + n
  BY <1>2, <1>8, <1>9 DEF Heads, k2
<1>11. /\ d2 \in States /\ d2.chead = k2 /\ d2.ctail = d1.ctail
       /\ d2.cfree = d1.cfree /\ d2.crefs = d1.crefs
       /\ d2.disk = d1.disk /\ d2.refs = d1.refs /\ d2.ret = d1.ret
       /\ d2.err = d1.err /\ d2.stray = d1.stray /\ d2.deep = d1.deep
  BY <1>9, <1>10, SetHead DEF d2
<1>12. d2.stray = z.stray \cup ({c} \ z.refs) \cup ({c % Byte} \ {c})
  BY <1>5, <1>6, <1>9, <1>11
<1>13. /\ d2.ctail = z.ctail /\ d2.cfree = z.cfree /\ d2.crefs = z.crefs
       /\ d2.disk = z.disk /\ d2.refs = z.refs /\ d2.ret = z.ret
       /\ d2.err = z.err /\ d2.deep = z.deep
  BY <1>5, <1>6, <1>9, <1>11
<1> QED BY <1>1, <1>10, <1>11, <1>12, <1>13 DEF c, h, n, f

LEMMA RetireType ==
  ASSUME NEW z \in States, z.chead.cluster_number \in OptCluster, z.crefs > 0
  PROVE  LET c == z.chead.cluster_number
             y == Retire(z) IN
         /\ y \in States
         /\ y.ctail.ref = [z.ctail.ref EXCEPT ![z.ctail.in] = c]
         /\ y.ctail.in = Next1(z.ctail.in) /\ y.ctail.out = z.ctail.out
         /\ y.ctail.cluster_number = z.ctail.cluster_number
         /\ y.ctail.cluster_idx = z.ctail.cluster_idx
         /\ y.chead.ref = z.chead.ref /\ y.chead.in = z.chead.in
         /\ y.chead.out = z.chead.out
         /\ y.chead.cluster_number = c /\ y.chead.cluster_idx = 0
         /\ y.cfree = z.cfree + 1 /\ y.crefs = z.crefs - 1
         /\ y.disk = z.disk /\ y.refs = z.refs \ {c} /\ y.ret = z.ret
         /\ y.err = z.err /\ y.stray = z.stray /\ y.deep = z.deep
<1> DEFINE c == z.chead.cluster_number
           a == Push(z, c)
           b1 == [a EXCEPT !.crefs = a.crefs - 1]
           b2 == [b1 EXCEPT !.cfree = a.cfree + 1]
           b3 == [b2 EXCEPT !.refs = a.refs \ {c}]
           k == [b3.chead EXCEPT !.cluster_idx = 0]
           d == [b3 EXCEPT !.chead = k]
<1>1. Retire(z) = d
  BY DEF Retire
<1> HIDE DEF c, a, b1, b2, b3, k, d
<1>2. /\ a \in States
      /\ a.ctail.ref = [z.ctail.ref EXCEPT ![z.ctail.in] = c]
      /\ a.ctail.in = Next1(z.ctail.in) /\ a.ctail.out = z.ctail.out
      /\ a.ctail.cluster_number = z.ctail.cluster_number
      /\ a.ctail.cluster_idx = z.ctail.cluster_idx
      /\ a.chead = z.chead
      /\ a.cfree = z.cfree /\ a.crefs = z.crefs
      /\ a.disk = z.disk /\ a.refs = z.refs /\ a.ret = z.ret
      /\ a.err = z.err /\ a.stray = z.stray /\ a.deep = z.deep
  BY PushType DEF a, c
<1>3. /\ b1 \in States /\ b1.chead = a.chead /\ b1.ctail = a.ctail
      /\ b1.cfree = a.cfree /\ b1.crefs = a.crefs - 1
      /\ b1.disk = a.disk /\ b1.refs = a.refs /\ b1.ret = a.ret
      /\ b1.err = a.err /\ b1.stray = a.stray /\ b1.deep = a.deep
  BY <1>2 DEF States, b1
<1>4. /\ b2 \in States /\ b2.chead = a.chead /\ b2.ctail = a.ctail
      /\ b2.cfree = a.cfree + 1 /\ b2.crefs = a.crefs - 1
      /\ b2.disk = a.disk /\ b2.refs = a.refs /\ b2.ret = a.ret
      /\ b2.err = a.err /\ b2.stray = a.stray /\ b2.deep = a.deep
  BY <1>2, <1>3 DEF States, b2
<1>5. /\ b3 \in States /\ b3.chead = a.chead /\ b3.ctail = a.ctail
      /\ b3.cfree = a.cfree + 1 /\ b3.crefs = a.crefs - 1
      /\ b3.disk = a.disk /\ b3.refs = a.refs \ {c} /\ b3.ret = a.ret
      /\ b3.err = a.err /\ b3.stray = a.stray /\ b3.deep = a.deep
  BY <1>2, <1>4 DEF States, b3
<1>6. 0 \in Position
  BY Sizes DEF Position
<1>7. /\ k \in Heads /\ k.ref = z.chead.ref /\ k.in = z.chead.in
      /\ k.out = z.chead.out /\ k.cluster_number = c /\ k.cluster_idx = 0
  BY <1>2, <1>5, <1>6 DEF States, Heads, k, c
<1>8. /\ d \in States /\ d.chead = k /\ d.ctail = b3.ctail
      /\ d.cfree = b3.cfree /\ d.crefs = b3.crefs
      /\ d.disk = b3.disk /\ d.refs = b3.refs /\ d.ret = b3.ret
      /\ d.err = b3.err /\ d.stray = b3.stray /\ d.deep = b3.deep
  BY <1>5, <1>7, SetHead DEF d
<1>9. /\ d.ctail = a.ctail /\ d.cfree = z.cfree + 1 /\ d.crefs = z.crefs - 1
      /\ d.disk = z.disk /\ d.refs = z.refs \ {c} /\ d.ret = z.ret
      /\ d.err = z.err /\ d.stray = z.stray /\ d.deep = z.deep
  BY <1>2, <1>5, <1>8
<1> QED BY <1>1, <1>2, <1>7, <1>8, <1>9 DEF c

LEMMA SetIn ==
  ASSUME NEW z \in States, NEW i \in 0 .. FCT_CACHE_SIZE
  PROVE  LET y == [z EXCEPT !.chead.in = i] IN
         /\ y \in States
         /\ y.chead.ref = z.chead.ref /\ y.chead.out = z.chead.out
         /\ y.chead.cluster_number = z.chead.cluster_number
         /\ y.chead.cluster_idx = z.chead.cluster_idx
         /\ y.ctail = z.ctail
         /\ y.cfree = z.cfree /\ y.crefs = z.crefs
         /\ y.disk = z.disk /\ y.refs = z.refs /\ y.ret = z.ret
         /\ y.err = z.err /\ y.stray = z.stray /\ y.deep = z.deep
<1> DEFINE h == [z.chead EXCEPT !.in = i]
<1>1. /\ h \in Heads /\ h.ref = z.chead.ref /\ h.out = z.chead.out
      /\ h.cluster_number = z.chead.cluster_number
      /\ h.cluster_idx = z.chead.cluster_idx
  BY DEF States, Heads
<1> HIDE DEF h
<1>2. LET y == [z EXCEPT !.chead = h] IN
         /\ y \in States /\ y.chead = h /\ y.ctail = z.ctail
         /\ y.cfree = z.cfree /\ y.crefs = z.crefs
         /\ y.disk = z.disk /\ y.refs = z.refs /\ y.ret = z.ret
         /\ y.err = z.err /\ y.stray = z.stray /\ y.deep = z.deep
  BY <1>1, SetHead
<1>3. [z EXCEPT !.chead.in = i] = [z EXCEPT !.chead = h]
  BY DEF h
<1> QED BY <1>1, <1>2, <1>3

LEMMA NewIn ==
  ASSUME NEW z \in States
  PROVE  Moving(z) % FCT_CACHE_SIZE \in 0 .. FCT_CACHE_SIZE
BY MovingType, Sizes

(* The head cluster's link is reached. *)
LEMMA LinkedType ==
  ASSUME NEW z \in States, NEW d \in States, ~ Threw(d), Moving(z) = ToLink(z),
         z.chead.cluster_number \in OptCluster,
         d.chead.cluster_number = z.chead.cluster_number, d.crefs > 0
  PROVE  LET c == z.chead.cluster_number
             y == Refilled(z, d) IN
         /\ y \in States
         /\ y.chead.ref = d.chead.ref /\ y.chead.out = d.chead.out
         /\ y.chead.cluster_number = Source(z)[RPC - 1] /\ y.chead.cluster_idx = 0
         /\ y.ctail.ref = [d.ctail.ref EXCEPT ![d.ctail.in] = c]
         /\ y.ctail.cluster_number = d.ctail.cluster_number
         /\ y.ctail.cluster_idx = d.ctail.cluster_idx
         /\ y.cfree = d.cfree + 1 /\ y.crefs = d.crefs - 1
         /\ y.disk = IF c \in d.refs
                       THEN [d.disk EXCEPT ![c] = [Rest(z) EXCEPT ![RPC - 1] = NULL_REFERENCE]]
                       ELSE d.disk
         /\ y.stray = IF c \in d.refs THEN d.stray ELSE d.stray \cup {c}
         /\ y.refs = d.refs \ {c} /\ y.ret = d.ret
         /\ y.err = d.err /\ y.deep = d.deep
<1> DEFINE c == z.chead.cluster_number
           last == [Rest(z) EXCEPT ![RPC - 1] = NULL_REFERENCE]
           a == Write(d, c, last)
           b == Retire(a)
           k == [b.chead EXCEPT !.cluster_number = Rest(z)[RPC - 1]]
           e == [b EXCEPT !.chead = k]
           i == Moving(z) % FCT_CACHE_SIZE
           y == [e EXCEPT !.chead.in = i]
<1>1. Refilled(z, d) = y
  BY DEF Refilled, Linked
<1> HIDE DEF c, last, a, b, k, e, i, y
<1>2. c \in 0 .. Word - 1 /\ c \in OptCluster
  BY Numbers DEF c
<1>3. last \in Array
  BY RestType, NullIs DEF last, Array
<1>4. /\ a \in States
      /\ a.chead = d.chead /\ a.ctail = d.ctail
      /\ a.cfree = d.cfree /\ a.crefs = d.crefs
      /\ a.disk = IF c \in d.refs THEN [d.disk EXCEPT ![c] = last] ELSE d.disk
      /\ a.stray = IF c \in d.refs THEN d.stray ELSE d.stray \cup {c}
      /\ a.refs = d.refs /\ a.ret = d.ret /\ a.err = d.err /\ a.deep = d.deep
  BY <1>2, <1>3, WriteType DEF a
<1>5. a.chead.cluster_number = c /\ a.crefs > 0
  BY <1>4 DEF c
<1>6. /\ b \in States
      /\ b.ctail.ref = [a.ctail.ref EXCEPT ![a.ctail.in] = c]
      /\ b.ctail.in = Next1(a.ctail.in) /\ b.ctail.out = a.ctail.out
      /\ b.ctail.cluster_number = a.ctail.cluster_number
      /\ b.ctail.cluster_idx = a.ctail.cluster_idx
      /\ b.chead.ref = a.chead.ref /\ b.chead.in = a.chead.in
      /\ b.chead.out = a.chead.out
      /\ b.chead.cluster_number = c /\ b.chead.cluster_idx = 0
      /\ b.cfree = a.cfree + 1 /\ b.crefs = a.crefs - 1
      /\ b.disk = a.disk /\ b.refs = a.refs \ {c} /\ b.ret = a.ret
      /\ b.err = a.err /\ b.stray = a.stray /\ b.deep = a.deep
  <2> HIDE DEF Threw
  <2> QED BY <1>2, <1>4, <1>5, RetireType DEF b
<1>7. Rest(z)[RPC - 1] = Source(z)[RPC - 1] /\ Source(z)[RPC - 1] \in OptCluster
  BY RestType, Sizes DEF Array, Position
<1>8. /\ k \in Heads /\ k.ref = d.chead.ref /\ k.out = d.chead.out
      /\ k.cluster_number = Source(z)[RPC - 1] /\ k.cluster_idx = 0
  BY <1>4, <1>6, <1>7 DEF States, Heads, k
<1>9. /\ e \in States /\ e.chead = k /\ e.ctail = b.ctail
      /\ e.cfree = b.cfree /\ e.crefs = b.crefs
      /\ e.disk = b.disk /\ e.refs = b.refs /\ e.ret = b.ret
      /\ e.err = b.err /\ e.stray = b.stray /\ e.deep = b.deep
  BY <1>6, <1>8, SetHead DEF e
<1>10. /\ y \in States
       /\ y.chead.ref = e.chead.ref /\ y.chead.out = e.chead.out
       /\ y.chead.cluster_number = e.chead.cluster_number
       /\ y.chead.cluster_idx = e.chead.cluster_idx
       /\ y.ctail = e.ctail
       /\ y.cfree = e.cfree /\ y.crefs = e.crefs
       /\ y.disk = e.disk /\ y.refs = e.refs /\ y.ret = e.ret
       /\ y.err = e.err /\ y.stray = e.stray /\ y.deep = e.deep
  BY <1>9, NewIn, SetIn DEF y, i
<1>11. /\ y.ctail.ref = [d.ctail.ref EXCEPT ![d.ctail.in] = c]
       /\ y.ctail.cluster_number = d.ctail.cluster_number
       /\ y.ctail.cluster_idx = d.ctail.cluster_idx
       /\ y.chead.ref = d.chead.ref /\ y.chead.out = d.chead.out
       /\ y.chead.cluster_number = Source(z)[RPC - 1] /\ y.chead.cluster_idx = 0
  BY <1>4, <1>6, <1>8, <1>9, <1>10
<1>12. /\ y.cfree = d.cfree + 1 /\ y.crefs = d.crefs - 1
       /\ y.refs = d.refs \ {c} /\ y.ret = d.ret
       /\ y.err = d.err /\ y.deep = d.deep
  BY <1>4, <1>6, <1>9, <1>10
<1>13. /\ y.disk = IF c \in d.refs THEN [d.disk EXCEPT ![c] = last] ELSE d.disk
       /\ y.stray = IF c \in d.refs THEN d.stray ELSE d.stray \cup {c}
  BY <1>4, <1>6, <1>9, <1>10
<1> QED BY <1>1, <1>10, <1>11, <1>12, <1>13 DEF c, last

(* No reference is left. *)
LEMMA EndedType ==
  ASSUME NEW z \in States, NEW d, Moving(z) # ToLink(z),
         Moving(z) = Left(z), Moving(z) < FCT_CACHE_SIZE,
         z.chead.cluster_number \in OptCluster, z.crefs > 0
  PROVE  LET c == z.chead.cluster_number
             m == Moved(z)
             y == Refilled(z, d) IN
         /\ y \in States
         /\ y.chead.ref = m.chead.ref /\ y.chead.out = m.chead.out
         /\ y.chead.cluster_number = NULL_REFERENCE /\ y.chead.cluster_idx = 0
         /\ y.ctail.ref = [z.ctail.ref EXCEPT ![z.ctail.in] = c]
         /\ y.ctail.cluster_number = NULL_REFERENCE /\ y.ctail.cluster_idx = 0
         /\ y.cfree = z.cfree + 1 /\ y.crefs = z.crefs - 1
         /\ y.disk = IF c \in z.refs THEN [z.disk EXCEPT ![c] = Rest(z)] ELSE z.disk
         /\ y.stray = IF c \in z.refs THEN m.stray ELSE m.stray \cup {c}
         /\ y.refs = z.refs \ {c} /\ y.ret = z.ret
         /\ y.err = z.err /\ y.deep = z.deep
<1> DEFINE c == z.chead.cluster_number
           m == Moved(z)
           a == Write(m, c, Rest(z))
           b == Retire(a)
           k == [b.chead EXCEPT !.cluster_number = NULL_REFERENCE]
           e == [b EXCEPT !.chead = k]
           t1 == [e.ctail EXCEPT !.cluster_number = NULL_REFERENCE]
           e1 == [e EXCEPT !.ctail = t1]
           t2 == [e1.ctail EXCEPT !.cluster_idx = 0]
           e2 == [e1 EXCEPT !.ctail = t2]
           i == Moving(z) % FCT_CACHE_SIZE
           y == [e2 EXCEPT !.chead.in = i]
<1>1. Refilled(z, d) = y
  BY DEF Refilled, Ended
<1> HIDE DEF c, m, a, b, k, e, t1, e1, t2, e2, i, y
<1>2. c \in 0 .. Word - 1 /\ c \in OptCluster
  BY Numbers DEF c
<1>3. /\ m \in States /\ m.chead.cluster_number = c /\ m.ctail = z.ctail
      /\ m.cfree = z.cfree /\ m.crefs = z.crefs /\ m.disk = z.disk
      /\ m.refs = z.refs /\ m.ret = z.ret /\ m.err = z.err /\ m.deep = z.deep
  BY MovedType DEF m, c
<1>4. /\ a \in States
      /\ a.chead = m.chead /\ a.ctail = m.ctail
      /\ a.cfree = m.cfree /\ a.crefs = m.crefs
      /\ a.disk = IF c \in m.refs THEN [m.disk EXCEPT ![c] = Rest(z)] ELSE m.disk
      /\ a.stray = IF c \in m.refs THEN m.stray ELSE m.stray \cup {c}
      /\ a.refs = m.refs /\ a.ret = m.ret /\ a.err = m.err /\ a.deep = m.deep
  <2> DEFINE r == Rest(z)
  <2>1. r \in Array
    BY RestType
  <2>2. a = Write(m, c, r)
    BY DEF a
  <2> HIDE DEF r
  <2>3. m \in States /\ c \in 0 .. Word - 1
    BY <1>2, <1>3
  <2>4. LET v == Write(m, c, r) IN
        /\ v \in States
        /\ v.chead = m.chead /\ v.ctail = m.ctail
        /\ v.cfree = m.cfree /\ v.crefs = m.crefs
        /\ v.disk = IF c \in m.refs THEN [m.disk EXCEPT ![c] = r] ELSE m.disk
        /\ v.stray = IF c \in m.refs THEN m.stray ELSE m.stray \cup {c}
        /\ v.refs = m.refs /\ v.ret = m.ret /\ v.err = m.err /\ v.deep = m.deep
    BY ONLY <2>1, <2>3, WriteType
  <2> QED BY <2>2, <2>4 DEF r
<1>5. a.chead.cluster_number = c /\ a.crefs > 0
  BY <1>3, <1>4
<1>6. /\ b \in States
      /\ b.ctail.ref = [a.ctail.ref EXCEPT ![a.ctail.in] = c]
      /\ b.ctail.in = Next1(a.ctail.in) /\ b.ctail.out = a.ctail.out
      /\ b.ctail.cluster_number = a.ctail.cluster_number
      /\ b.ctail.cluster_idx = a.ctail.cluster_idx
      /\ b.chead.ref = a.chead.ref /\ b.chead.in = a.chead.in
      /\ b.chead.out = a.chead.out
      /\ b.chead.cluster_number = c /\ b.chead.cluster_idx = 0
      /\ b.cfree = a.cfree + 1 /\ b.crefs = a.crefs - 1
      /\ b.disk = a.disk /\ b.refs = a.refs \ {c} /\ b.ret = a.ret
      /\ b.err = a.err /\ b.stray = a.stray /\ b.deep = a.deep
  BY <1>2, <1>4, <1>5, RetireType DEF b
<1>7. /\ k \in Heads /\ k.ref = m.chead.ref /\ k.out = m.chead.out
      /\ k.cluster_number = NULL_REFERENCE /\ k.cluster_idx = 0
  BY <1>4, <1>6, NullIs DEF States, Heads, k
<1>8. /\ e \in States /\ e.chead = k /\ e.ctail = b.ctail
      /\ e.cfree = b.cfree /\ e.crefs = b.crefs
      /\ e.disk = b.disk /\ e.refs = b.refs /\ e.ret = b.ret
      /\ e.err = b.err /\ e.stray = b.stray /\ e.deep = b.deep
  BY <1>6, <1>7, SetHead DEF e
<1>9. /\ t1 \in Tails /\ t1.ref = b.ctail.ref /\ t1.cluster_number = NULL_REFERENCE
  BY <1>6, <1>8, NullIs DEF States, Tails, t1
<1>10. /\ e1 \in States /\ e1.chead = k /\ e1.ctail = t1
       /\ e1.cfree = b.cfree /\ e1.crefs = b.crefs
       /\ e1.disk = b.disk /\ e1.refs = b.refs /\ e1.ret = b.ret
       /\ e1.err = b.err /\ e1.stray = b.stray /\ e1.deep = b.deep
  BY <1>8, <1>9, SetTail DEF e1
<1>11. /\ t2 \in Tails /\ t2.ref = b.ctail.ref /\ t2.cluster_number = NULL_REFERENCE
       /\ t2.cluster_idx = 0
  <2>1. 0 \in Position
    BY Sizes DEF Position
  <2> QED BY <2>1, <1>9, <1>10 DEF Tails, t2
<1>12. /\ e2 \in States /\ e2.chead = k /\ e2.ctail = t2
       /\ e2.cfree = b.cfree /\ e2.crefs = b.crefs
       /\ e2.disk = b.disk /\ e2.refs = b.refs /\ e2.ret = b.ret
       /\ e2.err = b.err /\ e2.stray = b.stray /\ e2.deep = b.deep
  BY <1>10, <1>11, SetTail DEF e2
<1>13. /\ y \in States
       /\ y.chead.ref = e2.chead.ref /\ y.chead.out = e2.chead.out
       /\ y.chead.cluster_number = e2.chead.cluster_number
       /\ y.chead.cluster_idx = e2.chead.cluster_idx
       /\ y.ctail = e2.ctail
       /\ y.cfree = e2.cfree /\ y.crefs = e2.crefs
       /\ y.disk = e2.disk /\ y.refs = e2.refs /\ y.ret = e2.ret
       /\ y.err = e2.err /\ y.stray = e2.stray /\ y.deep = e2.deep
  BY <1>12, NewIn, SetIn DEF y, i
<1>14. /\ y.ctail.ref = [z.ctail.ref EXCEPT ![z.ctail.in] = c]
       /\ y.ctail.cluster_number = NULL_REFERENCE /\ y.ctail.cluster_idx = 0
       /\ y.chead.ref = m.chead.ref /\ y.chead.out = m.chead.out
       /\ y.chead.cluster_number = NULL_REFERENCE /\ y.chead.cluster_idx = 0
  BY <1>3, <1>4, <1>6, <1>7, <1>11, <1>12, <1>13
<1>15. /\ y.cfree = z.cfree + 1 /\ y.crefs = z.crefs - 1
       /\ y.refs = z.refs \ {c} /\ y.ret = z.ret
       /\ y.err = z.err /\ y.deep = z.deep
  BY <1>3, <1>4, <1>6, <1>12, <1>13
<1>16. /\ y.disk = IF c \in z.refs THEN [z.disk EXCEPT ![c] = Rest(z)] ELSE z.disk
       /\ y.stray = IF c \in z.refs THEN m.stray ELSE m.stray \cup {c}
  BY <1>3, <1>4, <1>6, <1>12, <1>13
<1> QED BY <1>1, <1>13, <1>14, <1>15, <1>16 DEF c, m

(* The cache is full, and the cluster not at its end. *)
LEMMA FilledType ==
  ASSUME NEW z \in States, NEW d, Moving(z) # ToLink(z),
         ~ (Moving(z) = Left(z) /\ Moving(z) < FCT_CACHE_SIZE)
  PROVE  LET c == z.chead.cluster_number
             m == Moved(z)
             y == Refilled(z, d) IN
         /\ y \in States
         /\ y.chead.ref = m.chead.ref /\ y.chead.out = m.chead.out
         /\ y.chead.cluster_number = c /\ y.chead.cluster_idx = m.chead.cluster_idx
         /\ y.ctail = z.ctail
         /\ y.cfree = z.cfree /\ y.crefs = z.crefs
         /\ y.disk = IF c \in z.refs THEN [z.disk EXCEPT ![c] = Rest(z)] ELSE z.disk
         /\ y.stray = IF c \in z.refs THEN m.stray ELSE m.stray \cup {c}
         /\ y.refs = z.refs /\ y.ret = z.ret
         /\ y.err = z.err /\ y.deep = z.deep
<1> DEFINE c == z.chead.cluster_number
           m == Moved(z)
           a == Write(m, c, Rest(z))
           i == Moving(z) % FCT_CACHE_SIZE
           y == [a EXCEPT !.chead.in = i]
<1>1. Refilled(z, d) = y
  BY DEF Refilled, Filled
<1> HIDE DEF c, m, a, i, y
<1>2. c \in 0 .. Word - 1
  BY Numbers DEF States, Heads, c
<1>3. /\ m \in States /\ m.chead.cluster_number = c /\ m.ctail = z.ctail
      /\ m.cfree = z.cfree /\ m.crefs = z.crefs /\ m.disk = z.disk
      /\ m.refs = z.refs /\ m.ret = z.ret /\ m.err = z.err /\ m.deep = z.deep
  BY MovedType DEF m, c
<1>4. /\ a \in States
      /\ a.chead = m.chead /\ a.ctail = m.ctail
      /\ a.cfree = m.cfree /\ a.crefs = m.crefs
      /\ a.disk = IF c \in m.refs THEN [m.disk EXCEPT ![c] = Rest(z)] ELSE m.disk
      /\ a.stray = IF c \in m.refs THEN m.stray ELSE m.stray \cup {c}
      /\ a.refs = m.refs /\ a.ret = m.ret /\ a.err = m.err /\ a.deep = m.deep
  <2> DEFINE r == Rest(z)
  <2>1. r \in Array
    BY RestType
  <2>2. a = Write(m, c, r)
    BY DEF a
  <2> HIDE DEF r
  <2>3. m \in States /\ c \in 0 .. Word - 1
    BY <1>2, <1>3
  <2>4. LET v == Write(m, c, r) IN
        /\ v \in States
        /\ v.chead = m.chead /\ v.ctail = m.ctail
        /\ v.cfree = m.cfree /\ v.crefs = m.crefs
        /\ v.disk = IF c \in m.refs THEN [m.disk EXCEPT ![c] = r] ELSE m.disk
        /\ v.stray = IF c \in m.refs THEN m.stray ELSE m.stray \cup {c}
        /\ v.refs = m.refs /\ v.ret = m.ret /\ v.err = m.err /\ v.deep = m.deep
    BY ONLY <2>1, <2>3, WriteType
  <2> QED BY <2>2, <2>4 DEF r
<1>5. /\ y \in States
      /\ y.chead.ref = a.chead.ref /\ y.chead.out = a.chead.out
      /\ y.chead.cluster_number = a.chead.cluster_number
      /\ y.chead.cluster_idx = a.chead.cluster_idx
      /\ y.ctail = a.ctail
      /\ y.cfree = a.cfree /\ y.crefs = a.crefs
      /\ y.disk = a.disk /\ y.refs = a.refs /\ y.ret = a.ret
      /\ y.err = a.err /\ y.stray = a.stray /\ y.deep = a.deep
  BY <1>4, NewIn, SetIn DEF y, i
<1> QED BY <1>1, <1>3, <1>4, <1>5 DEF c, m

-----------------------------------------------------------------------------
(* The calls *)

LEMMA ThrowType ==
  ASSUME NEW z \in States, NEW e \in {"ENOSPC", "EINVAL"}
  PROVE  LET y == Throw(z, e) IN
         /\ y \in States /\ y.err = e /\ Threw(y)
         /\ y.chead = z.chead /\ y.ctail = z.ctail
         /\ y.cfree = z.cfree /\ y.crefs = z.crefs
         /\ y.disk = z.disk /\ y.refs = z.refs /\ y.ret = z.ret
         /\ y.stray = z.stray /\ y.deep = z.deep
BY DEF Throw, Threw, States

LEMMA CallType ==
  ASSUME NEW z \in States
  PROVE  LET y == Call(z) IN
         /\ y \in States /\ y.err = "OK" /\ y.ret = NULL_REFERENCE
         /\ y.chead = z.chead /\ y.ctail = z.ctail
         /\ y.cfree = z.cfree /\ y.crefs = z.crefs
         /\ y.disk = z.disk /\ y.refs = z.refs
         /\ y.stray = z.stray /\ y.deep = z.deep
BY NullIs DEF Call, States

LEMMA TooDeepType ==
  ASSUME NEW z \in States
  PROVE  LET y == TooDeep(z) IN
         /\ y \in States /\ y.deep
         /\ y.chead = z.chead /\ y.ctail = z.ctail
         /\ y.cfree = z.cfree /\ y.crefs = z.crefs
         /\ y.disk = z.disk /\ y.refs = z.refs /\ y.ret = z.ret
         /\ y.stray = z.stray /\ y.err = z.err
BY DEF TooDeep, States

\* What y has of a thrown x.
SameBut(x, y) ==
  /\ y \in States
  /\ y.chead = x.chead /\ y.ctail = x.ctail
  /\ y.cfree = x.cfree /\ y.crefs = x.crefs
  /\ y.disk = x.disk /\ y.refs = x.refs /\ y.ret = x.ret /\ y.stray = x.stray
  /\ x.deep => y.deep

\* y is x with one reference taken from the head cache.
Taken(x, y) ==
  /\ y \in States
  /\ y.chead.ref = [x.chead.ref EXCEPT ![x.chead.out] = NULL_REFERENCE]
  /\ y.chead.cluster_number = x.chead.cluster_number
  /\ y.chead.cluster_idx = x.chead.cluster_idx
  /\ y.ctail = x.ctail
  /\ y.cfree = x.cfree - 1 /\ y.crefs = x.crefs
  /\ y.disk = x.disk /\ y.refs = x.refs /\ y.ret = x.chead.ref[x.chead.out]
  /\ y.err = x.err /\ y.stray = x.stray
  /\ x.deep => y.deep

LEMMA TakeTaken ==
  ASSUME NEW z \in States, z.cfree > 0
  PROVE  Taken(z, Take(z))
<1> DEFINE y == Take(z)
<1>1. /\ y \in States
      /\ y.chead.ref = [z.chead.ref EXCEPT ![z.chead.out] = NULL_REFERENCE]
      /\ y.chead.in = z.chead.in /\ y.chead.out = Next1(z.chead.out)
      /\ y.chead.cluster_number = z.chead.cluster_number
      /\ y.chead.cluster_idx = z.chead.cluster_idx
      /\ y.ctail = z.ctail
      /\ y.cfree = z.cfree - 1 /\ y.crefs = z.crefs
      /\ y.disk = z.disk /\ y.refs = z.refs /\ y.ret = z.chead.ref[z.chead.out]
      /\ y.err = z.err /\ y.stray = z.stray /\ y.deep = z.deep
  BY TakeType
<1> HIDE DEF y
<1>2. Taken(z, y)
  BY <1>1 DEF Taken
<1> QED BY <1>2 DEF y

LEMMA InnerAllocIs ==
  ASSUME NEW x \in States, x.err = "OK"
  PROVE  LET y == InnerAlloc(x) IN
         /\ y \in States
         /\ x.cfree = 0 => SameBut(x, y) /\ Threw(y)
         /\ x.cfree # 0 => Taken(x, y)
<1>1. CASE x.cfree = 0
  <2>1. InnerAlloc(x) = Throw(x, "ENOSPC")
    BY <1>1 DEF InnerAlloc, AllocCluster
  <2> DEFINE y == Throw(x, "ENOSPC")
  <2>2. /\ y \in States /\ Threw(y)
        /\ y.chead = x.chead /\ y.ctail = x.ctail
        /\ y.cfree = x.cfree /\ y.crefs = x.crefs
        /\ y.disk = x.disk /\ y.refs = x.refs /\ y.ret = x.ret
        /\ y.stray = x.stray /\ y.deep = x.deep
    BY ThrowType
  <2> HIDE DEF y
  <2>3. SameBut(x, y)
    BY <2>2 DEF SameBut
  <2> QED BY <1>1, <2>1, <2>2, <2>3 DEF y
<1>2. CASE x.cfree # 0
  <2> DEFINE empty == x.chead.out = x.chead.in /\ HeadReference(x) = NULL_REFERENCE
             v == IF empty THEN TooDeep(x) ELSE x
  <2>1. InnerAlloc(x) = IF Threw(v) THEN v ELSE Take(v)
    BY <1>2 DEF InnerAlloc, AllocCluster
  <2>2. SameBut(x, v) /\ v.err = x.err
    <3>1. CASE empty
      <4> DEFINE y == TooDeep(x)
      <4>1. /\ y \in States /\ y.deep
            /\ y.chead = x.chead /\ y.ctail = x.ctail
            /\ y.cfree = x.cfree /\ y.crefs = x.crefs
            /\ y.disk = x.disk /\ y.refs = x.refs /\ y.ret = x.ret
            /\ y.stray = x.stray /\ y.err = x.err
        BY TooDeepType
      <4> HIDE DEF y
      <4>2. SameBut(x, y)
        BY <4>1 DEF SameBut
      <4> QED BY <3>1, <4>1, <4>2 DEF y
    <3>2. CASE ~ empty
      BY <3>2 DEF SameBut
    <3> QED BY <3>1, <3>2
  <2> HIDE DEF empty, v
  <2>3. v \in States /\ v.cfree > 0 /\ ~ Threw(v)
    BY <1>2, <2>2 DEF SameBut, Threw, States
  <2>4. Taken(v, Take(v))
    BY <2>3, TakeTaken
  <2>5. Taken(x, Take(v))
    <3> DEFINE y == Take(v)
    <3> HIDE DEF y
    <3>1. Taken(v, y)
      BY <2>4 DEF y
    <3>2. Taken(x, y)
      BY <2>2, <3>1 DEF Taken, SameBut
    <3> QED BY <3>2 DEF y
  <2>6. Take(v) \in States
    BY <2>4 DEF Taken
  <2> QED BY <1>2, <2>1, <2>3, <2>5, <2>6
<1> QED BY <1>1, <1>2

(* soReplenish of an empty head cache. *)
Reset(z) == [z EXCEPT !.chead.out = 0]
Nested(z) ==
  IF Moved(z).ctail.ref[Moved(z).ctail.in] = NULL_REFERENCE THEN InnerDeplete(Moved(z))
  ELSE Moved(z)

LEMMA ResetType ==
  ASSUME NEW z \in States
  PROVE  LET y == Reset(z) IN
         /\ y \in States
         /\ y.chead.ref = z.chead.ref /\ y.chead.out = 0 /\ y.chead.in = z.chead.in
         /\ y.chead.cluster_number = z.chead.cluster_number
         /\ y.chead.cluster_idx = z.chead.cluster_idx
         /\ y.ctail = z.ctail
         /\ y.cfree = z.cfree /\ y.crefs = z.crefs
         /\ y.disk = z.disk /\ y.refs = z.refs /\ y.ret = z.ret
         /\ y.err = z.err /\ y.stray = z.stray /\ y.deep = z.deep
<1> DEFINE h == [z.chead EXCEPT !.out = 0]
<1>0. 0 \in Slot
  BY Sizes DEF Slot
<1>1. /\ h \in Heads /\ h.ref = z.chead.ref /\ h.out = 0 /\ h.in = z.chead.in
      /\ h.cluster_number = z.chead.cluster_number
      /\ h.cluster_idx = z.chead.cluster_idx
  BY <1>0 DEF States, Heads
<1> HIDE DEF h
<1>2. LET y == [z EXCEPT !.chead = h] IN
         /\ y \in States /\ y.chead = h /\ y.ctail = z.ctail
         /\ y.cfree = z.cfree /\ y.crefs = z.crefs
         /\ y.disk = z.disk /\ y.refs = z.refs /\ y.ret = z.ret
         /\ y.err = z.err /\ y.stray = z.stray /\ y.deep = z.deep
  BY <1>1, SetHead
<1>3. Reset(z) = [z EXCEPT !.chead = h]
  BY DEF h, Reset
<1> QED BY <1>1, <1>2, <1>3

LEMMA ReplenishIs ==
  ASSUME NEW z, z.chead.ref[z.chead.out] = NULL_REFERENCE
  PROVE  soReplenish(z) = IF z.crefs = 0 THEN ReplenishFromTailCache(Reset(z))
                          ELSE Refilled(Reset(z), Nested(Reset(z)))
<1>1. HeadReference(z) = NULL_REFERENCE
  BY DEF HeadReference
<1>2. CASE z.crefs = 0
  BY <1>1, <1>2 DEF soReplenish, Replenish, Reset
<1>3. CASE z.crefs # 0
  <2>1. soReplenish(z) = ReplenishFromHeadCluster(Reset(z), InnerDeplete)
    BY <1>1, <1>3 DEF soReplenish, Replenish, Reset
  <2> DEFINE y == Reset(z)
  <2> HIDE DEF y
  <2>2. ReplenishFromHeadCluster(y, InnerDeplete) = Refilled(y, Nested(y))
    BY DEF ReplenishFromHeadCluster, Refilled, Nested, Moved, Rest, Source, Moving, ToLink,
           Linked, Ended, Filled
  <2> QED BY <1>3, <2>1, <2>2 DEF y
<1> QED BY <1>2, <1>3

-----------------------------------------------------------------------------
(* What the counters and the ranges depend on *)

LEMMA StartedIs ==
  ASSUME NEW z \in States
  PROVE  LET s == Started(z)
             o == Opened(z) IN
         /\ s \in Locals /\ o \in Locals
         /\ s.z.chead = z.chead
         /\ s.z.cfree = z.cfree /\ s.z.crefs = z.crefs
         /\ s.z.ctail.in = z.ctail.in /\ s.z.ctail.out = z.ctail.out
         /\ s.z.ctail.cluster_number = z.ctail.cluster_number
         /\ s.z.disk = z.disk /\ s.z.refs = z.refs /\ s.z.ret = z.ret
         /\ s.z.err = z.err /\ s.z.deep = z.deep
         /\ s.z.stray = z.stray \cup ({z.ctail.cluster_number} \ z.refs)
<1> DEFINE o == Opened(z)
           s == FillTailCluster(o)
<1>1. /\ o \in Locals
      /\ o.z.chead = z.chead /\ o.z.ctail = z.ctail
      /\ o.z.cfree = z.cfree /\ o.z.crefs = z.crefs
      /\ o.z.disk = z.disk /\ o.z.stray = z.stray \cup ({z.ctail.cluster_number} \ z.refs)
      /\ o.z.refs = z.refs /\ o.z.ret = z.ret /\ o.z.err = z.err /\ o.z.deep = z.deep
  BY OpenedType
<1>2. Started(z) = s
  BY DEF Started
<1> HIDE DEF o
<1>3. /\ s \in Locals
      /\ s.z.ctail.in = o.z.ctail.in /\ s.z.ctail.out = o.z.ctail.out
      /\ s.z.ctail.cluster_number = o.z.ctail.cluster_number
      /\ s.z.chead = o.z.chead
      /\ s.z.cfree = o.z.cfree /\ s.z.crefs = o.z.crefs
      /\ s.z.disk = o.z.disk /\ s.z.refs = o.z.refs /\ s.z.ret = o.z.ret
      /\ s.z.err = o.z.err /\ s.z.stray = o.z.stray /\ s.z.deep = o.z.deep
  BY <1>1, FillTailClusterType
<1> HIDE DEF s
<1> QED BY <1>1, <1>2, <1>3 DEF o

LEMMA DepletedSummary ==
  ASSUME NEW z \in States, NEW y \in States, z.err = "OK"
  PROVE  LET d == Depleted(z, y) IN
         /\ d \in States
         /\ ~ More(Started(z)) =>
              /\ d.chead = z.chead /\ d.cfree = z.cfree /\ d.crefs = z.crefs
              /\ d.ret = z.ret /\ d.err = z.err
         /\ More(Started(z)) /\ Threw(y) => d = y
         /\ More(Started(z)) /\ ~ Threw(y) =>
              /\ d.chead = y.chead /\ d.cfree = y.cfree /\ d.crefs = y.crefs + 1
              /\ d.ret = y.ret /\ d.err = y.err
<1> DEFINE s == Started(z)
           d == Depleted(z, y)
<1>0. /\ s \in Locals /\ s.z.chead = z.chead
      /\ s.z.cfree = z.cfree /\ s.z.crefs = z.crefs
      /\ s.z.ret = z.ret /\ s.z.err = z.err
  BY StartedIs
<1>1. d = IF ~ More(s) THEN Finished(s)
          ELSE IF Threw(y) THEN y ELSE Finished(FillTailCluster(Extended(s, y)))
  BY DEF Depleted
<1> HIDE DEF s, d
<1>2. CASE ~ More(s)
  <2> DEFINE f == Finished(s)
  <2>1. /\ f \in States /\ f.chead = s.z.chead
        /\ f.cfree = s.z.cfree /\ f.crefs = s.z.crefs
        /\ f.ret = s.z.ret /\ f.err = s.z.err
    BY <1>0, FinishedType
  <2> HIDE DEF f
  <2>2. d = f
    BY <1>1, <1>2 DEF f
  <2> QED BY <1>0, <1>2, <2>1, <2>2 DEF s, d
<1>3. CASE More(s) /\ Threw(y)
  <2>1. d = y
    BY <1>1, <1>3
  <2> QED BY <1>3, <2>1 DEF s, d
<1>4. CASE More(s) /\ ~ Threw(y)
  <2> DEFINE e == Extended(s, y)
             g == FillTailCluster(e)
             f == Finished(g)
  <2>1. /\ e \in Locals /\ e.z.chead = y.chead
        /\ e.z.cfree = y.cfree /\ e.z.crefs = y.crefs + 1
        /\ e.z.ret = y.ret /\ e.z.err = y.err
    BY <1>0, ExtendedType
  <2>4. d = f
    BY <1>1, <1>4
  <2> HIDE DEF e
  <2>2. /\ g \in Locals /\ g.z.chead = e.z.chead
        /\ g.z.cfree = e.z.cfree /\ g.z.crefs = e.z.crefs
        /\ g.z.ret = e.z.ret /\ g.z.err = e.z.err
    BY <2>1, FillTailClusterType
  <2> HIDE DEF g
  <2>3. /\ f \in States /\ f.chead = g.z.chead
        /\ f.cfree = g.z.cfree /\ f.crefs = g.z.crefs
        /\ f.ret = g.z.ret /\ f.err = g.z.err
    BY <2>2, FinishedType
  <2> HIDE DEF f
  <2> QED BY <1>4, <2>1, <2>2, <2>3, <2>4 DEF s, d
<1> QED BY <1>2, <1>3, <1>4

(* soDeplete with no reference clusters, or nothing in the tail cache.        *)
LEMMA EasyDepletion ==
  ASSUME NEW z \in States,
         z.crefs = 0 \/ z.ctail.ref[z.ctail.out] = NULL_REFERENCE
  PROVE  LET y == IF z.ctail.ref[z.ctail.out] = NULL_REFERENCE THEN z
                  ELSE DepleteToHeadCache(z) IN
         /\ InnerDeplete(z) = y /\ soDeplete(z) = y
         /\ y \in States /\ y.cfree = z.cfree /\ y.crefs = z.crefs
         /\ y.chead.cluster_number = z.chead.cluster_number
         /\ y.ret = z.ret /\ y.err = z.err
<1> DEFINE x == DepleteToHeadCache(z)
           y == IF z.ctail.ref[z.ctail.out] = NULL_REFERENCE THEN z ELSE x
<1>1. /\ x \in States /\ x.cfree = z.cfree /\ x.crefs = z.crefs
      /\ x.chead.cluster_number = z.chead.cluster_number
      /\ x.ret = z.ret /\ x.err = z.err
  BY DepleteToHeadCacheType
<1>2. InnerDeplete(z) = y /\ soDeplete(z) = y
  BY DEF InnerDeplete, soDeplete, Deplete
<1> HIDE DEF x
<1>3. /\ y \in States /\ y.cfree = z.cfree /\ y.crefs = z.crefs
      /\ y.chead.cluster_number = z.chead.cluster_number
      /\ y.ret = z.ret /\ y.err = z.err
  BY <1>1
<1> QED BY <1>2, <1>3 DEF x

LEMMA InnerDepleteCounts ==
  ASSUME NEW z \in States, z.err = "OK"
  PROVE  LET d == InnerDeplete(z) IN
         /\ d \in States
         /\ d.cfree + d.crefs = z.cfree + z.crefs /\ d.crefs >= z.crefs
         /\ d.chead.cluster_number = z.chead.cluster_number
         /\ Threw(d) => d.ret = z.ret
         /\ ~ Threw(d) => d.crefs <= z.crefs + 1
<1> DEFINE d == InnerDeplete(z)
<1>0. z.cfree \in Nat /\ z.crefs \in Nat
  BY DEF States
<1>1. CASE z.crefs = 0 \/ z.ctail.ref[z.ctail.out] = NULL_REFERENCE
  <2>1. /\ d \in States /\ d.cfree = z.cfree /\ d.crefs = z.crefs
        /\ d.chead.cluster_number = z.chead.cluster_number
        /\ d.ret = z.ret /\ d.err = z.err
    BY <1>1, EasyDepletion
  <2> HIDE DEF d
  <2> QED BY <1>0, <2>1 DEF d
<1>2. CASE z.crefs # 0 /\ z.ctail.ref[z.ctail.out] # NULL_REFERENCE
  <2> DEFINE x == Started(z).z
             y == InnerAlloc(x)
             e == Depleted(z, y)
  <2>1. /\ x \in States /\ x.err = "OK" /\ x.chead = z.chead
        /\ x.cfree = z.cfree /\ x.crefs = z.crefs /\ x.ret = z.ret
    BY StartedIs DEF Locals
  <2> HIDE DEF x
  <2>2. /\ y \in States
        /\ x.cfree = 0 => SameBut(x, y) /\ Threw(y)
        /\ x.cfree # 0 => Taken(x, y)
    BY <2>1, InnerAllocIs
  <2>3. d = e
    BY <1>2, <2>2, DepleteIs DEF x
  <2> HIDE DEF y, d
  <2>4. /\ e \in States
        /\ ~ More(Started(z)) =>
              /\ e.chead = z.chead /\ e.cfree = z.cfree /\ e.crefs = z.crefs
              /\ e.ret = z.ret /\ e.err = z.err
        /\ More(Started(z)) /\ Threw(y) => e = y
        /\ More(Started(z)) /\ ~ Threw(y) =>
              /\ e.chead = y.chead /\ e.cfree = y.cfree /\ e.crefs = y.crefs + 1
              /\ e.ret = y.ret /\ e.err = y.err
    BY <2>2, DepletedSummary
  <2> HIDE DEF e
  <2>5. /\ y.chead.cluster_number = z.chead.cluster_number /\ y.crefs = z.crefs
        /\ Threw(y) => y.cfree = z.cfree /\ y.ret = z.ret
        /\ ~ Threw(y) => y.cfree = z.cfree - 1
    <3>1. CASE x.cfree = 0
      BY <2>1, <2>2, <3>1 DEF SameBut
    <3>2. CASE x.cfree # 0
      BY <2>1, <2>2, <3>2 DEF Taken, Threw
    <3> QED BY <3>1, <3>2
  <2>6. CASE ~ More(Started(z))
    BY <1>0, <2>3, <2>4, <2>6 DEF d, Threw
  <2>7. CASE More(Started(z)) /\ Threw(y)
    BY <1>0, <2>3, <2>4, <2>5, <2>7 DEF d
  <2>8. CASE More(Started(z)) /\ ~ Threw(y)
    <3>1. ~ Threw(e)
      BY <2>4, <2>8 DEF Threw
    <3>2. /\ e.cfree + e.crefs = z.cfree + z.crefs /\ e.crefs = z.crefs + 1
      BY <1>0, <2>4, <2>5, <2>8
    <3> QED BY <1>0, <2>3, <2>4, <2>5, <2>8, <3>1, <3>2 DEF d
  <2> QED BY <2>6, <2>7, <2>8
<1> QED BY <1>1, <1>2

(* The three ends of a refill, with the counters they leave.                  *)
LEMMA RefilledCounts ==
  ASSUME NEW z \in States, z.err = "OK", z.crefs > 0, CTotal > 1
  PROVE  LET d == Nested(z)
             y == Refilled(z, d) IN
         /\ d \in States
         /\ y \in States
         /\ y.cfree + y.crefs = z.cfree + z.crefs
         /\ Threw(y) => y.ret = z.ret
         /\ ~ Threw(y) => y.cfree >= z.cfree
<1> DEFINE m == Moved(z)
           d == Nested(z)
           y == Refilled(z, d)
<1>0. z.cfree \in Nat /\ z.crefs \in Nat /\ z.chead.cluster_number \in OptCluster
  BY Sizes DEF States, Heads, OptCluster, Cluster
<1>1. /\ m \in States /\ m.chead.cluster_number = z.chead.cluster_number
      /\ m.cfree = z.cfree /\ m.crefs = z.crefs /\ m.ret = z.ret /\ m.err = z.err
  BY MovedType
<1>2. d = IF m.ctail.ref[m.ctail.in] = NULL_REFERENCE THEN InnerDeplete(m) ELSE m
  BY DEF Nested
<1> HIDE DEF m, d
<1>3. /\ d \in States
      /\ d.cfree + d.crefs = z.cfree + z.crefs /\ d.crefs >= z.crefs
      /\ d.chead.cluster_number = z.chead.cluster_number
      /\ Threw(d) => d.ret = z.ret
      /\ ~ Threw(d) => d.crefs <= z.crefs + 1
  <2>1. CASE m.ctail.ref[m.ctail.in] = NULL_REFERENCE
    <3> DEFINE e == InnerDeplete(m)
    <3>1. /\ e \in States
          /\ e.cfree + e.crefs = m.cfree + m.crefs /\ e.crefs >= m.crefs
          /\ e.chead.cluster_number = m.chead.cluster_number
          /\ Threw(e) => e.ret = m.ret
          /\ ~ Threw(e) => e.crefs <= m.crefs + 1
      BY <1>1, InnerDepleteCounts
    <3>2. d = e
      BY <1>2, <2>1
    <3> HIDE DEF e
    <3> QED BY <1>1, <3>1, <3>2
  <2>2. CASE m.ctail.ref[m.ctail.in] # NULL_REFERENCE
    <3>1. d = m
      BY <1>2, <2>2
    <3> QED BY <1>0, <1>1, <3>1 DEF Threw
  <2> QED BY <2>1, <2>2
<1>4. d.cfree \in Nat /\ d.crefs \in Nat
  BY <1>3 DEF States
<1>5. CASE Moving(z) = ToLink(z) /\ Threw(d)
  <2>1. y = d
    BY <1>5 DEF Refilled
  <2> HIDE DEF y
  <2> QED BY <1>3, <1>5, <2>1 DEF y, d
<1>6. CASE Moving(z) = ToLink(z) /\ ~ Threw(d)
  <2>1. y \in States /\ y.cfree = d.cfree + 1 /\ y.crefs = d.crefs - 1 /\ y.ret = d.ret /\ y.err = d.err
    <3>1. d.crefs > 0
      BY <1>0, <1>3, <1>4
    <3> HIDE DEF y, Threw
    <3> DEFINE v == Refilled(z, d)
    <3>2. v \in States /\ v.cfree = d.cfree + 1 /\ v.crefs = d.crefs - 1 /\ v.ret = d.ret /\ v.err = d.err
      BY <1>0, <1>3, <1>6, <3>1, LinkedType
    <3> QED BY <3>2 DEF y
  <2>2. ~ Threw(y)
    BY <1>6, <2>1 DEF Threw
  <2> HIDE DEF y
  <2>3. y.cfree + y.crefs = z.cfree + z.crefs /\ y.cfree >= z.cfree
    BY <1>0, <1>3, <1>4, <1>6, <2>1
  <2> QED BY <1>3, <2>1, <2>2, <2>3 DEF y, d
<1>7. CASE Moving(z) # ToLink(z) /\ Moving(z) = Left(z) /\ Moving(z) < FCT_CACHE_SIZE
  <2>1. y \in States /\ y.cfree = z.cfree + 1 /\ y.crefs = z.crefs - 1 /\ y.ret = z.ret /\ y.err = z.err
    BY <1>0, <1>7, EndedType
  <2> HIDE DEF y
  <2> QED BY <1>0, <1>3, <2>1 DEF y, d, Threw
<1>8. CASE Moving(z) # ToLink(z) /\ ~ (Moving(z) = Left(z) /\ Moving(z) < FCT_CACHE_SIZE)
  <2>1. y \in States /\ y.cfree = z.cfree /\ y.crefs = z.crefs /\ y.ret = z.ret /\ y.err = z.err
    BY <1>8, FilledType
  <2> HIDE DEF y
  <2> QED BY <1>0, <1>3, <2>1 DEF y, d, Threw
<1> QED BY <1>5, <1>6, <1>7, <1>8

LEMMA ReplenishCounts ==
  ASSUME NEW z \in States, z.err = "OK", z.crefs > 0 => CTotal > 1,
         z.chead.ref[z.chead.out] = NULL_REFERENCE
  PROVE  LET y == soReplenish(z) IN
         /\ y \in States
         /\ y.cfree + y.crefs = z.cfree + z.crefs
         /\ Threw(y) => y.ret = z.ret
         /\ ~ Threw(y) => y.cfree >= z.cfree
<1> DEFINE r == Reset(z)
           d == Nested(r)
           y == soReplenish(z)
<1>0. z.cfree \in Nat /\ z.crefs \in Nat
  BY DEF States
<1>1. /\ r \in States /\ r.cfree = z.cfree /\ r.crefs = z.crefs
      /\ r.ret = z.ret /\ r.err = z.err
  BY ResetType
<1>2. y = IF z.crefs = 0 THEN ReplenishFromTailCache(r) ELSE Refilled(r, d)
  BY ReplenishIs
<1> HIDE DEF r, y
<1>3. CASE z.crefs = 0
  <2> DEFINE e == ReplenishFromTailCache(r)
  <2>1. /\ e \in States /\ e.cfree = r.cfree /\ e.crefs = r.crefs
        /\ e.ret = r.ret /\ e.err = r.err
    BY <1>1, ReplenishFromTailCacheType
  <2>2. y = e
    BY <1>2, <1>3
  <2> HIDE DEF e
  <2> QED BY <1>0, <1>1, <2>1, <2>2 DEF y, Threw
<1>4. CASE z.crefs # 0
  <2> DEFINE e == Refilled(r, d)
  <2>1. /\ e \in States
        /\ e.cfree + e.crefs = r.cfree + r.crefs
        /\ Threw(e) => e.ret = r.ret
        /\ ~ Threw(e) => e.cfree >= r.cfree
    <3>1. r.crefs > 0 /\ CTotal > 1 /\ r.err = "OK"
      BY <1>0, <1>1, <1>4
    <3> QED BY <1>1, <3>1, RefilledCounts
  <2>2. y = e
    BY <1>2, <1>4
  <2> HIDE DEF e
  <2> QED BY <1>0, <1>1, <2>1, <2>2 DEF y
<1> QED BY <1>3, <1>4

(* soAllocCluster: ENOSPC, or the reference soReplenish has left in the next  *)
(* slot of the head cache.                                                    *)
Ready(z) ==
  IF z.chead.out = z.chead.in /\ HeadReference(z) = NULL_REFERENCE THEN soReplenish(z) ELSE z

LEMMA AllocIs ==
  ASSUME NEW z \in States, z.err = "OK", z.crefs > 0 => CTotal > 1
  PROVE  LET y == soAllocCluster(z) IN
         /\ y \in States
         /\ z.cfree = 0 => SameBut(z, y) /\ Threw(y)
         /\ z.cfree # 0 =>
              /\ Ready(z) \in States
              /\ Threw(Ready(z)) => y = Ready(z)
              /\ ~ Threw(Ready(z)) => Taken(Ready(z), y)
<1>1. CASE z.cfree = 0
  <2>1. soAllocCluster(z) = Throw(z, "ENOSPC")
    BY <1>1 DEF soAllocCluster, AllocCluster
  <2> DEFINE y == Throw(z, "ENOSPC")
  <2>2. /\ y \in States /\ Threw(y)
        /\ y.chead = z.chead /\ y.ctail = z.ctail
        /\ y.cfree = z.cfree /\ y.crefs = z.crefs
        /\ y.disk = z.disk /\ y.refs = z.refs /\ y.ret = z.ret
        /\ y.stray = z.stray /\ y.deep = z.deep
    BY ThrowType
  <2> HIDE DEF y
  <2>3. SameBut(z, y)
    BY <2>2 DEF SameBut
  <2> QED BY <1>1, <2>1, <2>2, <2>3 DEF y
<1>2. CASE z.cfree # 0
  <2> DEFINE v == Ready(z)
  <2>1. soAllocCluster(z) = IF Threw(v) THEN v ELSE Take(v)
    BY <1>2 DEF soAllocCluster, AllocCluster, Ready
  <2>2. v \in States /\ (~ Threw(v) => v.cfree >= z.cfree)
    <3>1. CASE z.chead.out = z.chead.in /\ HeadReference(z) = NULL_REFERENCE
      <4>1. z.chead.ref[z.chead.out] = NULL_REFERENCE /\ v = soReplenish(z)
        BY <3>1 DEF HeadReference, Ready
      <4> HIDE DEF v
      <4> QED BY <4>1, ReplenishCounts
    <3>2. CASE ~ (z.chead.out = z.chead.in /\ HeadReference(z) = NULL_REFERENCE)
      BY <3>2 DEF Ready, States
    <3> QED BY <3>1, <3>2
  <2> HIDE DEF v
  <2>3. CASE Threw(v)
    BY <1>2, <2>1, <2>2, <2>3 DEF v
  <2>4. CASE ~ Threw(v)
    <3>1. v.cfree > 0
      BY <1>2, <2>2, <2>4 DEF States
    <3>2. Taken(v, Take(v))
      BY <2>2, <3>1, TakeTaken
    <3>3. Take(v) \in States
      BY <3>2 DEF Taken
    <3> QED BY <1>2, <2>1, <2>2, <2>4, <3>2, <3>3 DEF v
  <2> QED BY <2>3, <2>4
<1> QED BY <1>1, <1>2

LEMMA AllocCounts ==
  ASSUME NEW z \in States, z.err = "OK", z.crefs > 0 => CTotal > 1
  PROVE  LET y == soAllocCluster(z) IN
         /\ y \in States
         /\ Threw(y) => y.cfree + y.crefs = z.cfree + z.crefs /\ y.ret = z.ret
         /\ ~ Threw(y) => y.cfree + y.crefs + 1 = z.cfree + z.crefs
<1> DEFINE v == Ready(z)
           y == soAllocCluster(z)
<1>0. z.cfree \in Nat /\ z.crefs \in Nat
  BY DEF States
<1>1. /\ y \in States
      /\ z.cfree = 0 => SameBut(z, y) /\ Threw(y)
      /\ z.cfree # 0 =>
           /\ v \in States
           /\ Threw(v) => y = v
           /\ ~ Threw(v) => Taken(v, y)
  BY AllocIs
<1>2. /\ v \in States => v.cfree + v.crefs = z.cfree + z.crefs
      /\ Threw(v) => v.ret = z.ret
  <2>1. CASE z.chead.out = z.chead.in /\ HeadReference(z) = NULL_REFERENCE
    <3>1. z.chead.ref[z.chead.out] = NULL_REFERENCE /\ v = soReplenish(z)
      BY <2>1 DEF HeadReference, Ready
    <3> HIDE DEF v
    <3> QED BY <3>1, ReplenishCounts
  <2>2. CASE ~ (z.chead.out = z.chead.in /\ HeadReference(z) = NULL_REFERENCE)
    BY <2>2 DEF Ready
  <2> QED BY <2>1, <2>2
<1> HIDE DEF v, y
<1>3. CASE z.cfree = 0
  BY <1>0, <1>1, <1>3 DEF SameBut, y
<1>4. CASE z.cfree # 0 /\ Threw(v)
  BY <1>1, <1>2, <1>4 DEF y
<1>5. CASE z.cfree # 0 /\ ~ Threw(v)
  <2>1. v.cfree + v.crefs = z.cfree + z.crefs /\ v.cfree \in Nat /\ v.crefs \in Nat
    BY <1>1, <1>2, <1>5 DEF States
  <2>2. y.cfree = v.cfree - 1 /\ y.crefs = v.crefs /\ ~ Threw(y)
    BY <1>1, <1>5 DEF Taken, Threw
  <2>3. y.cfree + y.crefs + 1 = z.cfree + z.crefs
    BY <1>0, <2>1, <2>2
  <2> QED BY <1>1, <2>2, <2>3 DEF y
<1> QED BY <1>3, <1>4, <1>5

LEMMA DepleteCounts ==
  ASSUME NEW z \in States, z.err = "OK", z.crefs > 0 => CTotal > 1
  PROVE  LET d == soDeplete(z) IN
         d \in States /\ d.cfree + d.crefs = z.cfree + z.crefs
<1> DEFINE d == soDeplete(z)
<1>0. z.cfree \in Nat /\ z.crefs \in Nat
  BY DEF States
<1>1. CASE z.crefs = 0 \/ z.ctail.ref[z.ctail.out] = NULL_REFERENCE
  <2>1. d \in States /\ d.cfree = z.cfree /\ d.crefs = z.crefs
    BY <1>1, EasyDepletion
  <2> HIDE DEF d
  <2> QED BY <1>0, <2>1 DEF d
<1>2. CASE z.crefs # 0 /\ z.ctail.ref[z.ctail.out] # NULL_REFERENCE
  <2> DEFINE x == Started(z).z
             y == soAllocCluster(x)
             e == Depleted(z, y)
  <2>1. /\ x \in States /\ x.err = "OK"
        /\ x.cfree = z.cfree /\ x.crefs = z.crefs
    BY StartedIs DEF Locals
  <2> HIDE DEF x
  <2>2. /\ y \in States
        /\ Threw(y) => y.cfree + y.crefs = x.cfree + x.crefs
        /\ ~ Threw(y) => y.cfree + y.crefs + 1 = x.cfree + x.crefs
    BY <2>1, AllocCounts
  <2>3. d = e
    BY <1>2, <2>2, DepleteIs DEF x
  <2> HIDE DEF y, d
  <2>4. /\ e \in States
        /\ ~ More(Started(z)) =>
              /\ e.chead = z.chead /\ e.cfree = z.cfree /\ e.crefs = z.crefs
              /\ e.ret = z.ret /\ e.err = z.err
        /\ More(Started(z)) /\ Threw(y) => e = y
        /\ More(Started(z)) /\ ~ Threw(y) =>
              /\ e.chead = y.chead /\ e.cfree = y.cfree /\ e.crefs = y.crefs + 1
              /\ e.ret = y.ret /\ e.err = y.err
    BY <2>2, DepletedSummary
  <2> HIDE DEF e
  <2>5. y.cfree \in Nat /\ y.crefs \in Nat
    BY <2>2 DEF States
  <2>6. CASE ~ More(Started(z))
    BY <1>0, <2>3, <2>4, <2>6 DEF d
  <2>7. CASE More(Started(z)) /\ Threw(y)
    BY <1>0, <2>1, <2>2, <2>3, <2>4, <2>7 DEF d
  <2>8. CASE More(Started(z)) /\ ~ Threw(y)
    <3>1. e.cfree + e.crefs = z.cfree + z.crefs
      BY <1>0, <2>1, <2>2, <2>4, <2>5, <2>8
    <3> QED BY <2>3, <2>4, <3>1 DEF d
  <2> QED BY <2>6, <2>7, <2>8
<1> QED BY <1>1, <1>2

-----------------------------------------------------------------------------
(* The volume as mksofs leaves it *)

LEMMA Division ==
  ASSUME NEW a \in Nat, NEW b \in Nat \ {0}
  PROVE  a \div b \in Nat /\ (a \div b) * b <= a /\ a < (a \div b) * b + b
<1>1. a = (a \div b) * b + (a % b)
  OBVIOUS
<1>2. a \div b \in Nat /\ a % b \in 0 .. b - 1
  OBVIOUS
<1> QED BY <1>1, <1>2

LEMMA FormattedIs ==
  ASSUME NEW n, n = (CTotal - 1 + RPC - 1) \div RPC
  PROVE  /\ n \in Nat /\ n <= CTotal - 1
         /\ n = 0 <=> CTotal = 1
         /\ (n - 1) * (RPC - 1) <= CTotal - 1 - n
         /\ CTotal - 1 - n <= n * (RPC - 1)
         /\ Formatted.crefs = n /\ Formatted.cfree = CTotal - 1 - n
         /\ Formatted.head = [cluster |-> 1, idx |-> 0]
         /\ Formatted.tail.cluster = n
         /\ Formatted.tail.idx \in Position
<1> DEFINE f == CTotal - 1 - n
<1>1. CTotal \in Nat \ {0} /\ RPC \in Nat /\ RPC > 2 /\ Word \in Nat /\ CTotal + 2 < Word
  BY Sizes
<1>2. n \in Nat /\ n * RPC <= CTotal - 1 + RPC - 1 /\ CTotal - 1 + RPC - 1 < n * RPC + RPC
  <2> DEFINE a == CTotal - 1 + RPC - 1
  <2>1. a \in Nat
    BY <1>1
  <2> HIDE DEF a
  <2>2. a \div RPC \in Nat /\ (a \div RPC) * RPC <= a /\ a < (a \div RPC) * RPC + RPC
    <3>1. RPC \in Nat \ {0}
      BY <1>1
    <3> QED BY <2>1, <3>1, Division
  <2> QED BY <2>2 DEF a
<1>3. (n - 1) * (RPC - 1) = n * RPC - n - RPC + 1 /\ n * (RPC - 1) = n * RPC - n
  BY <1>1, <1>2
<1>4. n * RPC \in Nat /\ n * RPC >= n
  <2>1. n * (RPC - 1) \in Nat
    BY <1>1, <1>2
  <2> QED BY <1>1, <1>2, <1>3, <2>1
<1>5. /\ (n - 1) * (RPC - 1) <= f /\ f <= n * (RPC - 1)
  BY <1>1, <1>2, <1>3, <1>4
<1>6. n <= CTotal - 1 /\ (n = 0 <=> CTotal = 1)
  <2>1. CASE n = 0
    <3>1. n * RPC = 0
      BY <1>1, <2>1
    <3> QED BY <1>1, <1>2, <2>1, <3>1
  <2>2. CASE n # 0
    <3>1. (n - 1) * (RPC - 1) \in Nat
      BY <1>1, <1>2, <2>2
    <3> QED BY <1>1, <1>2, <1>5, <2>2, <3>1
  <2> QED BY <2>1, <2>2
<1>7. f \in Nat
  BY <1>1, <1>2, <1>6
<1> DEFINE itsize == Layout!InodeTableBlocks(CTotal + 2, 1, 1)
           ctotal == Layout!Minus((CTotal + 2) - 1, itsize) \div 1
           clusters == Layout!Minus(ctotal, 1)
           rpc == Layout!RefsPerCluster(1)
           crefs == Layout!CeilDiv(clusters, rpc)
           cfree == Layout!Minus(clusters, crefs)
           kept == Layout!TailClusters(crefs, cfree, rpc)
<1>8. /\ Formatted.crefs = kept /\ Formatted.cfree = cfree
      /\ Formatted.head = [cluster |-> 1, idx |-> 0]
      /\ Formatted.tail.cluster = kept
      /\ Formatted.tail.idx = Layout!TailIndex(crefs, cfree, rpc)
  <2> DEFINE i1 == itsize * 1
             i2 == Layout!Minus(itsize * 1, 1)
             i3 == itsize + 1
             idx == Layout!TailIndex(crefs, cfree, rpc)
  <2>1. Formatted = [csize |-> 1, ntotal |-> CTotal + 2, itstart |-> 1, itsize |-> itsize,
          itotal |-> i1, ifree |-> i2, ihead |-> 1, itail |-> i2, czstart |-> i3,
          ctotal |-> ctotal, cfree |-> cfree, crefs |-> kept,
          head |-> [cluster |-> 1, idx |-> 0], tail |-> [cluster |-> kept, idx |-> idx]]
    BY Zenon DEF Formatted, Layout!Superblock
  <2> HIDE DEF itsize, i1, i2, i3, idx, ctotal, cfree, kept
  <2>2. Formatted.tail.idx = idx
    BY <2>1
  <2> QED BY <2>1, <2>2 DEF idx
<1>9. itsize = 1
  <2>1. Layout!CeilDiv(1, 1) = 1
    BY DEF Layout!CeilDiv
  <2>2. \A a \in Int : a % 1 = 0
    <3>1. ASSUME NEW a \in Int PROVE a % 1 \in 0 .. 0
      OBVIOUS
    <3> QED BY <3>1
  <2>3. Layout!Minus((CTotal + 2) - 1, Layout!CeilDiv(1, 1)) \in Int
    <3> DEFINE k == Layout!CeilDiv(1, 1)
    <3>1. k = 1
      BY <2>1
    <3>2. Layout!Minus((CTotal + 2) - 1, k) = ((CTotal + 2) - 1 - k) % Word
      BY DEF Layout!Minus
    <3> HIDE DEF k
    <3>3. ((CTotal + 2) - 1 - k) % Word \in Int
      BY <1>1, <3>1
    <3> QED BY <3>2, <3>3 DEF k
  <2>4. Layout!Minus((CTotal + 2) - 1, Layout!CeilDiv(1, 1)) % 1 = 0
    BY <2>2, <2>3
  <2> DEFINE k == Layout!CeilDiv(1, 1)
             m == Layout!Minus((CTotal + 2) - 1, k) % 1
  <2>5. itsize = k + m
    BY Zenon DEF Layout!InodeTableBlocks
  <2>6. k = 1 /\ m = 0
    BY <2>1, <2>4
  <2> HIDE DEF k, m, itsize
  <2> QED BY <2>5, <2>6
<1>10. ctotal = CTotal
  <2> HIDE DEF itsize
  <2>1. ASSUME NEW a \in Nat PROVE a \div 1 = a
    <3> DEFINE b == 1
    <3>1. b \in Nat \ {0}
      OBVIOUS
    <3> HIDE DEF b
    <3>2. a \div b \in Nat /\ (a \div b) * b <= a /\ a < (a \div b) * b + b
      BY <3>1, Division
    <3>3. (a \div b) * b = a \div b /\ b = 1
      BY <3>2 DEF b
    <3>4. a \div b = a
      BY <3>2, <3>3
    <3> QED BY <3>4 DEF b
  <2>2. Layout!Minus((CTotal + 2) - 1, itsize) = CTotal
    BY <1>1, <1>9 DEF Layout!Minus
  <2> QED BY <1>1, <2>1, <2>2
<1>11. clusters = CTotal - 1
  <2> HIDE DEF ctotal
  <2> QED BY <1>1, <1>10 DEF Layout!Minus
<1>12. rpc = RPC
  BY <1>1 DEF Layout!RefsPerCluster
<1> HIDE DEF itsize, ctotal, clusters, rpc
<1>13. crefs = n
  BY <1>11, <1>12 DEF Layout!CeilDiv
<1> HIDE DEF crefs
<1>14. cfree = f
  <2>1. \A a \in 0 .. Word - 1 : a % Word = a
    BY <1>1
  <2>2. f \in 0 .. Word - 1
    BY <1>1, <1>2, <1>7
  <2> QED BY <1>11, <1>13, <2>1, <2>2 DEF Layout!Minus
<1> HIDE DEF cfree
<1>15. kept = n
  BY <1>1, <1>2, <1>5, <1>12, <1>13, <1>14 DEF Layout!TailClusters
<1>16. Layout!TailIndex(crefs, cfree, rpc) \in Position
  <2> DEFINE m == cfree % (rpc - 1)
  <2>1. m \in 0 .. RPC - 2
    BY <1>1, <1>7, <1>12, <1>14
  <2> HIDE DEF m
  <2> QED BY <1>1, <1>12, <2>1 DEF Layout!TailIndex, Position, m
<1> QED BY <1>2, <1>5, <1>6, <1>8, <1>13, <1>14, <1>15, <1>16

-----------------------------------------------------------------------------
(* Types and counters: the invariant, and its theorems *)

Ranges == fl \in States /\ held \subseteq Cluster
Counted == Ranges /\ NeverOvercounts

LEMMA HeldFinite ==
  ASSUME held \subseteq Cluster
  PROVE  IsFiniteSet(held) /\ Cardinality(held) \in Nat
<1>1. IsFiniteSet(Cluster)
  BY Sizes, FS_Interval DEF Cluster
<1> QED BY <1>1, FS_Subset, FS_CardinalityType

LEMMA HeldMore ==
  ASSUME held \subseteq Cluster, NEW c
  PROVE  /\ Cardinality(held \cup {c}) <= Cardinality(held) + 1
         /\ Cardinality(held \cup {c}) \in Nat
         /\ c \in held => Cardinality(held \ {c}) = Cardinality(held) - 1
<1>1. IsFiniteSet(held) /\ Cardinality(held) \in Nat
  BY HeldFinite
<1>2. Cardinality(held \cup {c}) = IF c \in held THEN Cardinality(held) ELSE Cardinality(held) + 1
  BY <1>1, FS_AddElement
<1>3. Cardinality(held \ {c}) = IF c \in held THEN Cardinality(held) - 1 ELSE Cardinality(held)
  BY <1>1, FS_RemoveElement
<1> QED BY <1>1, <1>2, <1>3

LEMMA CountedRanges ==
  ASSUME Counted
  PROVE  /\ fl.cfree \in 0 .. CTotal /\ fl.crefs \in 0 .. CTotal
         /\ fl.crefs > 0 => CTotal > 1
<1>1. fl.cfree \in Nat /\ fl.crefs \in Nat /\ Cardinality(held) \in Nat
  BY HeldFinite DEF Counted, Ranges, States
<1>2. fl.cfree + fl.crefs + Cardinality(held) + 1 <= CTotal
  BY DEF Counted, NeverOvercounts
<1> QED BY <1>1, <1>2, Sizes

LEMMA CountedTypeOK ==
  ASSUME Counted
  PROVE  TypeOK
<1>1. fl \in States /\ held \subseteq Cluster
  BY DEF Counted, Ranges
<1>2. fl.cfree \in 0 .. CTotal /\ fl.crefs \in 0 .. CTotal
  BY CountedRanges
<1>3. fl.chead \in Heads /\ fl.ctail \in Tails
  BY <1>1 DEF States
<1>4. \A c \in Cluster : fl.disk[c] \in Array
  BY <1>1 DEF States
<1>5. /\ fl.refs \subseteq Cluster /\ fl.stray \subseteq 0 .. Word - 1
      /\ fl.ret \in OptCluster /\ fl.err \in {"OK", "ENOSPC", "EINVAL"} /\ fl.deep \in BOOLEAN
  BY <1>1 DEF States
<1> QED BY <1>1, <1>2, <1>3, <1>4, <1>5 DEF TypeOK, Heads, Tails, Cache, Array

LEMMA InitCounted ==
  ASSUME Init
  PROVE  Counted
<1> DEFINE n == (CTotal - 1 + RPC - 1) \div RPC
           chead == [ref |-> Empty, in |-> 0, out |-> 0,
                     cluster_number |-> Formatted.head.cluster,
                     cluster_idx |-> Formatted.head.idx]
           ctail == [ref |-> Empty, in |-> 0, out |-> 0,
                     cluster_number |-> Formatted.tail.cluster,
                     cluster_idx |-> Formatted.tail.idx]
           disk == [c \in Cluster |->
                        IF c \in 1 .. Formatted.crefs
                          THEN Layout!ReferenceCluster(CTotal, Formatted.cfree, RPC, c - 1)
                          ELSE [p \in Position |-> NULL_REFERENCE]]
           refs == 1 .. Formatted.crefs
<1>1. /\ n \in Nat /\ n <= CTotal - 1
      /\ Formatted.crefs = n /\ Formatted.cfree = CTotal - 1 - n
      /\ Formatted.head = [cluster |-> 1, idx |-> 0]
      /\ Formatted.tail.cluster = n
      /\ Formatted.tail.idx \in Position
  BY FormattedIs
<1> HIDE DEF n
<1>2. /\ fl = [ cfree |-> Formatted.cfree, crefs |-> Formatted.crefs,
                chead |-> chead, ctail |-> ctail, disk |-> disk, refs |-> refs,
                ret |-> NULL_REFERENCE, err |-> "OK", stray |-> {}, deep |-> FALSE ]
      /\ held = {}
  BY DEF Init
<1>3. Empty \in Cache /\ 0 \in Slot /\ 0 \in Position
  BY NullIs, Sizes DEF Empty, Cache, Slot, Position
<1>4. chead \in Heads
  BY <1>1, <1>3, Sizes DEF Heads
<1>5. ctail \in Tails
  <2>1. n \in OptCluster
    BY <1>1, Sizes DEF OptCluster, Cluster
  <2> QED BY <1>1, <1>3, <2>1 DEF Tails
<1>6. disk \in [Cluster -> Array]
  <2> SUFFICES ASSUME NEW c \in Cluster PROVE disk[c] \in Array
    OBVIOUS
  <2>1. CASE c \in 1 .. Formatted.crefs
    <3> DEFINE r == Layout!ReferenceCluster(CTotal, Formatted.cfree, RPC, c - 1)
    <3>1. r = [j \in 0 .. RPC - 1 |-> Layout!Reference(CTotal, Formatted.cfree, RPC, c - 1, j)]
      BY DEF Layout!ReferenceCluster
    <3>2. ASSUME NEW j \in 0 .. RPC - 1
          PROVE  Layout!Reference(CTotal, Formatted.cfree, RPC, c - 1, j) \in OptCluster
      <4> DEFINE i == c - 1
                 k == i * (RPC - 1)
                 listed == CTotal - Formatted.cfree + k + j
                 v == Layout!Reference(CTotal, Formatted.cfree, RPC, i, j)
      <4>1. v = CASE listed >= CTotal -> NULL_REFERENCE
                  [] listed < CTotal /\ j # RPC - 1 -> listed
                  [] OTHER -> i + 2
        BY Zenon DEF Layout!Reference, NULL_REFERENCE, Layout!NULL_REFERENCE
      <4>2. i \in 0 .. n - 1
        BY <1>1, <2>1
      <4> HIDE DEF i
      <4>3. k \in Nat /\ k >= i
        <5>1. i \in Nat /\ RPC - 1 \in Nat /\ RPC - 1 >= 1
          BY <4>2, <1>1, Sizes
        <5>2. i * (RPC - 1) \in Nat /\ i * (RPC - 1) = i * (RPC - 2) + i /\ i * (RPC - 2) \in Nat
          BY <5>1, Sizes
        <5> QED BY <5>1, <5>2
      <4> HIDE DEF k
      <4>4. listed \in Nat /\ listed = n + 1 + k + j
        BY <1>1, <4>2, <4>3, Sizes
      <4> HIDE DEF listed, v
      <4>5. v \in OptCluster
        <5>1. CASE listed >= CTotal
          BY <4>1, <4>4, <5>1, NullIs, Sizes
        <5>2. CASE listed < CTotal /\ j # RPC - 1
          <6>1. v = listed
            BY <4>1, <4>4, <5>2, Sizes
          <6> QED BY <4>4, <5>2, <6>1, Sizes DEF OptCluster, Cluster
        <5>3. CASE listed < CTotal /\ j = RPC - 1
          <6>1. v = i + 2
            BY <4>1, <4>4, <5>3, Sizes
          <6>2. i + 2 \in Nat /\ i + 2 < CTotal
            BY <1>1, <4>2, <4>3, <4>4, <5>3, Sizes
          <6> QED BY <6>1, <6>2, Sizes DEF OptCluster, Cluster
        <5> QED BY <4>4, <5>1, <5>2, <5>3, Sizes
      <4> QED BY <4>5 DEF v, i
    <3>3. r \in Array
      BY <3>1, <3>2 DEF Array, Position
    <3> QED BY <2>1, <3>3
  <2>2. CASE c \notin 1 .. Formatted.crefs
    BY <2>2, NullIs DEF Array
  <2> QED BY <2>1, <2>2
<1>7. refs \in SUBSET Cluster
  BY <1>1, Sizes DEF Cluster
<1> HIDE DEF chead, ctail, disk, refs
<1>8. fl \in States
  BY <1>1, <1>2, <1>4, <1>5, <1>6, <1>7, NullIs, Sizes DEF States
<1>9. Cardinality(held) = 0
  BY <1>2, FS_EmptySet
<1> QED BY <1>1, <1>2, <1>8, <1>9, Sizes DEF Counted, Ranges, NeverOvercounts

(* A call that answers with an error has changed no count but between the     *)
(* references and the reference clusters.                                     *)
LEMMA FreeCounts ==
  ASSUME NEW z \in States, z.err = "OK", z.crefs > 0 => CTotal > 1, NEW cn
  PROVE  LET y == soFreeCluster(z, cn) IN
         /\ cn \in Cluster => y \in States /\ y.cfree + y.crefs <= z.cfree + z.crefs + 1
         /\ cn >= CTotal => y = Throw(z, "EINVAL")
<1> DEFINE d == IF z.ctail.ref[z.ctail.in] # NULL_REFERENCE THEN soDeplete(z) ELSE z
           y == soFreeCluster(z, cn)
<1>0. z.cfree \in Nat /\ z.crefs \in Nat
  BY DEF States
<1>1. y = IF cn >= CTotal THEN Throw(z, "EINVAL")
          ELSE IF Threw(d) THEN d ELSE [Push(d, cn) EXCEPT !.cfree = @ + 1]
  BY DEF soFreeCluster
<1>2. d \in States /\ d.cfree + d.crefs = z.cfree + z.crefs
  <2>1. CASE z.ctail.ref[z.ctail.in] # NULL_REFERENCE
    <3> DEFINE e == soDeplete(z)
    <3>1. e \in States /\ e.cfree + e.crefs = z.cfree + z.crefs
      BY DepleteCounts
    <3> HIDE DEF e
    <3> QED BY <2>1, <3>1 DEF e
  <2>2. CASE z.ctail.ref[z.ctail.in] = NULL_REFERENCE
    BY <2>2
  <2> QED BY <2>1, <2>2
<1> HIDE DEF d, y
<1>3. d.cfree \in Nat /\ d.crefs \in Nat
  BY <1>2 DEF States
<1>4. ASSUME cn \in Cluster
      PROVE  y \in States /\ y.cfree + y.crefs <= z.cfree + z.crefs + 1
  <2>0. ~ (cn >= CTotal) /\ cn \in OptCluster
    BY <1>4, Sizes, Numbers DEF Cluster
  <2>1. CASE Threw(d)
    <3>1. y = d
      BY <1>1, <2>0, <2>1
    <3> QED BY <1>0, <1>2, <1>3, <3>1
  <2>2. CASE ~ Threw(d)
    <3> DEFINE p == Push(d, cn)
               e == [p EXCEPT !.cfree = p.cfree + 1]
    <3>1. p \in States /\ p.cfree = d.cfree /\ p.crefs = d.crefs
      BY <1>2, <2>0, PushType
    <3>2. y = e
      BY <1>1, <2>0, <2>2
    <3> HIDE DEF p
    <3>3. e \in States /\ e.cfree = d.cfree + 1 /\ e.crefs = d.crefs
      BY <1>3, <3>1 DEF States
    <3> HIDE DEF e
    <3> QED BY <1>0, <1>2, <1>3, <3>2, <3>3
  <2> QED BY <2>1, <2>2
<1>5. ASSUME cn >= CTotal PROVE y = Throw(z, "EINVAL")
  BY <1>1, <1>5
<1> QED BY <1>4, <1>5 DEF y

LEMMA NextCounted ==
  ASSUME Counted, [Next]_vars
  PROVE  Counted'
<1> DEFINE z == Call(fl)
<1>1. fl \in States /\ held \subseteq Cluster /\ (fl.crefs > 0 => CTotal > 1)
  BY CountedRanges DEF Counted, Ranges
<1>2. /\ z \in States /\ z.err = "OK" /\ z.ret = NULL_REFERENCE
      /\ z.cfree = fl.cfree /\ z.crefs = fl.crefs
  BY <1>1, CallType
<1>3. z.crefs > 0 => CTotal > 1
  BY <1>1, <1>2
<1> HIDE DEF z
<1>4. fl.cfree \in Nat /\ fl.crefs \in Nat /\ Cardinality(held) \in Nat
  BY <1>1, HeldFinite DEF States
<1>5. fl.cfree + fl.crefs + Cardinality(held) + 1 <= CTotal
  BY DEF Counted, NeverOvercounts
<1>6. CASE Alloc
  <2> DEFINE y == soAllocCluster(z)
  <2>1. /\ y \in States
        /\ Threw(y) => y.cfree + y.crefs = z.cfree + z.crefs /\ y.ret = z.ret
        /\ ~ Threw(y) => y.cfree + y.crefs + 1 = z.cfree + z.crefs
    BY <1>2, <1>3, AllocCounts
  <2>2. fl' = y /\ held' = (held \cup {y.ret}) \ {NULL_REFERENCE}
    BY <1>6 DEF Alloc, z
  <2> HIDE DEF y
  <2>3. y.cfree \in Nat /\ y.crefs \in Nat /\ y.ret \in OptCluster
    BY <2>1 DEF States
  <2>4. held' \subseteq Cluster
    BY <1>1, <2>2, <2>3 DEF OptCluster
  <2>5. CASE y.ret = NULL_REFERENCE
    <3>1. held' = held
      BY <1>1, <2>2, <2>5, NullIs
    <3>2. Cardinality(held') = Cardinality(held)
      BY <3>1
    <3>3. y.cfree + y.crefs <= fl.cfree + fl.crefs
      BY <1>2, <1>4, <2>1, <2>3
    <3>4. y.cfree + y.crefs + Cardinality(held') + 1 <= CTotal
      BY <1>4, <1>5, <2>3, <3>2, <3>3, Sizes
    <3> QED BY <2>1, <2>2, <2>4, <3>4 DEF Counted, Ranges, NeverOvercounts
  <2>6. CASE y.ret # NULL_REFERENCE
    <3>1. held' = held \cup {y.ret}
      BY <1>1, <2>2, <2>6, NullIs
    <3>2. Cardinality(held') <= Cardinality(held) + 1 /\ Cardinality(held') \in Nat
      BY <1>1, <3>1, HeldMore
    <3>3. y.cfree + y.crefs + 1 = fl.cfree + fl.crefs
      <4>1. ~ Threw(y)
        BY <1>2, <2>1, <2>6
      <4> QED BY <1>2, <2>1, <4>1
    <3>4. y.cfree + y.crefs + Cardinality(held') + 1 <= CTotal
      BY <1>4, <1>5, <2>3, <3>2, <3>3, Sizes
    <3> QED BY <2>1, <2>2, <2>4, <3>4 DEF Counted, Ranges, NeverOvercounts
  <2> QED BY <2>5, <2>6
<1>7. ASSUME NEW cn \in held, Free(cn)
      PROVE  Counted'
  <2> DEFINE y == soFreeCluster(z, cn)
  <2>1. y \in States /\ y.cfree + y.crefs <= z.cfree + z.crefs + 1
    <3>1. cn \in Cluster
      BY <1>1, <1>7
    <3> QED BY <1>2, <1>3, <3>1, FreeCounts
  <2>2. fl' = y /\ held' = held \ {cn}
    BY <1>7 DEF Free, z
  <2> HIDE DEF y
  <2>3. Cardinality(held') = Cardinality(held) - 1
    BY <1>1, <1>7, <2>2, HeldMore
  <2>4. y.cfree \in Nat /\ y.crefs \in Nat
    BY <2>1 DEF States
  <2>5. y.cfree + y.crefs + Cardinality(held') + 1 <= CTotal
    BY <1>2, <1>4, <1>5, <2>1, <2>3, <2>4, Sizes
  <2>6. held' \subseteq Cluster
    BY <1>1, <2>2
  <2> QED BY <2>1, <2>2, <2>5, <2>6 DEF Counted, Ranges, NeverOvercounts
<1>8. CASE FreeInvalid
  <2>1. PICK cn \in {CTotal, NULL_REFERENCE} : fl' = soFreeCluster(z, cn)
    BY <1>8 DEF FreeInvalid, z
  <2>2. cn >= CTotal
    BY <2>1, NullIs, Sizes
  <2>3. fl' = Throw(z, "EINVAL")
    BY <1>2, <1>3, <2>1, <2>2, FreeCounts
  <2> DEFINE y == Throw(z, "EINVAL")
  <2>4. y \in States /\ y.cfree = z.cfree /\ y.crefs = z.crefs
    BY <1>2, ThrowType
  <2> HIDE DEF y
  <2>5. fl' = y /\ held' = held
    BY <1>8, <2>3 DEF FreeInvalid, y
  <2>6. Cardinality(held') = Cardinality(held)
    BY <2>5
  <2>7. y.cfree + y.crefs + Cardinality(held') + 1 <= CTotal
    BY <1>2, <1>4, <1>5, <2>4, <2>6
  <2> QED BY <1>1, <2>4, <2>5, <2>7 DEF Counted, Ranges, NeverOvercounts
<1>9. CASE UNCHANGED vars
  BY <1>9 DEF vars, Counted, Ranges, NeverOvercounts
<1> QED BY <1>6, <1>7, <1>8, <1>9 DEF Next

(* The ranges and the counters, together: the counters are needed for the      *)
(* ranges of cfree and crefs.                                                  *)
THEOREM CountedAlways == Spec => []Counted
<1>1. Init => Counted
  BY InitCounted
<1>2. Counted /\ [Next]_vars => Counted'
  BY NextCounted
<1> QED BY <1>1, <1>2, PTL DEF Spec

(* TypeOK: every index of a cache stays a slot of it, every index of a         *)
(* reference cluster a position, and every number a cluster or null, whatever *)
(* soReplenish, soDeplete and soAllocCluster make of each other.               *)
THEOREM TypesHold == Spec => []TypeOK
<1>1. Counted => TypeOK
  BY CountedTypeOK
<1> QED BY <1>1, CountedAlways, PTL

(* NeverOvercounts: the free clusters, the reference clusters, the clusters    *)
(* handed out and the root's together never exceed the volume, whether the     *)
(* calls answer or fail half way.                                              *)
THEOREM CountersNeverOver == Spec => []NeverOvercounts
<1>1. Counted => NeverOvercounts
  BY DEF Counted
<1> QED BY <1>1, CountedAlways, PTL

-----------------------------------------------------------------------------
(* Where a cluster is: in a slot of a cache, in a position of a reference      *)
(* cluster, in use, or a reference cluster itself.  U are the clusters in use  *)
(* and K, for each cluster and position, what can be there: the cluster on     *)
(* disk and, in the middle of soDeplete, its array.                            *)
Low(z, a) == IF a = z.chead.cluster_number THEN z.chead.cluster_idx ELSE 0
Lists(z, U, K, k, a, b, v) ==
  /\ v # NULL_REFERENCE
  /\ \/ k = "head" /\ a \in Slot /\ b = 0 /\ v = z.chead.ref[a]
     \/ k = "tail" /\ a \in Slot /\ b = 0 /\ v = z.ctail.ref[a]
     \/ k = "refs" /\ a \in z.refs /\ b \in Low(z, a) .. RPC - 2 /\ v \in K[a][b]
     \/ k = "use" /\ a = v /\ b = 0 /\ v \in U
     \/ k = "ref" /\ a = v /\ b = 0 /\ v \in z.refs

\* Every cluster is in one place.
Sound(z, U, K) ==
  \A k1, a1, b1, k2, a2, b2, v :
    Lists(z, U, K, k1, a1, b1, v) /\ Lists(z, U, K, k2, a2, b2, v)
      => k1 = k2 /\ a1 = a2 /\ b1 = b2

\* The clusters as they are on disk, with the array ref of soDeplete for t,
\* and with an array instead of cluster t.
Stored(z) == [c \in Cluster |-> [p \in Position |-> {z.disk[c][p]}]]
Buffered(z, t, ref) ==
  [c \in Cluster |-> [p \in Position |->
     IF c = t THEN {z.disk[c][p], ref[p]} ELSE {z.disk[c][p]}]]
Instead(z, t, ref) ==
  [c \in Cluster |-> [p \in Position |-> IF c = t THEN {ref[p]} ELSE {z.disk[c][p]}]]

LEMMA StoredIs ==
  ASSUME NEW z, NEW ref
  PROVE  Buffered(z, NULL_REFERENCE, ref) = Stored(z)
BY NullIs DEF Buffered, Stored

LEMMA FewerSound ==
  ASSUME NEW x, NEW U, NEW K, Sound(x, U, K), NEW y, NEW V, NEW L,
         \A k, a, b, v : Lists(y, V, L, k, a, b, v) => Lists(x, U, K, k, a, b, v)
  PROVE  Sound(y, V, L)
BY DEF Sound

(* What leaves nothing new anywhere keeps every cluster in one place.          *)
Less(y, V, L, x, U, K) ==
  /\ V \subseteq U
  /\ \A s \in Slot : y.chead.ref[s] \in {x.chead.ref[s], NULL_REFERENCE}
  /\ \A s \in Slot : y.ctail.ref[s] \in {x.ctail.ref[s], NULL_REFERENCE}
  /\ y.refs \subseteq x.refs
  /\ \A a \in y.refs : Low(y, a) \in Int /\ Low(x, a) \in Int /\ Low(x, a) <= Low(y, a)
  /\ \A a \in y.refs : \A b \in Low(y, a) .. RPC - 2 : L[a][b] \subseteq K[a][b]

LEMMA LessSound ==
  ASSUME NEW x, NEW U, NEW K, Sound(x, U, K), NEW y, NEW V, NEW L, Less(y, V, L, x, U, K)
  PROVE  Sound(y, V, L)
<1>0. /\ V \subseteq U
      /\ \A s \in Slot : y.chead.ref[s] \in {x.chead.ref[s], NULL_REFERENCE}
      /\ \A s \in Slot : y.ctail.ref[s] \in {x.ctail.ref[s], NULL_REFERENCE}
      /\ y.refs \subseteq x.refs
      /\ \A a \in y.refs : Low(y, a) \in Int /\ Low(x, a) \in Int /\ Low(x, a) <= Low(y, a)
      /\ \A a \in y.refs : \A b \in Low(y, a) .. RPC - 2 : L[a][b] \subseteq K[a][b]
  BY DEF Less
<1>1. ASSUME NEW k, NEW a, NEW b, NEW v, Lists(y, V, L, k, a, b, v)
      PROVE  Lists(x, U, K, k, a, b, v)
  <2>0. v # NULL_REFERENCE
    BY <1>1 DEF Lists
  <2>1. CASE k = "head" /\ a \in Slot /\ b = 0 /\ v = y.chead.ref[a]
    BY <1>0, <2>0, <2>1 DEF Lists
  <2>2. CASE k = "tail" /\ a \in Slot /\ b = 0 /\ v = y.ctail.ref[a]
    BY <1>0, <2>0, <2>2 DEF Lists
  <2>3. CASE k = "refs" /\ a \in y.refs /\ b \in Low(y, a) .. RPC - 2 /\ v \in L[a][b]
    <3>1. b \in Low(x, a) .. RPC - 2
      BY <1>0, <2>3, Sizes
    <3> QED BY <1>0, <2>0, <2>3, <3>1 DEF Lists
  <2>4. CASE k = "use" /\ a = v /\ b = 0 /\ v \in V
    BY <1>0, <2>0, <2>4 DEF Lists
  <2>5. CASE k = "ref" /\ a = v /\ b = 0 /\ v \in y.refs
    BY <1>0, <2>0, <2>5 DEF Lists
  <2> QED BY <1>1, <2>1, <2>2, <2>3, <2>4, <2>5 DEF Lists
<1> QED BY <1>1, FewerSound

LEMMA LowType ==
  ASSUME NEW z \in States, NEW a
  PROVE  Low(z, a) \in Position
BY Sizes DEF Low, States, Heads, Position

(* soAllocCluster's last step: a reference leaves the head cache for use.      *)
LEMMA TakenSound ==
  ASSUME NEW x \in States, NEW y, Taken(x, y), NEW U, NEW K, Sound(x, U, K)
  PROVE  /\ Sound(y, U \cup {y.ret}, K)
         /\ y.ret = NULL_REFERENCE \/ y.ret \notin U
<1> DEFINE o == x.chead.out
           c == y.ret
           V == U \cup {c}
<1>1. /\ o \in Slot /\ c = x.chead.ref[o]
      /\ \A s \in Slot : y.chead.ref[s] = IF s = o THEN NULL_REFERENCE ELSE x.chead.ref[s]
      /\ y.chead.cluster_number = x.chead.cluster_number
      /\ y.chead.cluster_idx = x.chead.cluster_idx
      /\ y.ctail = x.ctail /\ y.refs = x.refs
  BY DEF Taken, States, Heads, Cache
<1> HIDE DEF o, c
<1>2. c = NULL_REFERENCE \/ Lists(x, U, K, "head", o, 0, c)
  BY <1>1 DEF Lists
<1>3. c = NULL_REFERENCE \/ c \notin U
  <2>1. c # NULL_REFERENCE /\ c \in U => Lists(x, U, K, "use", c, 0, c)
    BY DEF Lists
  <2> QED BY <1>2, <2>1 DEF Sound
<1>4. ASSUME NEW k, NEW a, NEW b, NEW v, Lists(y, V, K, k, a, b, v)
      PROVE  \/ k = "use" /\ a = c /\ b = 0 /\ v = c /\ Lists(x, U, K, "head", o, 0, v)
             \/ /\ ~ (k = "use" /\ a = c) /\ ~ (k = "head" /\ a = o)
                /\ Lists(x, U, K, k, a, b, v)
  <2>0. v # NULL_REFERENCE
    BY <1>4 DEF Lists
  <2>1. CASE k = "head" /\ a \in Slot /\ b = 0 /\ v = y.chead.ref[a]
    BY <1>1, <2>0, <2>1 DEF Lists
  <2>2. CASE k = "tail" /\ a \in Slot /\ b = 0 /\ v = y.ctail.ref[a]
    BY <1>1, <2>0, <2>2 DEF Lists
  <2>3. CASE k = "refs" /\ a \in y.refs /\ b \in Low(y, a) .. RPC - 2 /\ v \in K[a][b]
    <3>1. Low(x, a) = Low(y, a)
      BY <1>1 DEF Low
    <3> QED BY <1>1, <2>0, <2>3, <3>1 DEF Lists
  <2>4. CASE k = "use" /\ a = v /\ b = 0 /\ v \in V
    <3>1. CASE v = c
      BY <1>2, <2>0, <2>4, <3>1
    <3>2. CASE v # c
      <4>1. v \in U
        BY <2>4, <3>2
      <4> QED BY <2>0, <2>4, <3>2, <4>1 DEF Lists
    <3> QED BY <3>1, <3>2
  <2>5. CASE k = "ref" /\ a = v /\ b = 0 /\ v \in y.refs
    BY <1>1, <2>0, <2>5 DEF Lists
  <2> QED BY <1>4, <2>1, <2>2, <2>3, <2>4, <2>5 DEF Lists
<1>5. ASSUME NEW k1, NEW a1, NEW b1, NEW k2, NEW a2, NEW b2, NEW v,
             Lists(y, V, K, k1, a1, b1, v), Lists(y, V, K, k2, a2, b2, v)
      PROVE  k1 = k2 /\ a1 = a2 /\ b1 = b2
  BY <1>4, <1>5 DEF Sound
<1>6. Sound(y, V, K)
  BY <1>5 DEF Sound
<1> QED BY <1>3, <1>6 DEF c

(* A cluster in use goes to a slot of the tail cache.                         *)
LEMMA PushSound ==
  ASSUME NEW x \in States, NEW U, NEW K, Sound(x, U, K), NEW cn \in U,
         NEW y, y.chead = x.chead, y.refs = x.refs,
         y.ctail.ref = [x.ctail.ref EXCEPT ![x.ctail.in] = cn]
  PROVE  Sound(y, U \ {cn}, K)
<1> DEFINE i == x.ctail.in
           V == U \ {cn}
<1>1. /\ i \in Slot
      /\ \A s \in Slot : y.ctail.ref[s] = IF s = i THEN cn ELSE x.ctail.ref[s]
  BY DEF States, Tails, Cache
<1> HIDE DEF i
<1>4. ASSUME NEW k, NEW a, NEW b, NEW v, Lists(y, V, K, k, a, b, v)
      PROVE  \/ k = "tail" /\ a = i /\ b = 0 /\ v = cn /\ Lists(x, U, K, "use", cn, 0, v)
             \/ /\ ~ (k = "use" /\ a = cn) /\ ~ (k = "tail" /\ a = i)
                /\ Lists(x, U, K, k, a, b, v)
  <2>0. v # NULL_REFERENCE
    BY <1>4 DEF Lists
  <2>1. CASE k = "head" /\ a \in Slot /\ b = 0 /\ v = y.chead.ref[a]
    BY <2>0, <2>1 DEF Lists
  <2>2. CASE k = "tail" /\ a \in Slot /\ b = 0 /\ v = y.ctail.ref[a]
    BY <1>1, <2>0, <2>2 DEF Lists
  <2>3. CASE k = "refs" /\ a \in y.refs /\ b \in Low(y, a) .. RPC - 2 /\ v \in K[a][b]
    <3>1. Low(x, a) = Low(y, a)
      BY DEF Low
    <3> QED BY <2>0, <2>3, <3>1 DEF Lists
  <2>4. CASE k = "use" /\ a = v /\ b = 0 /\ v \in V
    <3>1. v \in U /\ v # cn
      BY <2>4
    <3> QED BY <2>0, <2>4, <3>1 DEF Lists
  <2>5. CASE k = "ref" /\ a = v /\ b = 0 /\ v \in y.refs
    BY <2>0, <2>5 DEF Lists
  <2> QED BY <1>4, <2>1, <2>2, <2>3, <2>4, <2>5 DEF Lists
<1>5. ASSUME NEW k1, NEW a1, NEW b1, NEW k2, NEW a2, NEW b2, NEW v,
             Lists(y, V, K, k1, a1, b1, v), Lists(y, V, K, k2, a2, b2, v)
      PROVE  k1 = k2 /\ a1 = a2 /\ b1 = b2
  BY <1>4, <1>5 DEF Sound
<1> QED BY <1>5 DEF Sound

(* The head cluster becomes a reference of the tail cache; what it still       *)
(* lists is not listed any more.                                               *)
LEMMA RetireSound ==
  ASSUME NEW x \in States, NEW U, NEW K, Sound(x, U, K),
         NEW c, c = x.chead.cluster_number, c \in x.refs \cup {NULL_REFERENCE},
         NEW y, y.chead.ref = x.chead.ref, y.chead.cluster_idx = 0,
         y.refs = x.refs \ {c},
         y.ctail.ref = [x.ctail.ref EXCEPT ![x.ctail.in] = c],
         NEW L, \A a \in y.refs : \A b \in Position : L[a][b] \subseteq K[a][b]
  PROVE  Sound(y, U, L)
<1> DEFINE i == x.ctail.in
<1>1. /\ i \in Slot
      /\ \A s \in Slot : y.ctail.ref[s] = IF s = i THEN c ELSE x.ctail.ref[s]
  BY DEF States, Tails, Cache
<1> HIDE DEF i
<1>4. ASSUME NEW k, NEW a, NEW b, NEW v, Lists(y, U, L, k, a, b, v)
      PROVE  \/ k = "tail" /\ a = i /\ b = 0 /\ v = c /\ Lists(x, U, K, "ref", c, 0, v)
             \/ /\ ~ (k = "ref" /\ a = c) /\ ~ (k = "tail" /\ a = i)
                /\ Lists(x, U, K, k, a, b, v)
  <2>0. v # NULL_REFERENCE
    BY <1>4 DEF Lists
  <2>1. CASE k = "head" /\ a \in Slot /\ b = 0 /\ v = y.chead.ref[a]
    BY <2>0, <2>1 DEF Lists
  <2>2. CASE k = "tail" /\ a \in Slot /\ b = 0 /\ v = y.ctail.ref[a]
    <3>1. CASE a = i
      <4>1. v = c /\ c \in x.refs
        BY <1>1, <2>0, <2>2, <3>1
      <4> QED BY <2>0, <2>2, <3>1, <4>1 DEF Lists
    <3>2. CASE a # i
      BY <1>1, <2>0, <2>2, <3>2 DEF Lists
    <3> QED BY <3>1, <3>2
  <2>3. CASE k = "refs" /\ a \in y.refs /\ b \in Low(y, a) .. RPC - 2 /\ v \in L[a][b]
    <3>1. Low(x, a) = 0 /\ Low(y, a) = 0
      BY <2>3 DEF Low
    <3>2. b \in Position /\ b \in Low(x, a) .. RPC - 2
      BY <2>3, <3>1, Sizes DEF Position
    <3>3. v \in K[a][b] /\ a \in x.refs
      BY <2>3, <3>2
    <3> QED BY <2>0, <2>3, <3>2, <3>3 DEF Lists
  <2>4. CASE k = "use" /\ a = v /\ b = 0 /\ v \in U
    BY <2>0, <2>4 DEF Lists
  <2>5. CASE k = "ref" /\ a = v /\ b = 0 /\ v \in y.refs
    <3>1. v \in x.refs /\ v # c
      BY <2>5
    <3> QED BY <2>0, <2>5, <3>1 DEF Lists
  <2> QED BY <1>4, <2>1, <2>2, <2>3, <2>4, <2>5 DEF Lists
<1>5. ASSUME NEW k1, NEW a1, NEW b1, NEW k2, NEW a2, NEW b2, NEW v,
             Lists(y, U, L, k1, a1, b1, v), Lists(y, U, L, k2, a2, b2, v)
      PROVE  k1 = k2 /\ a1 = a2 /\ b1 = b2
  BY <1>4, <1>5 DEF Sound
<1> QED BY <1>5 DEF Sound

(* The head cluster is one of the reference clusters, or there is none, and    *)
(* its number is read as it is, or nothing is.                                 *)
Trusted(z) ==
  LET c == z.chead.cluster_number IN
  /\ c \in z.refs \cup {NULL_REFERENCE}
  /\ c % Byte = c \/ c % Byte \notin z.refs

LEMMA SourceIs ==
  ASSUME NEW z \in States, Trusted(z), NEW p \in Position
  PROVE  \/ Source(z)[p] = NULL_REFERENCE
         \/ z.chead.cluster_number \in z.refs /\ Source(z)[p] = z.disk[z.chead.cluster_number][p]
<1> DEFINE c == z.chead.cluster_number
<1>1. c % Byte = c \/ c % Byte \notin z.refs
  BY DEF Trusted
<1>2. Source(z) = Read(z, c % Byte)
  BY DEF Source
<1> HIDE DEF c
<1>3. CASE c % Byte \notin z.refs
  BY <1>2, <1>3, ReadType
<1>4. CASE c % Byte = c /\ c \in z.refs
  BY <1>2, <1>4, ReadType DEF c
<1> QED BY <1>1, <1>3, <1>4

LEMMA MovedSound ==
  ASSUME NEW z \in States, Trusted(z), NEW U, NEW K, Sound(z, U, K),
         \A a \in z.refs : \A p \in Position : z.disk[a][p] \in K[a][p]
  PROVE  Sound(Moved(z), U, K)
<1> DEFINE c == z.chead.cluster_number
           h == z.chead.cluster_idx
           n == Moving(z)
           y == Moved(z)
           source == Source(z)
<1>1. /\ y.chead.ref = [s \in Slot |-> IF s < n THEN source[h + s] ELSE z.chead.ref[s]]
      /\ y.chead.cluster_number = c /\ y.chead.cluster_idx = h + n
      /\ y.ctail = z.ctail /\ y.refs = z.refs
  BY MovedType
<1>2. /\ h \in Position /\ n \in 0 .. FCT_CACHE_SIZE /\ h + n <= RPC - 1
  BY MovingType DEF Position
<1>3. \A p \in Position : source[p] = NULL_REFERENCE \/ (c \in z.refs /\ source[p] = z.disk[c][p])
  BY SourceIs
<1> HIDE DEF y, n, source
<1>4. ASSUME NEW k, NEW a, NEW b, NEW v, Lists(y, U, K, k, a, b, v)
      PROVE  \/ /\ k = "head" /\ a \in Slot /\ a < n /\ b = 0
                /\ Lists(z, U, K, "refs", c, h + a, v)
             \/ /\ ~ (k = "refs" /\ a = c /\ b \in h .. h + n - 1) /\ ~ (k = "head" /\ a < n)
                /\ Lists(z, U, K, k, a, b, v)
  <2>0. v # NULL_REFERENCE
    BY <1>4 DEF Lists
  <2>1. CASE k = "head" /\ a \in Slot /\ b = 0 /\ v = y.chead.ref[a]
    <3>1. CASE a < n
      <4>1. h + a \in Position /\ h + a \in h .. RPC - 2
        BY <1>2, <2>1, <3>1, Sizes DEF Position, Slot
      <4>2. v = source[h + a]
        BY <1>1, <2>1, <3>1
      <4>3. c \in z.refs /\ v = z.disk[c][h + a]
        BY <1>3, <2>0, <4>1, <4>2
      <4>4. v \in K[c][h + a] /\ Low(z, c) = h
        BY <4>1, <4>3 DEF Low
      <4> QED BY <2>0, <2>1, <3>1, <4>1, <4>3, <4>4 DEF Lists
    <3>2. CASE ~ (a < n)
      BY <1>1, <2>0, <2>1, <3>2 DEF Lists
    <3> QED BY <3>1, <3>2
  <2>2. CASE k = "tail" /\ a \in Slot /\ b = 0 /\ v = y.ctail.ref[a]
    BY <1>1, <2>0, <2>2 DEF Lists
  <2>3. CASE k = "refs" /\ a \in y.refs /\ b \in Low(y, a) .. RPC - 2 /\ v \in K[a][b]
    <3>1. CASE a = c
      <4>1. Low(y, a) = h + n /\ Low(z, a) = h
        BY <1>1, <3>1 DEF Low
      <4>2. b \in Low(z, a) .. RPC - 2 /\ ~ (b \in h .. h + n - 1)
        BY <1>2, <2>3, <4>1, Sizes DEF Position
      <4> QED BY <1>1, <2>0, <2>3, <4>2 DEF Lists
    <3>2. CASE a # c
      <4>1. Low(y, a) = Low(z, a)
        BY <1>1, <3>2 DEF Low
      <4> QED BY <1>1, <2>0, <2>3, <3>2, <4>1 DEF Lists
    <3> QED BY <3>1, <3>2
  <2>4. CASE k = "use" /\ a = v /\ b = 0 /\ v \in U
    BY <2>0, <2>4 DEF Lists
  <2>5. CASE k = "ref" /\ a = v /\ b = 0 /\ v \in y.refs
    BY <1>1, <2>0, <2>5 DEF Lists
  <2> QED BY <1>4, <2>1, <2>2, <2>3, <2>4, <2>5 DEF Lists
<1>5. ASSUME NEW k1, NEW a1, NEW b1, NEW k2, NEW a2, NEW b2, NEW v,
             Lists(y, U, K, k1, a1, b1, v), Lists(y, U, K, k2, a2, b2, v)
      PROVE  k1 = k2 /\ a1 = a2 /\ b1 = b2
  <2> DEFINE S(k, a, b) == k = "head" /\ a \in Slot /\ a < n /\ b = 0
  <2>1. CASE S(k1, a1, b1) /\ S(k2, a2, b2)
    <3>1. h + a1 \in Int /\ h + a2 \in Int /\ a1 \in Int /\ a2 \in Int
      BY <1>2, <2>1 DEF Slot, Position
    <3>2. Lists(z, U, K, "refs", c, h + a1, v) /\ Lists(z, U, K, "refs", c, h + a2, v)
      BY <1>4, <1>5, <2>1
    <3>3. h + a1 = h + a2
      BY <3>2 DEF Sound
    <3> QED BY <1>2, <2>1, <3>1, <3>3 DEF Position
  <2>2. CASE ~ S(k1, a1, b1) /\ ~ S(k2, a2, b2)
    BY <1>4, <1>5, <2>2 DEF Sound
  <2>3. ASSUME NEW k, NEW a, NEW b, NEW kk, NEW aa, NEW bb,
               S(k, a, b), ~ S(kk, aa, bb),
               Lists(y, U, K, k, a, b, v), Lists(y, U, K, kk, aa, bb, v)
        PROVE  FALSE
    <3>1. Lists(z, U, K, "refs", c, h + a, v)
      BY <1>4, <2>3
    <3>2. Lists(z, U, K, kk, aa, bb, v) /\ ~ (kk = "refs" /\ aa = c /\ bb \in h .. h + n - 1)
      BY <1>4, <2>3
    <3>3. kk = "refs" /\ aa = c /\ bb = h + a
      BY <3>1, <3>2 DEF Sound
    <3>4. h + a \in h .. h + n - 1
      BY <1>2, <2>3 DEF Slot, Position
    <3> QED BY <3>2, <3>3, <3>4
  <2> QED BY <1>5, <2>1, <2>2, <2>3
<1> QED BY <1>5 DEF Sound, y

LEMMA WithoutIs ==
  ASSUME NEW cache, NEW s, NEW n, NEW t \in Slot
  PROVE  /\ (\E k \in 0 .. n - 1 : t = At(s, k)) => Without(cache, s, n)[t] = NULL_REFERENCE
         /\ ~ (\E k \in 0 .. n - 1 : t = At(s, k)) => Without(cache, s, n)[t] = cache[t]
BY DEF Without

(* References that follow one another in the tail cache go to slots from i on  *)
(* of the head cache.                                                          *)
LEMMA CacheToCacheSound ==
  ASSUME NEW x \in States, NEW U, NEW K, Sound(x, U, K),
         NEW i \in Nat, NEW n \in 0 .. FCT_CACHE_SIZE, NEW y,
         y.chead.ref = [s \in Slot |-> IF s \in i .. i + n - 1
                          THEN x.ctail.ref[At(x.ctail.out, s - i)] ELSE x.chead.ref[s]],
         y.chead.cluster_number = x.chead.cluster_number,
         y.chead.cluster_idx = x.chead.cluster_idx,
         y.ctail.ref = Without(x.ctail.ref, x.ctail.out, n),
         y.refs = x.refs
  PROVE  Sound(y, U, K)
<1> DEFINE o == x.ctail.out
           S(k, a, b) == k = "head" /\ a \in Slot /\ a \in i .. i + n - 1 /\ b = 0
<1>1. o \in Slot
  BY DEF States, Tails
<1> HIDE DEF o
<1>2. ASSUME NEW a \in Slot, a \in i .. i + n - 1
      PROVE  /\ a - i \in 0 .. n - 1 /\ a - i \in Slot /\ At(o, a - i) \in Slot
             /\ y.chead.ref[a] = x.ctail.ref[At(o, a - i)]
  <2>1. a - i \in 0 .. n - 1 /\ a - i \in Slot /\ a - i \in Nat
    BY <1>2, Sizes DEF Slot
  <2> QED BY <1>1, <1>2, <2>1, AtType DEF o
<1>4. ASSUME NEW k, NEW a, NEW b, NEW v, Lists(y, U, K, k, a, b, v)
      PROVE  \/ S(k, a, b) /\ Lists(x, U, K, "tail", At(o, a - i), 0, v)
             \/ /\ ~ S(k, a, b) /\ ~ (k = "tail" /\ \E j \in 0 .. n - 1 : a = At(o, j))
                /\ Lists(x, U, K, k, a, b, v)
  <2>0. v # NULL_REFERENCE
    BY <1>4 DEF Lists
  <2>1. CASE k = "head" /\ a \in Slot /\ b = 0 /\ v = y.chead.ref[a]
    <3>1. CASE a \in i .. i + n - 1
      BY <1>2, <2>0, <2>1, <3>1 DEF Lists
    <3>2. CASE a \notin i .. i + n - 1
      <4>1. v = x.chead.ref[a]
        BY <2>1, <3>2
      <4> QED BY <2>0, <2>1, <3>2, <4>1 DEF Lists
    <3> QED BY <3>1, <3>2
  <2>2. CASE k = "tail" /\ a \in Slot /\ b = 0 /\ v = y.ctail.ref[a]
    <3>1. ~ (\E j \in 0 .. n - 1 : a = At(o, j)) /\ v = x.ctail.ref[a]
      BY <2>0, <2>2, WithoutIs DEF o
    <3> QED BY <2>0, <2>2, <3>1 DEF Lists
  <2>3. CASE k = "refs" /\ a \in y.refs /\ b \in Low(y, a) .. RPC - 2 /\ v \in K[a][b]
    <3>1. Low(x, a) = Low(y, a)
      BY DEF Low
    <3> QED BY <2>0, <2>3, <3>1 DEF Lists
  <2>4. CASE k = "use" /\ a = v /\ b = 0 /\ v \in U
    BY <2>0, <2>4 DEF Lists
  <2>5. CASE k = "ref" /\ a = v /\ b = 0 /\ v \in y.refs
    BY <2>0, <2>5 DEF Lists
  <2> QED BY <1>4, <2>1, <2>2, <2>3, <2>4, <2>5 DEF Lists
<1>5. ASSUME NEW k1, NEW a1, NEW b1, NEW k2, NEW a2, NEW b2, NEW v,
             Lists(y, U, K, k1, a1, b1, v), Lists(y, U, K, k2, a2, b2, v)
      PROVE  k1 = k2 /\ a1 = a2 /\ b1 = b2
  <2>1. CASE S(k1, a1, b1) /\ S(k2, a2, b2)
    <3>1. /\ a1 - i \in Slot /\ a2 - i \in Slot /\ a1 \in Int /\ a2 \in Int
      BY <1>2, <2>1 DEF Slot
    <3>2. Lists(x, U, K, "tail", At(o, a1 - i), 0, v) /\ Lists(x, U, K, "tail", At(o, a2 - i), 0, v)
      BY <1>4, <1>5, <2>1
    <3>3. At(o, a1 - i) = At(o, a2 - i)
      BY <3>2 DEF Sound
    <3>4. a1 - i = a2 - i
      <4> DEFINE j1 == a1 - i
                 j2 == a2 - i
      <4>1. j1 \in Slot /\ j2 \in Slot /\ At(o, j1) = At(o, j2)
        BY <3>1, <3>3
      <4> HIDE DEF j1, j2
      <4>2. j1 = j2
        BY <1>1, <4>1, AtInjective
      <4> QED BY <4>2 DEF j1, j2
    <3> QED BY <2>1, <3>1, <3>4
  <2>2. CASE ~ S(k1, a1, b1) /\ ~ S(k2, a2, b2)
    <3> HIDE DEF S
    <3> QED BY <1>4, <1>5, <2>2 DEF Sound
  <2>3. ASSUME NEW k, NEW a, NEW b, NEW kk, NEW aa, NEW bb,
               S(k, a, b), ~ S(kk, aa, bb),
               Lists(y, U, K, k, a, b, v), Lists(y, U, K, kk, aa, bb, v)
        PROVE  FALSE
    <3>1. Lists(x, U, K, "tail", At(o, a - i), 0, v) /\ a - i \in 0 .. n - 1
      BY <1>2, <1>4, <2>3
    <3>2. /\ Lists(x, U, K, kk, aa, bb, v)
          /\ ~ (kk = "tail" /\ \E j \in 0 .. n - 1 : aa = At(o, j))
      BY <1>4, <2>3
    <3>3. kk = "tail" /\ aa = At(o, a - i)
      BY <3>1, <3>2 DEF Sound
    <3> QED BY <3>1, <3>2, <3>3
  <2> HIDE DEF S
  <2> QED BY <1>5, <2>1, <2>2, <2>3
<1> QED BY <1>5 DEF Sound

LEMMA ReplenishFromTailCacheSound ==
  ASSUME NEW z \in States, NEW U, NEW K, Sound(z, U, K)
  PROVE  Sound(ReplenishFromTailCache(z), U, K)
<1> DEFINE n == Run(z.ctail.ref, z.ctail.out)
           y == ReplenishFromTailCache(z)
           o == z.ctail.out
<1>1. /\ n \in 0 .. FCT_CACHE_SIZE
      /\ y.chead.ref = [s \in Slot |->
           IF s < n THEN z.ctail.ref[At(z.ctail.out, s)] ELSE z.chead.ref[s]]
      /\ y.chead.cluster_number = z.chead.cluster_number
      /\ y.chead.cluster_idx = z.chead.cluster_idx
      /\ y.ctail.ref = Without(z.ctail.ref, z.ctail.out, n)
      /\ y.refs = z.refs
  BY ReplenishFromTailCacheType
<1> HIDE DEF n, y
<1>2. \A s \in Slot : (s < n <=> s \in 0 .. 0 + n - 1) /\ s - 0 = s
  BY <1>1, Sizes DEF Slot
<1>3. y.chead.ref = [s \in Slot |-> IF s \in 0 .. 0 + n - 1
                       THEN z.ctail.ref[At(z.ctail.out, s - 0)] ELSE z.chead.ref[s]]
  BY <1>1, <1>2
<1> QED BY <1>1, <1>3, CacheToCacheSound DEF y

LEMMA DepleteToHeadCacheSound ==
  ASSUME NEW z \in States, NEW U, NEW K, Sound(z, U, K)
  PROVE  Sound(DepleteToHeadCache(z), U, K)
<1> DEFINE n == Least(Run(z.ctail.ref, z.ctail.out), RoomInHead(z))
           y == DepleteToHeadCache(z)
           i == z.chead.in
<1>0. i \in 0 .. FCT_CACHE_SIZE
  BY DEF States, Heads
<1>1. /\ n \in 0 .. FCT_CACHE_SIZE - i
      /\ y.chead.ref = [s \in Slot |-> IF s \in i .. i + n - 1
                THEN z.ctail.ref[At(z.ctail.out, s - i)] ELSE z.chead.ref[s]]
      /\ y.chead.cluster_number = z.chead.cluster_number
      /\ y.chead.cluster_idx = z.chead.cluster_idx
      /\ y.ctail.ref = Without(z.ctail.ref, z.ctail.out, n)
      /\ y.refs = z.refs
  BY DepleteToHeadCacheType
<1> HIDE DEF n, y, i
<1>2. i \in Nat /\ n \in 0 .. FCT_CACHE_SIZE
  BY <1>0, <1>1, Sizes
<1> QED BY <1>1, <1>2, CacheToCacheSound DEF y

(* References go from the tail cache to the array of the tail cluster.         *)
Grows(L, K, w) ==
  \A a \in w.z.refs : \A p \in Position : \A v \in L[a][p] :
    \/ v \in K[a][p]
    \/ /\ a = w.z.ctail.cluster_number
       /\ p \in w.z.ctail.cluster_idx .. w.z.ctail.cluster_idx + Fill(w) - 1
       /\ v = FillTailCluster(w).ref[p]

LEMMA FillSound ==
  ASSUME NEW w \in Locals, NEW U, NEW K, Sound(w.z, U, K), NEW L, Grows(L, K, w)
  PROVE  Sound(FillTailCluster(w).z, U, L)
<1> DEFINE t == w.z.ctail.cluster_number
           first == w.z.ctail.cluster_idx
           n == Fill(w)
           y == FillTailCluster(w)
           x == w.z
           o == w.index
           S(k, a, b) == k = "refs" /\ b \in first .. first + n - 1 /\ b \in Int
           G(k, a) == k = "tail" /\ \E j \in 0 .. n - 1 : a = At(o, j)
<1>1. x \in States /\ o \in Slot
  BY DEF Locals
<1>2. /\ n \in 0 .. FCT_CACHE_SIZE /\ first \in Nat
      /\ y.ref = [p \in Position |-> IF p \in first .. first + n - 1
                       THEN x.ctail.ref[At(o, p - first)] ELSE w.ref[p]]
      /\ y.z.ctail.ref = Without(x.ctail.ref, o, n)
      /\ y.z.chead = x.chead /\ y.z.refs = x.refs
  BY FillTailClusterType
<1>6. \A a \in w.z.refs : \A p \in Position : \A v \in L[a][p] :
         v \in K[a][p] \/ (a = t /\ p \in first .. first + n - 1 /\ v = y.ref[p])
  BY DEF Grows
<1> HIDE DEF o, x, t, first, n, y
<1>3. ASSUME NEW b \in Position, b \in first .. first + n - 1
      PROVE  /\ b - first \in 0 .. n - 1 /\ b - first \in Slot /\ At(o, b - first) \in Slot
             /\ y.ref[b] = x.ctail.ref[At(o, b - first)]
  <2>1. b - first \in 0 .. n - 1 /\ b - first \in Slot /\ b - first \in Nat
    BY <1>2, <1>3, Sizes DEF Slot, Position
  <2> QED BY <1>1, <1>2, <1>3, <2>1, AtType
<1>4. ASSUME NEW k, NEW a, NEW b, NEW v, Lists(y.z, U, L, k, a, b, v)
      PROVE  \/ S(k, a, b) /\ a = t /\ b \in Position /\ Lists(x, U, K, "tail", At(o, b - first), 0, v)
             \/ ~ G(k, a) /\ Lists(x, U, K, k, a, b, v)
  <2>0. v # NULL_REFERENCE
    BY <1>4 DEF Lists
  <2>1. CASE k = "head" /\ a \in Slot /\ b = 0 /\ v = y.z.chead.ref[a]
    BY <1>2, <2>0, <2>1 DEF Lists
  <2>2. CASE k = "tail" /\ a \in Slot /\ b = 0 /\ v = y.z.ctail.ref[a]
    <3>1. ~ (\E j \in 0 .. n - 1 : a = At(o, j)) /\ v = x.ctail.ref[a]
      BY <1>2, <2>0, <2>2, WithoutIs
    <3> QED BY <2>0, <2>2, <3>1 DEF Lists
  <2>3. CASE k = "refs" /\ a \in y.z.refs /\ b \in Low(y.z, a) .. RPC - 2 /\ v \in L[a][b]
    <3>1. Low(x, a) = Low(y.z, a)
      BY <1>2 DEF Low
    <3>2. b \in Position /\ a \in x.refs
      BY <1>1, <1>2, <2>3, <3>1, LowType, Sizes DEF Position
    <3>3. CASE v \in K[a][b]
      BY <1>2, <2>0, <2>3, <3>1, <3>3 DEF Lists
    <3>4. CASE a = t /\ b \in first .. first + n - 1 /\ v = y.ref[b]
      BY <1>3, <2>0, <2>3, <3>2, <3>4 DEF Lists, Position
    <3> QED BY <1>6, <2>3, <3>2, <3>3, <3>4 DEF x
  <2>4. CASE k = "use" /\ a = v /\ b = 0 /\ v \in U
    BY <2>0, <2>4 DEF Lists
  <2>5. CASE k = "ref" /\ a = v /\ b = 0 /\ v \in y.z.refs
    BY <1>2, <2>0, <2>5 DEF Lists
  <2> QED BY <1>4, <2>1, <2>2, <2>3, <2>4, <2>5 DEF Lists
<1>5. ASSUME NEW k1, NEW a1, NEW b1, NEW k2, NEW a2, NEW b2, NEW v,
             Lists(y.z, U, L, k1, a1, b1, v), Lists(y.z, U, L, k2, a2, b2, v)
      PROVE  k1 = k2 /\ a1 = a2 /\ b1 = b2
  <2> DEFINE T(k, a, b) == /\ S(k, a, b) /\ a = t /\ b \in Position
                           /\ Lists(x, U, K, "tail", At(o, b - first), 0, v)
  <2>1. CASE T(k1, a1, b1) /\ T(k2, a2, b2)
    <3>1. At(o, b1 - first) = At(o, b2 - first)
      BY <2>1 DEF Sound, x
    <3>2. b1 - first \in Slot /\ b2 - first \in Slot
      BY <1>3, <2>1
    <3>3. b1 - first = b2 - first
      <4> DEFINE j1 == b1 - first
                 j2 == b2 - first
      <4>1. j1 \in Slot /\ j2 \in Slot /\ At(o, j1) = At(o, j2)
        BY <3>1, <3>2
      <4> HIDE DEF j1, j2
      <4>2. j1 = j2
        BY <1>1, <4>1, AtInjective
      <4> QED BY <4>2 DEF j1, j2
    <3>4. b1 = b2
      BY <1>2, <2>1, <3>3
    <3> QED BY <2>1, <3>4
  <2>2. CASE ~ T(k1, a1, b1) /\ ~ T(k2, a2, b2)
    <3>1. Lists(x, U, K, k1, a1, b1, v) /\ Lists(x, U, K, k2, a2, b2, v)
      <4> HIDE DEF S, G
      <4> QED BY <1>4, <1>5, <2>2
    <3> QED BY <3>1 DEF Sound, x
  <2>3. ASSUME NEW k, NEW a, NEW b, NEW kk, NEW aa, NEW bb,
               T(k, a, b), ~ T(kk, aa, bb),
               Lists(y.z, U, L, kk, aa, bb, v)
        PROVE  FALSE
    <3>1. Lists(x, U, K, "tail", At(o, b - first), 0, v) /\ b - first \in 0 .. n - 1
      BY <1>3, <2>3
    <3>2. Lists(x, U, K, kk, aa, bb, v) /\ ~ G(kk, aa)
      <4> HIDE DEF S, G
      <4> QED BY <1>4, <2>3
    <3>3. kk = "tail" /\ aa = At(o, b - first)
      BY <3>1, <3>2 DEF Sound, x
    <3> QED BY <3>1, <3>2, <3>3
  <2> HIDE DEF T
  <2> QED BY <1>5, <2>1, <2>2, <2>3
<1> QED BY <1>5 DEF Sound, y

(* The cluster soAllocCluster has answered becomes the tail cluster: one       *)
(* reference goes from the tail cache to its array.                            *)
LEMMA ExtendedSound ==
  ASSUME NEW w \in Locals, NEW y \in States, NEW U, NEW K,
         Sound(y, U \cup {y.ret}, K), y.ret = NULL_REFERENCE \/ y.ret \notin U,
         \A a \in y.refs : \A p \in Position : y.disk[a][p] \in K[a][p],
         y.ctail.cluster_number \in y.refs =>
            \A p \in Position : w.ref[p] \in K[y.ctail.cluster_number][p],
         NEW e, e = Extended(w, y)
  PROVE  Sound(e.z, U, Instead(e.z, y.ret, e.ref))
<1> DEFINE c == y.ret
           t == y.ctail.cluster_number
           i == w.index
           V == U \cup {c}
           L == Instead(e.z, c, e.ref)
<1>1. /\ e.ref = [p \in Position |-> IF p = 0 THEN y.ctail.ref[i] ELSE NULL_REFERENCE]
      /\ e.z.ctail.ref = [y.ctail.ref EXCEPT ![i] = NULL_REFERENCE]
      /\ e.z.chead = y.chead
      /\ e.z.disk = IF t \in y.refs
                      THEN [y.disk EXCEPT ![t] = [w.ref EXCEPT ![RPC - 1] = c]]
                      ELSE y.disk
      /\ e.z.refs = (y.refs \cup {c}) \ {NULL_REFERENCE}
      /\ e \in Locals
  <2> DEFINE x == Extended(w, y)
  <2>0. w \in Locals /\ y \in States
    OBVIOUS
  <2>1. /\ x.ref = [p \in Position |-> IF p = 0 THEN y.ctail.ref[i] ELSE NULL_REFERENCE]
        /\ x.z.ctail.ref = [y.ctail.ref EXCEPT ![i] = NULL_REFERENCE]
        /\ x.z.chead = y.chead
        /\ x.z.disk = IF t \in y.refs
                        THEN [y.disk EXCEPT ![t] = [w.ref EXCEPT ![RPC - 1] = c]]
                        ELSE y.disk
        /\ x.z.refs = (y.refs \cup {c}) \ {NULL_REFERENCE}
        /\ x \in Locals
    BY ONLY <2>0, ExtendedType
  <2>2. e = x
    OBVIOUS
  <2> HIDE DEF x
  <2> QED BY <2>1, <2>2
<1>2. /\ i \in Slot /\ w.ref \in Array /\ y.ctail.ref \in Cache
      /\ y.disk \in [Cluster -> Array] /\ y.refs \subseteq Cluster /\ e.z.refs \subseteq Cluster
  <2>1. e.z \in States
    BY <1>1 DEF Locals
  <2> QED BY <2>1 DEF Locals, States, Tails
<1>3. /\ \A a \in y.refs : \A p \in Position : y.disk[a][p] \in K[a][p]
      /\ t \in y.refs => \A p \in Position : w.ref[p] \in K[t][p]
      /\ Sound(y, V, K) /\ (c = NULL_REFERENCE \/ c \notin U)
  OBVIOUS
<1>4. \A a \in e.z.refs : \A p \in Position :
         L[a][p] = IF a = c THEN {e.ref[p]} ELSE {e.z.disk[a][p]}
  BY <1>2 DEF Instead
<1> HIDE DEF c, t, i, V, L
<1>5. V = U \cup {c}
  BY DEF V, c
<1>6. c # NULL_REFERENCE => Lists(y, V, K, "use", c, 0, c)
  BY <1>5 DEF Lists
<1>7. ASSUME NEW a \in y.refs, NEW p \in 0 .. RPC - 2
      PROVE  e.z.disk[a][p] \in K[a][p]
  <2>0. p \in Position /\ p # RPC - 1 /\ a \in Cluster
    BY <1>2, <1>7, Sizes DEF Position
  <2>1. CASE a = t
    <3> DEFINE r == [w.ref EXCEPT ![RPC - 1] = c]
    <3>1. r[p] = w.ref[p]
      BY <1>2, <2>0 DEF Array
    <3>2. e.z.disk[a] = r
      BY <1>1, <1>2, <2>0, <2>1
    <3> HIDE DEF r
    <3> QED BY <1>3, <2>0, <2>1, <3>1, <3>2
  <2>2. CASE a # t
    <3>1. e.z.disk[a] = y.disk[a]
      <4>1. CASE t \in y.refs
        <5> DEFINE r == [w.ref EXCEPT ![RPC - 1] = c]
        <5>1. e.z.disk = [y.disk EXCEPT ![t] = r]
          BY <1>1, <4>1
        <5> HIDE DEF r
        <5> QED BY <1>2, <2>2, <5>1
      <4>2. CASE t \notin y.refs
        BY <1>1, <4>2
      <4> QED BY <4>1, <4>2
    <3> QED BY <1>3, <2>0, <3>1
  <2> QED BY <2>1, <2>2
<1> DEFINE A(k, a, b) == k = "refs" /\ a = c /\ b = 0
           B(k, a, b) == k = "ref" /\ a = c /\ b = 0
           G(k, a) == (k = "tail" /\ a = i) \/ (k = "use" /\ a = c)
<1>8. ASSUME NEW k, NEW a, NEW b, NEW v, Lists(e.z, U, L, k, a, b, v)
      PROVE  \/ A(k, a, b) /\ Lists(y, V, K, "tail", i, 0, v)
             \/ B(k, a, b) /\ Lists(y, V, K, "use", c, 0, v)
             \/ ~ G(k, a) /\ Lists(y, V, K, k, a, b, v)
  <2>0. v # NULL_REFERENCE
    BY <1>8 DEF Lists
  <2>1. CASE k = "head" /\ a \in Slot /\ b = 0 /\ v = e.z.chead.ref[a]
    BY <1>1, <2>0, <2>1 DEF Lists
  <2>2. CASE k = "tail" /\ a \in Slot /\ b = 0 /\ v = e.z.ctail.ref[a]
    <3>1. a # i /\ v = y.ctail.ref[a]
      BY <1>1, <1>2, <2>0, <2>2 DEF Cache
    <3> QED BY <2>0, <2>2, <3>1 DEF Lists
  <2>3. CASE k = "refs" /\ a \in e.z.refs /\ b \in Low(e.z, a) .. RPC - 2 /\ v \in L[a][b]
    <3>1. Low(y, a) = Low(e.z, a)
      BY <1>1 DEF Low
    <3>2. b \in Position /\ b \in 0 .. RPC - 2
      <4>1. Low(e.z, a) \in Position
        <5>1. e.z \in States
          BY <1>1 DEF Locals
        <5> QED BY <5>1, LowType
      <4> QED BY <2>3, <4>1, Sizes DEF Position
    <3>3. CASE a = c
      <4>1. v = e.ref[b]
        <5>1. L[a][b] = {e.ref[b]}
          BY <1>4, <2>3, <3>2, <3>3
        <5> QED BY <2>3, <5>1
      <4>2. b = 0 /\ v = y.ctail.ref[i]
        BY <1>1, <2>0, <3>2, <4>1
      <4> QED BY <1>2, <2>0, <2>3, <3>3, <4>2 DEF Lists
    <3>4. CASE a # c
      <4>1. a \in y.refs
        BY <1>1, <2>3, <3>4
      <4>2. v = e.z.disk[a][b]
        <5>1. L[a][b] = {e.z.disk[a][b]}
          BY <1>4, <2>3, <3>2, <3>4
        <5> QED BY <2>3, <5>1
      <4>3. v \in K[a][b]
        BY <1>7, <3>2, <4>1, <4>2
      <4> QED BY <2>0, <2>3, <3>1, <4>1, <4>3 DEF Lists
    <3> QED BY <3>3, <3>4
  <2>4. CASE k = "use" /\ a = v /\ b = 0 /\ v \in U
    <3>1. a # c /\ v \in V
      BY <1>3, <1>5, <2>0, <2>4
    <3> QED BY <2>0, <2>4, <3>1 DEF Lists
  <2>5. CASE k = "ref" /\ a = v /\ b = 0 /\ v \in e.z.refs
    <3>1. CASE v = c
      BY <1>6, <2>0, <2>5, <3>1
    <3>2. CASE v # c
      <4>1. v \in y.refs
        BY <1>1, <2>5, <3>2
      <4> QED BY <2>0, <2>5, <4>1 DEF Lists
    <3> QED BY <3>1, <3>2
  <2> QED BY <1>8, <2>1, <2>2, <2>3, <2>4, <2>5 DEF Lists
<1>9. ASSUME NEW k1, NEW a1, NEW b1, NEW k2, NEW a2, NEW b2, NEW v,
             Lists(e.z, U, L, k1, a1, b1, v), Lists(e.z, U, L, k2, a2, b2, v)
      PROVE  k1 = k2 /\ a1 = a2 /\ b1 = b2
  <2>1. \/ A(k1, a1, b1) /\ Lists(y, V, K, "tail", i, 0, v)
        \/ B(k1, a1, b1) /\ Lists(y, V, K, "use", c, 0, v)
        \/ ~ G(k1, a1) /\ Lists(y, V, K, k1, a1, b1, v)
    BY <1>8, <1>9
  <2>2. \/ A(k2, a2, b2) /\ Lists(y, V, K, "tail", i, 0, v)
        \/ B(k2, a2, b2) /\ Lists(y, V, K, "use", c, 0, v)
        \/ ~ G(k2, a2) /\ Lists(y, V, K, k2, a2, b2, v)
    BY <1>8, <1>9
  <2> QED BY <1>3, <2>1, <2>2 DEF Sound
<1> QED BY <1>9 DEF Sound, L, c

LEMMA InContents ==
  ASSUME NEW z, NEW t, NEW ref, NEW a \in Cluster, NEW p \in Position, NEW v
  PROVE  /\ v \in Stored(z)[a][p] <=> v = z.disk[a][p]
         /\ v \in Buffered(z, t, ref)[a][p] <=> (v = z.disk[a][p] \/ (a = t /\ v = ref[p]))
         /\ v \in Instead(z, t, ref)[a][p] <=> v = IF a = t THEN ref[p] ELSE z.disk[a][p]
<1>1. Stored(z)[a][p] = {z.disk[a][p]}
  BY DEF Stored
<1>2. Buffered(z, t, ref)[a][p] = IF a = t THEN {z.disk[a][p], ref[p]} ELSE {z.disk[a][p]}
  BY DEF Buffered
<1>3. Instead(z, t, ref)[a][p] = IF a = t THEN {ref[p]} ELSE {z.disk[a][p]}
  BY DEF Instead
<1> QED BY <1>1, <1>2, <1>3

LEMMA FinishedSound ==
  ASSUME NEW w \in Locals, NEW U, NEW K, Sound(w.z, U, K),
         NEW t, t = w.z.ctail.cluster_number,
         t \in w.z.refs => \A p \in Position : w.ref[p] \in K[t][p],
         \A a \in w.z.refs \ {t} : \A p \in Position : w.z.disk[a][p] \in K[a][p],
         NEW y, y = Finished(w)
  PROVE  Sound(y, U, Stored(y))
<1> DEFINE x == w.z
<1>1. /\ y.chead = x.chead /\ y.ctail.ref = x.ctail.ref /\ y.refs = x.refs
      /\ y.disk = IF t \in x.refs THEN [x.disk EXCEPT ![t] = w.ref] ELSE x.disk
  <2> DEFINE f == Finished(w)
  <2>0. w \in Locals /\ t = x.ctail.cluster_number
    OBVIOUS
  <2>1. /\ f.chead = x.chead /\ f.ctail.ref = x.ctail.ref /\ f.refs = x.refs
        /\ f.disk = IF x.ctail.cluster_number \in x.refs
             THEN [x.disk EXCEPT ![x.ctail.cluster_number] = w.ref] ELSE x.disk
    BY ONLY <2>0, FinishedType
  <2>2. y = f
    OBVIOUS
  <2> HIDE DEF f, x
  <2> QED BY <2>0, <2>1, <2>2
<1>2. x \in States /\ x.disk \in [Cluster -> Array] /\ x.refs \subseteq Cluster
  BY DEF Locals, States
<1>3. \A a : Low(y, a) = Low(x, a) /\ Low(y, a) \in Int
  <2> TAKE a
  <2>1. Low(x, a) \in Int
    BY <1>2, LowType DEF Position
  <2> QED BY <1>1, <2>1 DEF Low
<1>4. ASSUME NEW a \in y.refs, NEW b \in Low(y, a) .. RPC - 2
      PROVE  Stored(y)[a][b] \subseteq K[a][b]
  <2>1. b \in Position /\ a \in Cluster /\ a \in x.refs
    BY <1>1, <1>2, <1>4, LowType, Sizes, <1>3 DEF Position
  <2>2. y.disk[a][b] \in K[a][b]
    <3>1. CASE a = t
      BY <1>1, <1>2, <2>1, <3>1
    <3>2. CASE a # t
      BY <1>1, <1>2, <2>1, <3>2
    <3> QED BY <3>1, <3>2
  <2> DEFINE v == y.disk[a][b]
  <2>3. Stored(y)[a][b] = {v}
    BY <2>1 DEF Stored
  <2> HIDE DEF v
  <2> QED BY <2>2, <2>3 DEF v
<1>5. /\ y.refs \subseteq x.refs /\ U \subseteq U
      /\ \A s \in Slot : y.chead.ref[s] \in {x.chead.ref[s], NULL_REFERENCE}
      /\ \A s \in Slot : y.ctail.ref[s] \in {x.ctail.ref[s], NULL_REFERENCE}
      /\ \A a \in y.refs : Low(y, a) \in Int /\ Low(x, a) \in Int /\ Low(x, a) <= Low(y, a)
  BY <1>1, <1>3
<1>6. Sound(x, U, K)
  OBVIOUS
<1> HIDE DEF x
<1> DEFINE L == Stored(y)
<1>7. \A a \in y.refs : \A b \in Low(y, a) .. RPC - 2 : L[a][b] \subseteq K[a][b]
  BY <1>4
<1> HIDE DEF L
<1>8. Less(y, U, L, x, U, K)
  BY ONLY <1>5, <1>7 DEF Less
<1>9. Sound(y, U, L)
  BY ONLY <1>6, <1>8, LessSound
<1> QED BY <1>9 DEF L

(* soDeplete with the tail cluster read and filled.                           *)
LEMMA StartedSound ==
  ASSUME NEW z \in States, NEW U, Sound(z, U, Stored(z)),
         NEW t, t = z.ctail.cluster_number, NEW s, s = Started(z)
  PROVE  Sound(s.z, U, Buffered(s.z, t, s.ref))
<1> DEFINE o == Opened(z)
           K == Stored(o.z)
           L == Buffered(s.z, t, s.ref)
           first == o.z.ctail.cluster_idx
           n == Fill(o)
<1>1. /\ o \in Locals /\ o.ref = Read(z, t)
      /\ o.z.chead = z.chead /\ o.z.ctail = z.ctail
      /\ o.z.disk = z.disk /\ o.z.refs = z.refs
  <2>1. LET v == z.ctail.cluster_number IN
        /\ o \in Locals /\ o.ref = Read(z, v)
        /\ o.z.chead = z.chead /\ o.z.ctail = z.ctail
        /\ o.z.disk = z.disk /\ o.z.refs = z.refs
    BY OpenedType
  <2> HIDE DEF o
  <2> QED BY <2>1
<1>2. s = FillTailCluster(o)
  BY DEF Started
<1> HIDE DEF o
<1>3. /\ s \in Locals /\ s.z.disk = o.z.disk /\ s.z.refs = o.z.refs
      /\ s.ref = [p \in Position |-> IF p \in first .. first + n - 1
                       THEN o.z.ctail.ref[At(o.index, p - first)] ELSE o.ref[p]]
  <2> DEFINE f == FillTailCluster(o)
  <2>1. /\ f \in Locals /\ f.z.disk = o.z.disk /\ f.z.refs = o.z.refs
        /\ f.ref = [p \in Position |-> IF p \in first .. first + n - 1
                       THEN o.z.ctail.ref[At(o.index, p - first)] ELSE o.ref[p]]
    BY <1>1, FillTailClusterType
  <2> HIDE DEF f
  <2> QED BY <1>2, <2>1 DEF f
<1>4. Sound(o.z, U, K)
  <2>1. Stored(o.z) = Stored(z)
    BY <1>1 DEF Stored
  <2>2. z.refs \subseteq Cluster /\ (\A a : Low(z, a) \in Int)
    BY LowType DEF Position, States
  <2>3. \A a : Low(o.z, a) = Low(z, a)
    BY <1>1 DEF Low
  <2>4. /\ o.z.refs \subseteq z.refs /\ U \subseteq U /\ Sound(z, U, K)
        /\ \A j \in Slot : o.z.chead.ref[j] \in {z.chead.ref[j], NULL_REFERENCE}
        /\ \A j \in Slot : o.z.ctail.ref[j] \in {z.ctail.ref[j], NULL_REFERENCE}
        /\ \A a \in o.z.refs : Low(o.z, a) \in Int /\ Low(z, a) \in Int /\ Low(z, a) <= Low(o.z, a)
    BY <1>1, <2>1, <2>2, <2>3
  <2> HIDE DEF K
  <2>5. \A a \in o.z.refs : \A b \in Low(o.z, a) .. RPC - 2 : K[a][b] \subseteq K[a][b]
    OBVIOUS
  <2>6. Less(o.z, U, K, z, U, K)
    BY ONLY <2>4, <2>5 DEF Less
  <2> QED BY ONLY <2>4, <2>6, LessSound
<1>5. t = o.z.ctail.cluster_number
  BY <1>1
<1>6. ASSUME NEW a \in o.z.refs, NEW p \in Position, NEW v \in L[a][p]
      PROVE  v \in K[a][p] \/ (a = t /\ p \in first .. first + n - 1 /\ v = s.ref[p])
  <2>1. a \in Cluster /\ a \in z.refs
    BY <1>1, <1>6 DEF States
  <2>2. v = s.z.disk[a][p] \/ (a = t /\ v = s.ref[p])
    BY <1>6, <2>1, InContents
  <2>3. s.z.disk[a][p] \in K[a][p]
    BY SMTT(30), <1>3, <2>1, InContents
  <2>4. CASE a = t /\ p \notin first .. first + n - 1
    <3>1. s.ref[p] = o.ref[p]
      BY <1>3, <2>4
    <3>2. o.ref[p] = z.disk[a][p]
      BY <1>1, <2>1, <2>4, ReadType
    <3>3. s.ref[p] = s.z.disk[a][p]
      BY <1>1, <1>3, <3>1, <3>2
    <3> QED BY <2>2, <2>3, <3>3
  <2> QED BY <2>2, <2>3, <2>4
<1> HIDE DEF K, L, first, n
<1>7. Sound(s.z, U, L)
  <2>1. first = o.z.ctail.cluster_idx /\ n = Fill(o)
    BY DEF first, n
  <2>2. Grows(L, K, o)
    BY <1>2, <1>5, <1>6, <2>1 DEF Grows
  <2> QED BY ONLY <1>1, <1>2, <1>4, <2>2, FillSound
<1> QED BY <1>7 DEF L

(* What soAllocCluster leaves, in the middle of soDeplete, is in order with    *)
(* the array as well as with the disk.                                         *)
LEMMA DepletedSound ==
  ASSUME NEW z \in States, z.err = "OK", NEW U, Sound(z, U, Stored(z)), NEW y \in States,
         NEW t, t = z.ctail.cluster_number, NEW s, s = Started(z),
         More(s) /\ Threw(y) => Sound(y, U, Stored(y)),
         More(s) /\ ~ Threw(y) =>
           /\ Sound(y, U \cup {y.ret}, Buffered(y, t, s.ref))
           /\ y.ret = NULL_REFERENCE \/ y.ret \notin U
           /\ y.ctail.cluster_number = t \/ y.ctail.cluster_number \notin y.refs,
         NEW d, d = Depleted(z, y)
  PROVE  Sound(d, U, Stored(d))
<1>1. s \in Locals /\ Sound(s.z, U, Buffered(s.z, t, s.ref)) /\ s.z.refs = z.refs
      /\ s.z.ctail.cluster_number = t
  <2>1. Sound(s.z, U, Buffered(s.z, t, s.ref))
    BY StartedSound
  <2>2. LET v == Started(z) IN v \in Locals /\ v.z.refs = z.refs
                               /\ v.z.ctail.cluster_number = z.ctail.cluster_number
    BY StartedIs
  <2> QED BY <2>1, <2>2
<1>2. d = IF ~ More(s) THEN Finished(s)
          ELSE IF Threw(y) THEN y ELSE Finished(FillTailCluster(Extended(s, y)))
  BY DEF Depleted
<1>3. CASE ~ More(s)
  <2> DEFINE K == Buffered(s.z, t, s.ref)
  <2>1. d = Finished(s)
    BY <1>2, <1>3
  <2>2. s.z.refs \subseteq Cluster
    BY <1>1 DEF Locals, States
  <2>3. t \in s.z.refs => \A p \in Position : s.ref[p] \in K[t][p]
    BY <2>2, InContents
  <2>4. \A a \in s.z.refs \ {t} : \A p \in Position : s.z.disk[a][p] \in K[a][p]
    BY <2>2, InContents
  <2> HIDE DEF K
  <2>5. Sound(s.z, U, K)
    BY <1>1 DEF K
  <2> QED BY ONLY <1>1, <2>1, <2>3, <2>4, <2>5, FinishedSound
<1>4. CASE More(s) /\ Threw(y)
  <2>1. d = y
    BY <1>2, <1>4
  <2> QED BY <1>4, <2>1
<1>5. CASE More(s) /\ ~ Threw(y)
  <2> DEFINE K == Buffered(y, t, s.ref)
             e == Extended(s, y)
             c == y.ret
             K2 == Instead(e.z, c, e.ref)
             g == FillTailCluster(e)
             L == Instead(g.z, c, g.ref)
             first == e.z.ctail.cluster_idx
             n == Fill(e)
  <2>1. /\ Sound(y, U \cup {y.ret}, K)
        /\ y.ret = NULL_REFERENCE \/ y.ret \notin U
        /\ y.ctail.cluster_number = t \/ y.ctail.cluster_number \notin y.refs
    BY <1>5
  <2>2. y.refs \subseteq Cluster
    BY DEF States
  <2>3. \A a \in y.refs : \A p \in Position : y.disk[a][p] \in K[a][p]
    BY <2>2, InContents
  <2>4. y.ctail.cluster_number \in y.refs =>
          \A p \in Position : s.ref[p] \in K[y.ctail.cluster_number][p]
    BY <2>1, <2>2, InContents
  <2>5. d = Finished(g)
    BY <1>2, <1>5
  <2>6. /\ e \in Locals /\ e.z.ctail.cluster_number = c
        /\ e.z.refs = (y.refs \cup {y.ret}) \ {NULL_REFERENCE}
    BY <1>1, ExtendedType
  <2> HIDE DEF K
  <2>7. Sound(e.z, U, K2)
    <3>1. s \in Locals /\ y \in States /\ e = Extended(s, y)
      BY <1>1
    <3> HIDE DEF e
    <3>2. Sound(e.z, U, Instead(e.z, y.ret, e.ref))
      BY ONLY <3>1, <2>1, <2>3, <2>4, ExtendedSound
    <3> QED BY <3>2
  <2> HIDE DEF e
  <2>8. /\ g \in Locals /\ g.z.disk = e.z.disk /\ g.z.refs = e.z.refs
        /\ g.z.ctail.cluster_number = e.z.ctail.cluster_number
        /\ g.ref = [p \in Position |-> IF p \in first .. first + n - 1
                       THEN e.z.ctail.ref[At(e.index, p - first)] ELSE e.ref[p]]
    BY <2>6, FillTailClusterType
  <2>9. e.z.refs \subseteq Cluster /\ g.z.refs \subseteq Cluster
    BY <2>6, <2>8 DEF Locals, States
  <2>10. g = FillTailCluster(e) /\ first = e.z.ctail.cluster_idx /\ n = Fill(e)
         /\ c = e.z.ctail.cluster_number
    BY <2>6
  <2> HIDE DEF g, c, first, n
  <2>11. ASSUME NEW a \in e.z.refs, NEW p \in Position, NEW v \in L[a][p]
         PROVE  v \in K2[a][p] \/ (a = c /\ p \in first .. first + n - 1 /\ v = g.ref[p])
    <3>1. v = IF a = c THEN g.ref[p] ELSE g.z.disk[a][p]
      BY <2>9, <2>11, InContents
    <3>2. CASE a = c /\ p \notin first .. first + n - 1
      <4>1. g.ref[p] = e.ref[p]
        BY <2>8, <3>2
      <4>2. v = e.ref[p]
        BY <3>1, <3>2, <4>1
      <4> QED BY <2>9, <3>2, <4>2, InContents
    <3>3. CASE a # c
      <4>1. v = e.z.disk[a][p]
        BY <2>8, <3>1, <3>3
      <4> QED BY <2>9, <3>3, <4>1, InContents
    <3> QED BY <3>1, <3>2, <3>3
  <2>13. c \in g.z.refs => \A p \in Position : g.ref[p] \in L[c][p]
    BY <2>9, InContents
  <2>14. \A a \in g.z.refs \ {c} : \A p \in Position : g.z.disk[a][p] \in L[a][p]
    BY <2>9, InContents
  <2>15. c = g.z.ctail.cluster_number
    BY <2>8, <2>10
  <2> HIDE DEF K2, L
  <2>12. Sound(g.z, U, L)
    <3>1. \A a \in e.z.refs : \A p \in Position : \A v \in L[a][p] :
            v \in K2[a][p] \/ (a = c /\ p \in first .. first + n - 1 /\ v = g.ref[p])
      BY <2>11
    <3>2. Grows(L, K2, e)
      BY <2>10, <3>1 DEF Grows
    <3> QED BY ONLY <2>6, <2>7, <2>10, <3>2, FillSound
  <2> QED BY ONLY <2>5, <2>8, <2>12, <2>13, <2>14, <2>15, FinishedSound
<1> QED BY <1>3, <1>4, <1>5

LEMMA DepletedKeeps ==
  ASSUME NEW z \in States, NEW y \in States, NEW d, d = Depleted(z, y),
         z.stray \subseteq y.stray, z.refs \subseteq y.refs
  PROVE  z.stray \subseteq d.stray /\ z.refs \subseteq d.refs
<1> DEFINE s == Started(z)
<1>1. s \in Locals /\ z.stray \subseteq s.z.stray /\ s.z.refs = z.refs
  BY StartedIs
<1>2. d = IF ~ More(s) THEN Finished(s)
          ELSE IF Threw(y) THEN y ELSE Finished(FillTailCluster(Extended(s, y)))
  BY DEF Depleted
<1> HIDE DEF s
<1>3. CASE ~ More(s)
  <2> DEFINE f == Finished(s)
  <2>1. d = f
    BY <1>2, <1>3
  <2>2. /\ f.refs = s.z.refs
        /\ f.stray = IF s.z.ctail.cluster_number \in s.z.refs THEN s.z.stray
                     ELSE s.z.stray \cup {s.z.ctail.cluster_number}
    BY <1>1, FinishedType
  <2> HIDE DEF f
  <2> QED BY <1>1, <2>1, <2>2
<1>4. CASE More(s) /\ Threw(y)
  <2>1. d = y
    BY <1>2, <1>4
  <2> QED BY <2>1
<1>5. CASE More(s) /\ ~ Threw(y)
  <2> DEFINE e == Extended(s, y)
             g == FillTailCluster(e)
             f == Finished(g)
  <2>1. d = f
    BY <1>2, <1>5
  <2>2. /\ e \in Locals
        /\ e.z.refs = (y.refs \cup {y.ret}) \ {NULL_REFERENCE}
        /\ e.z.stray = IF y.ctail.cluster_number \in y.refs THEN y.stray
                       ELSE y.stray \cup {y.ctail.cluster_number}
    BY <1>1, ExtendedType
  <2> HIDE DEF e
  <2>3. g \in Locals /\ g.z.refs = e.z.refs /\ g.z.stray = e.z.stray
    BY <2>2, FillTailClusterType
  <2> HIDE DEF g
  <2>4. /\ f.refs = g.z.refs
        /\ f.stray = IF g.z.ctail.cluster_number \in g.z.refs THEN g.z.stray
                     ELSE g.z.stray \cup {g.z.ctail.cluster_number}
    BY <2>3, FinishedType
  <2> HIDE DEF f
  <2>5. y.refs \subseteq e.z.refs
    BY <2>2, NullIs DEF States
  <2>6. y.stray \subseteq f.stray
    BY <2>2, <2>3, <2>4
  <2> QED BY <2>1, <2>3, <2>4, <2>5, <2>6
<1> QED BY <1>3, <1>4, <1>5

LEMMA SameSound ==
  ASSUME NEW x, NEW U, NEW K, Sound(x, U, K), NEW y,
         y.chead.ref = x.chead.ref, y.chead.cluster_number = x.chead.cluster_number,
         y.chead.cluster_idx = x.chead.cluster_idx,
         y.ctail.ref = x.ctail.ref, y.refs = x.refs
  PROVE  Sound(y, U, K)
<1>1. \A a : Low(y, a) = Low(x, a)
  BY DEF Low
<1>2. ASSUME NEW k, NEW a, NEW b, NEW v, Lists(y, U, K, k, a, b, v)
      PROVE  Lists(x, U, K, k, a, b, v)
  <2>1. Low(y, a) = Low(x, a)
    BY <1>1
  <2> QED BY <1>2, <2>1 DEF Lists
<1> QED BY <1>2, FewerSound

LEMMA LeaveSound ==
  ASSUME NEW y \in States, NEW U, NEW t, NEW ref, Sound(y, U, Buffered(y, t, ref))
  PROVE  Sound(y, U, Stored(y))
<1> DEFINE K == Buffered(y, t, ref)
           L == Stored(y)
<1>1. ASSUME NEW k, NEW a, NEW b, NEW v, Lists(y, U, L, k, a, b, v)
      PROVE  Lists(y, U, K, k, a, b, v)
  <2>1. CASE k = "refs" /\ a \in y.refs /\ b \in Low(y, a) .. RPC - 2 /\ v \in L[a][b]
    <3>1. b \in Position /\ a \in Cluster
      <4>1. Low(y, a) \in Position
        BY LowType
      <4> QED BY <2>1, <4>1, Sizes DEF Position, States
    <3>2. v \in K[a][b]
      BY <2>1, <3>1, InContents
    <3> HIDE DEF K, L
    <3> QED BY <1>1, <2>1, <3>2 DEF Lists
  <2>2. CASE ~ (k = "refs" /\ a \in y.refs /\ b \in Low(y, a) .. RPC - 2 /\ v \in L[a][b])
    <3> HIDE DEF K, L
    <3> QED BY <1>1, <2>2 DEF Lists
  <2> QED BY <2>1, <2>2
<1> HIDE DEF K, L
<1>2. Sound(y, U, K)
  BY DEF K
<1>3. Sound(y, U, L)
  BY <1>1, <1>2, FewerSound
<1> QED BY <1>3 DEF L

(* soDeplete called from soReplenish: soAllocCluster takes from the head cache *)
(* or fails.                                                                   *)
LEMMA InnerDepleteSound ==
  ASSUME NEW z \in States, z.err = "OK", NEW U, Sound(z, U, Stored(z)),
         NEW d, d = InnerDeplete(z)
  PROVE  /\ Sound(d, U, Stored(d))
         /\ z.stray \subseteq d.stray /\ z.refs \subseteq d.refs
<1>1. CASE z.crefs = 0 \/ z.ctail.ref[z.ctail.out] = NULL_REFERENCE
  <2>1. d = IF z.ctail.ref[z.ctail.out] = NULL_REFERENCE THEN z ELSE DepleteToHeadCache(z)
    BY <1>1, EasyDepletion
  <2>2. CASE d = z
    BY <2>2
  <2>3. CASE d = DepleteToHeadCache(z)
    <3> DEFINE y == DepleteToHeadCache(z)
    <3>1. y.disk = z.disk /\ y.refs = z.refs /\ y.stray = z.stray
      BY DepleteToHeadCacheType
    <3>2. Sound(y, U, Stored(z))
      BY DepleteToHeadCacheSound
    <3> HIDE DEF y
    <3>3. Stored(y) = Stored(z)
      BY <3>1 DEF Stored
    <3>4. d = y
      BY <2>3 DEF y
    <3> QED BY <3>1, <3>2, <3>3, <3>4
  <2> QED BY <2>1, <2>2, <2>3
<1>2. CASE z.crefs # 0 /\ z.ctail.ref[z.ctail.out] # NULL_REFERENCE
  <2> DEFINE s == Started(z)
             x == s.z
             t == z.ctail.cluster_number
             y == InnerAlloc(x)
  <2>1. /\ s \in Locals /\ x \in States /\ x.err = "OK" /\ x.refs = z.refs
        /\ z.stray \subseteq x.stray /\ x.ctail.cluster_number = t
    BY StartedIs DEF Locals
  <2>2. Sound(x, U, Buffered(x, t, s.ref))
    BY StartedSound
  <2>3. d = Depleted(z, y) /\ s = Started(z)
    <3>1. y \in States
      BY <2>1, InnerAllocIs
    <3> QED BY <1>2, <3>1, DepleteIs
  <2> HIDE DEF x, s
  <2>4. /\ y \in States
        /\ x.cfree = 0 => SameBut(x, y) /\ Threw(y)
        /\ x.cfree # 0 => Taken(x, y)
    BY <2>1, InnerAllocIs
  <2> HIDE DEF y
  <2>5. z.stray \subseteq y.stray /\ z.refs \subseteq y.refs /\ y.disk = x.disk
        /\ y.ctail.cluster_number = t /\ y.refs = x.refs
    <3>1. CASE x.cfree = 0
      BY <2>1, <2>4, <3>1 DEF SameBut
    <3>2. CASE x.cfree # 0
      BY <2>1, <2>4, <3>2 DEF Taken
    <3> QED BY <3>1, <3>2
  <2>6. Buffered(y, t, s.ref) = Buffered(x, t, s.ref)
    BY <2>5 DEF Buffered
  <2>7. Threw(y) => Sound(y, U, Stored(y))
    <3>1. CASE x.cfree = 0
      <4> DEFINE K == Buffered(y, t, s.ref)
      <4>1. Sound(x, U, K)
        BY <2>2, <2>6
      <4> HIDE DEF K
      <4>2. /\ y.chead.ref = x.chead.ref /\ y.chead.cluster_number = x.chead.cluster_number
            /\ y.chead.cluster_idx = x.chead.cluster_idx
            /\ y.ctail.ref = x.ctail.ref /\ y.refs = x.refs
        BY <2>4, <3>1 DEF SameBut
      <4>3. Sound(y, U, K)
        BY <4>1, <4>2, SameSound
      <4> QED BY <2>4, <4>3, LeaveSound DEF K
    <3>2. CASE x.cfree # 0
      BY <2>1, <2>4, <3>2 DEF Taken, Threw
    <3> QED BY <3>1, <3>2
  <2>8. ~ Threw(y) => /\ Sound(y, U \cup {y.ret}, Buffered(y, t, s.ref))
                      /\ y.ret = NULL_REFERENCE \/ y.ret \notin U
    <3> DEFINE K == Buffered(y, t, s.ref)
    <3>1. Sound(x, U, K)
      BY <2>2, <2>6
    <3> HIDE DEF K
    <3>2. ~ Threw(y) => Taken(x, y)
      BY <2>4
    <3>3. ~ Threw(y) => Sound(y, U \cup {y.ret}, K) /\ (y.ret = NULL_REFERENCE \/ y.ret \notin U)
      BY <2>1, <3>1, <3>2, TakenSound
    <3> QED BY <3>3 DEF K
  <2>9. t = z.ctail.cluster_number
    OBVIOUS
  <2> HIDE DEF t
  <2>10. Sound(d, U, Stored(d))
    BY <2>3, <2>4, <2>5, <2>7, <2>8, <2>9, DepletedSound
  <2> QED BY <2>3, <2>4, <2>5, <2>10, DepletedKeeps
<1> QED BY <1>1, <1>2

LEMMA InnerDepleteKeeps ==
  ASSUME NEW z \in States, z.err = "OK", NEW d, d = InnerDeplete(z)
  PROVE  z.stray \subseteq d.stray /\ z.refs \subseteq d.refs
<1>1. CASE z.crefs = 0 \/ z.ctail.ref[z.ctail.out] = NULL_REFERENCE
  <2>1. d = IF z.ctail.ref[z.ctail.out] = NULL_REFERENCE THEN z ELSE DepleteToHeadCache(z)
    BY <1>1, EasyDepletion
  <2> DEFINE y == DepleteToHeadCache(z)
  <2>2. y.refs = z.refs /\ y.stray = z.stray
    BY DepleteToHeadCacheType
  <2> HIDE DEF y
  <2>3. d = z \/ d = y
    BY <2>1 DEF y
  <2> QED BY <2>2, <2>3
<1>2. CASE z.crefs # 0 /\ z.ctail.ref[z.ctail.out] # NULL_REFERENCE
  <2> DEFINE s == Started(z)
             x == s.z
             y == InnerAlloc(x)
  <2>1. x \in States /\ x.err = "OK" /\ x.refs = z.refs /\ z.stray \subseteq x.stray
    BY StartedIs DEF Locals
  <2>2. y \in States
    BY <2>1, InnerAllocIs
  <2>3. d = Depleted(z, y)
    BY <1>2, <2>2, DepleteIs
  <2> HIDE DEF x, s
  <2>4. /\ y \in States
        /\ x.cfree = 0 => SameBut(x, y) /\ Threw(y)
        /\ x.cfree # 0 => Taken(x, y)
    BY <2>1, InnerAllocIs
  <2> HIDE DEF y
  <2>5. y.stray = x.stray /\ y.refs = x.refs
    <3>1. CASE x.cfree = 0
      BY <2>4, <3>1 DEF SameBut
    <3>2. CASE x.cfree # 0
      BY <2>4, <3>2 DEF Taken
    <3> QED BY <3>1, <3>2
  <2>6. z.stray \subseteq y.stray /\ z.refs \subseteq y.refs
    BY <2>1, <2>5
  <2> QED BY <2>3, <2>4, <2>6, DepletedKeeps
<1> QED BY <1>1, <1>2

(* soReplenish from the head cluster in the middle of soDeplete, which has     *)
(* read cluster t into its array: the tail cache has nothing for the nested    *)
(* soDeplete.  Called first, it has no array to mind: t is null.               *)
Quiet(z) ==
  \/ z.ctail.ref[z.ctail.out] = NULL_REFERENCE
  \/ z.ctail.ref[z.ctail.in] # NULL_REFERENCE

LEMMA NestedIs ==
  ASSUME NEW z \in States, z.err = "OK"
  PROVE  /\ Nested(z) \in States
         /\ Nested(z).chead.cluster_number = z.chead.cluster_number
         /\ Nested(z) = Moved(z) \/ Nested(z) = InnerDeplete(Moved(z))
         /\ Quiet(z) => Nested(z) = Moved(z)
         /\ Moved(z).stray \subseteq Nested(z).stray
         /\ z.refs \subseteq Nested(z).refs
<1> DEFINE m == Moved(z)
           d == Nested(z)
           e == InnerDeplete(m)
<1>1. /\ m \in States /\ m.err = "OK" /\ m.ctail = z.ctail /\ m.refs = z.refs
      /\ m.chead.cluster_number = z.chead.cluster_number
  BY MovedType
<1>2. d = IF m.ctail.ref[m.ctail.in] = NULL_REFERENCE THEN e ELSE m
  BY DEF Nested
<1> HIDE DEF m, d
<1>3. /\ e \in States /\ m.stray \subseteq e.stray /\ m.refs \subseteq e.refs
      /\ e.chead.cluster_number = m.chead.cluster_number
  BY <1>1, InnerDepleteCounts, InnerDepleteKeeps
<1>4. m.ctail.ref[m.ctail.out] = NULL_REFERENCE => e = m
  BY <1>1, EasyDepletion
<1> HIDE DEF e
<1>5. Quiet(z) => d = m
  BY <1>1, <1>2, <1>4 DEF Quiet
<1>6. d \in States /\ d.chead.cluster_number = z.chead.cluster_number
      /\ m.stray \subseteq d.stray /\ z.refs \subseteq d.refs /\ (d = m \/ d = e)
  BY <1>1, <1>2, <1>3
<1> QED BY <1>5, <1>6 DEF m, d, e

LEMMA NestedSound ==
  ASSUME NEW z \in States, z.err = "OK", Trusted(z), NEW U, NEW t, NEW ref,
         Sound(z, U, Buffered(z, t, ref)), Quiet(z) \/ t = NULL_REFERENCE,
         NEW m, m = Moved(z), NEW d, d = Nested(z)
  PROVE  Sound(m, U, Buffered(m, t, ref)) /\ Sound(d, U, Buffered(d, t, ref))
<1>1. m \in States /\ m.err = "OK" /\ m.disk = z.disk
  <2>1. LET v == Moved(z) IN v \in States /\ v.err = z.err /\ v.disk = z.disk
    BY MovedType
  <2> QED BY <2>1
<1>2. Sound(m, U, Buffered(m, t, ref))
  <2> DEFINE K == Buffered(z, t, ref)
  <2>1. \A a \in z.refs : \A p \in Position : z.disk[a][p] \in K[a][p]
    BY InContents DEF States
  <2>2. Buffered(m, t, ref) = K
    BY <1>1 DEF Buffered
  <2> HIDE DEF K
  <2>3. Sound(z, U, K)
    BY DEF K
  <2>4. Sound(Moved(z), U, K)
    BY <2>1, <2>3, MovedSound
  <2> QED BY <2>2, <2>4
<1>3. CASE d = m
  BY <1>2, <1>3
<1>4. CASE t = NULL_REFERENCE /\ d = InnerDeplete(m)
  <2>1. Sound(m, U, Stored(m))
    BY <1>2, <1>4, StoredIs
  <2>2. Sound(d, U, Stored(d))
    BY <1>1, <1>4, <2>1, InnerDepleteSound
  <2> QED BY <1>2, <1>4, <2>2, StoredIs
<1>5. d = m \/ (t = NULL_REFERENCE /\ d = InnerDeplete(m))
  BY NestedIs
<1> QED BY <1>3, <1>4, <1>5

(* The four ways soReplenish leaves the head cluster.                         *)
GaveUp(y, d) == Threw(d) /\ y = d
WentOn(z, y, d) ==
  LET c == z.chead.cluster_number IN
  /\ ~ Threw(d) /\ ~ Threw(y)
  /\ y.chead.ref = d.chead.ref
  /\ y.chead.cluster_number = Source(z)[RPC - 1] /\ y.chead.cluster_idx = 0
  /\ y.ctail.ref = [d.ctail.ref EXCEPT ![d.ctail.in] = c]
  /\ y.ctail.cluster_number = d.ctail.cluster_number
  /\ y.crefs = d.crefs - 1
  /\ y.disk = IF c \in d.refs
                THEN [d.disk EXCEPT ![c] = [Rest(z) EXCEPT ![RPC - 1] = NULL_REFERENCE]]
                ELSE d.disk
  /\ y.stray = IF c \in d.refs THEN d.stray ELSE d.stray \cup {c}
  /\ y.refs = d.refs \ {c}
CameToAnEnd(z, y, m) ==
  LET c == z.chead.cluster_number IN
  /\ ~ Threw(y)
  /\ y.chead.ref = m.chead.ref
  /\ y.chead.cluster_number = NULL_REFERENCE /\ y.chead.cluster_idx = 0
  /\ y.ctail.ref = [z.ctail.ref EXCEPT ![z.ctail.in] = c]
  /\ y.ctail.cluster_number = NULL_REFERENCE
  /\ y.crefs = z.crefs - 1
  /\ y.disk = IF c \in z.refs THEN [z.disk EXCEPT ![c] = Rest(z)] ELSE z.disk
  /\ y.stray = IF c \in z.refs THEN m.stray ELSE m.stray \cup {c}
  /\ y.refs = z.refs \ {c}
Stopped(z, y, m) ==
  LET c == z.chead.cluster_number IN
  /\ ~ Threw(y)
  /\ y.chead.ref = m.chead.ref
  /\ y.chead.cluster_number = c /\ y.chead.cluster_idx = m.chead.cluster_idx
  /\ y.ctail = z.ctail
  /\ y.crefs = z.crefs
  /\ y.disk = IF c \in z.refs THEN [z.disk EXCEPT ![c] = Rest(z)] ELSE z.disk
  /\ y.stray = IF c \in z.refs THEN m.stray ELSE m.stray \cup {c}
  /\ y.refs = z.refs

LEMMA RefilledIs ==
  ASSUME NEW z \in States, z.err = "OK", z.crefs > 0, CTotal > 1,
         NEW m, m = Moved(z), NEW d, d = Nested(z), NEW y, y = Refilled(z, d)
  PROVE  /\ y \in States
         /\ GaveUp(y, d) \/ WentOn(z, y, d) \/ CameToAnEnd(z, y, m) \/ Stopped(z, y, m)
<1> DEFINE c == z.chead.cluster_number
<1>0. z.crefs \in Nat /\ c \in OptCluster
  BY Sizes DEF States, Heads, OptCluster, Cluster
<1>1. y \in States
  <2>1. LET v == Refilled(z, Nested(z)) IN v \in States
    BY RefilledCounts
  <2> QED BY <2>1
<1>2. d \in States /\ d.chead.cluster_number = c
  BY NestedIs
<1>3. ~ Threw(d) => d.crefs > 0
  <2> DEFINE e == InnerDeplete(m)
  <2>1. m \in States /\ m.crefs = z.crefs /\ m.err = "OK"
    <3>1. LET v == Moved(z) IN v \in States /\ v.crefs = z.crefs /\ v.err = z.err
      BY MovedType
    <3> QED BY <3>1
  <2>2. e \in States /\ e.crefs >= m.crefs
    BY <2>1, InnerDepleteCounts
  <2>3. d = m \/ d = e
    BY NestedIs
  <2> HIDE DEF e
  <2>4. e.crefs \in Nat
    BY <2>2 DEF States
  <2>5. d.crefs >= z.crefs /\ d.crefs \in Nat
    BY <1>0, <2>1, <2>2, <2>3, <2>4
  <2> QED BY <1>0, <2>5
<1> HIDE DEF c
<1>5. CASE Moving(z) = ToLink(z) /\ Threw(d)
  <2>1. y = d
    BY <1>5 DEF Refilled
  <2> QED BY <1>1, <1>5, <2>1 DEF GaveUp
<1>6. CASE Moving(z) = ToLink(z) /\ ~ Threw(d)
  <2> DEFINE v == Refilled(z, d)
  <2>1. /\ v.chead.ref = d.chead.ref
        /\ v.chead.cluster_number = Source(z)[RPC - 1] /\ v.chead.cluster_idx = 0
        /\ v.ctail.ref = [d.ctail.ref EXCEPT ![d.ctail.in] = c]
        /\ v.ctail.cluster_number = d.ctail.cluster_number
        /\ v.crefs = d.crefs - 1
        /\ v.disk = IF c \in d.refs
                THEN [d.disk EXCEPT ![c] = [Rest(z) EXCEPT ![RPC - 1] = NULL_REFERENCE]]
                ELSE d.disk
        /\ v.stray = IF c \in d.refs THEN d.stray ELSE d.stray \cup {c}
        /\ v.refs = d.refs \ {c} /\ v.err = d.err
    <3>1. /\ z \in States /\ d \in States /\ ~ Threw(d) /\ Moving(z) = ToLink(z)
          /\ z.chead.cluster_number \in OptCluster
          /\ d.chead.cluster_number = z.chead.cluster_number /\ d.crefs > 0
      BY <1>0, <1>2, <1>3, <1>6 DEF c
    <3> QED BY ONLY <3>1, LinkedType DEF c
  <2> HIDE DEF v
  <2>2. y = v
    BY DEF v
  <2>3. ~ Threw(y)
    BY <1>6, <2>1, <2>2 DEF Threw
  <2>4. WentOn(z, y, d)
    BY <1>6, <2>1, <2>2, <2>3 DEF WentOn, c
  <2> QED BY <1>1, <2>4
<1>7. CASE Moving(z) # ToLink(z) /\ Moving(z) = Left(z) /\ Moving(z) < FCT_CACHE_SIZE
  <2> DEFINE v == Refilled(z, d)
             k == Moved(z)
  <2>1. /\ v.chead.ref = k.chead.ref
        /\ v.chead.cluster_number = NULL_REFERENCE /\ v.chead.cluster_idx = 0
        /\ v.ctail.ref = [z.ctail.ref EXCEPT ![z.ctail.in] = c]
        /\ v.ctail.cluster_number = NULL_REFERENCE
        /\ v.crefs = z.crefs - 1
        /\ v.disk = IF c \in z.refs THEN [z.disk EXCEPT ![c] = Rest(z)] ELSE z.disk
        /\ v.stray = IF c \in z.refs THEN k.stray ELSE k.stray \cup {c}
        /\ v.refs = z.refs \ {c} /\ v.err = z.err
    BY <1>0, <1>7, EndedType DEF c
  <2>2. y = v /\ m = k
    OBVIOUS
  <2> HIDE DEF v, k
  <2>3. ~ Threw(y)
    BY <2>1, <2>2 DEF Threw
  <2>4. CameToAnEnd(z, y, m)
    BY <2>1, <2>2, <2>3 DEF CameToAnEnd, c
  <2> QED BY <1>1, <2>4
<1>8. CASE Moving(z) # ToLink(z) /\ ~ (Moving(z) = Left(z) /\ Moving(z) < FCT_CACHE_SIZE)
  <2> DEFINE v == Refilled(z, d)
             k == Moved(z)
  <2>1. /\ v.chead.ref = k.chead.ref
        /\ v.chead.cluster_number = c /\ v.chead.cluster_idx = k.chead.cluster_idx
        /\ v.ctail = z.ctail
        /\ v.crefs = z.crefs
        /\ v.disk = IF c \in z.refs THEN [z.disk EXCEPT ![c] = Rest(z)] ELSE z.disk
        /\ v.stray = IF c \in z.refs THEN k.stray ELSE k.stray \cup {c}
        /\ v.refs = z.refs /\ v.err = z.err
    BY <1>8, FilledType DEF c
  <2>2. y = v /\ m = k
    OBVIOUS
  <2> HIDE DEF v, k
  <2>3. ~ Threw(y)
    BY <2>1, <2>2 DEF Threw
  <2>4. Stopped(z, y, m)
    BY <2>1, <2>2, <2>3 DEF Stopped, c
  <2> QED BY <1>1, <2>4
<1> QED BY <1>5, <1>6, <1>7, <1>8

LEMMA RefilledKeeps ==
  ASSUME NEW z \in States, z.err = "OK", z.crefs > 0, CTotal > 1,
         NEW m, m = Moved(z), NEW d, d = Nested(z), NEW y, y = Refilled(z, d)
  PROVE  /\ m.stray \subseteq y.stray
         /\ y.stray = {} => Trusted(z)
         /\ Quiet(z) => y.ctail.cluster_number \in {z.ctail.cluster_number, NULL_REFERENCE}
<1> DEFINE c == z.chead.cluster_number
<1>1. m.stray = z.stray \cup ({c} \ z.refs) \cup ({c % Byte} \ {c}) /\ m.ctail = z.ctail
  <2>1. LET v == Moved(z) IN
          v.stray = z.stray \cup ({c} \ z.refs) \cup ({c % Byte} \ {c}) /\ v.ctail = z.ctail
    BY MovedType
  <2> QED BY <2>1
<1>2. m.stray \subseteq d.stray /\ (Quiet(z) => d = m)
  BY NestedIs
<1>3. GaveUp(y, d) \/ WentOn(z, y, d) \/ CameToAnEnd(z, y, m) \/ Stopped(z, y, m)
  BY RefilledIs
<1>4. m.stray \subseteq y.stray
  BY <1>2, <1>3 DEF GaveUp, WentOn, CameToAnEnd, Stopped
<1>5. Quiet(z) => y.ctail.cluster_number \in {z.ctail.cluster_number, NULL_REFERENCE}
  BY <1>1, <1>2, <1>3 DEF GaveUp, WentOn, CameToAnEnd, Stopped
<1>6. ASSUME y.stray = {}
      PROVE  c \in z.refs /\ c % Byte = c
  <2>1. {c} \ z.refs = {} /\ {c % Byte} \ {c} = {}
    BY <1>1, <1>4, <1>6
  <2> QED BY <2>1
<1> QED BY <1>4, <1>5, <1>6 DEF Trusted

LEMMA RefilledSound ==
  ASSUME NEW z \in States, z.err = "OK", z.crefs > 0, CTotal > 1, Trusted(z),
         NEW U, NEW t, NEW ref,
         Sound(z, U, Buffered(z, t, ref)), Quiet(z) \/ t = NULL_REFERENCE,
         NEW y, y = Refilled(z, Nested(z))
  PROVE  Sound(y, U, Buffered(y, t, ref))
<1> DEFINE c == z.chead.cluster_number
           h == z.chead.cluster_idx
           m == Moved(z)
           d == Nested(z)
           n == Moving(z)
           source == Source(z)
           rest == Rest(z)
           L == Buffered(y, t, ref)
<1>1. /\ m \in States /\ m.ctail = z.ctail /\ m.refs = z.refs /\ m.disk = z.disk
      /\ m.chead.cluster_number = c /\ m.chead.cluster_idx = h + n
  BY MovedType
<1>2. d \in States /\ d.chead.cluster_number = c /\ z.refs \subseteq d.refs
  BY NestedIs
<1>3. Sound(m, U, Buffered(m, t, ref)) /\ Sound(d, U, Buffered(d, t, ref))
  BY NestedSound
<1>4. /\ y \in States
      /\ GaveUp(y, d) \/ WentOn(z, y, d) \/ CameToAnEnd(z, y, m) \/ Stopped(z, y, m)
  BY RefilledIs
<1>5. c \in z.refs \cup {NULL_REFERENCE}
  BY DEF Trusted
<1>6. /\ n \in 0 .. FCT_CACHE_SIZE /\ h \in Position /\ source \in Array
      /\ \A p \in Position : source[p] = NULL_REFERENCE \/ (c \in z.refs /\ source[p] = z.disk[c][p])
      /\ rest = [p \in Position |-> IF p \in h .. h + n - 1 THEN NULL_REFERENCE ELSE source[p]]
  BY MovingType, RestType, SourceIs DEF Rest
<1>7. z.refs \subseteq Cluster /\ d.refs \subseteq Cluster /\ y.refs \subseteq Cluster
  BY <1>2, <1>4 DEF States
<1> HIDE DEF m, d, n, source, rest, c, h
<1>8. CASE GaveUp(y, d)
  BY <1>3, <1>8 DEF GaveUp
<1>9. CASE WentOn(z, y, d)
  <2> DEFINE K == Buffered(d, t, ref)
  <2>1. /\ y.chead.ref = d.chead.ref /\ y.chead.cluster_idx = 0 /\ y.refs = d.refs \ {c}
        /\ y.ctail.ref = [d.ctail.ref EXCEPT ![d.ctail.in] = c]
        /\ \A a \in y.refs : y.disk[a] = d.disk[a]
    BY <1>2, <1>9 DEF WentOn, c, States
  <2>2. \A a \in y.refs : \A b \in Position : L[a][b] \subseteq K[a][b]
    BY <1>7, <2>1 DEF Buffered
  <2>3. c = d.chead.cluster_number /\ c \in d.refs \cup {NULL_REFERENCE}
    BY <1>2, <1>5
  <2>4. Sound(d, U, K)
    BY <1>3
  <2> HIDE DEF K, L
  <2>5. Sound(y, U, L)
    BY <1>2, <2>1, <2>2, <2>3, <2>4, RetireSound
  <2> QED BY <2>5 DEF L
<1>10. CASE CameToAnEnd(z, y, m)
  <2> DEFINE K == Buffered(m, t, ref)
  <2>1. /\ y.chead.ref = m.chead.ref /\ y.chead.cluster_idx = 0 /\ y.refs = m.refs \ {c}
        /\ y.ctail.ref = [m.ctail.ref EXCEPT ![m.ctail.in] = c]
        /\ \A a \in y.refs : y.disk[a] = m.disk[a]
    BY <1>1, <1>10 DEF CameToAnEnd, c, States
  <2>2. \A a \in y.refs : \A b \in Position : L[a][b] \subseteq K[a][b]
    BY <1>7, <2>1 DEF Buffered
  <2>3. c = m.chead.cluster_number /\ c \in m.refs \cup {NULL_REFERENCE}
    BY <1>1, <1>5
  <2>4. Sound(m, U, K)
    BY <1>3
  <2> HIDE DEF K, L
  <2>5. Sound(y, U, L)
    BY <1>1, <2>1, <2>2, <2>3, <2>4, RetireSound
  <2> QED BY <2>5 DEF L
<1>11. CASE Stopped(z, y, m)
  <2> DEFINE K == Buffered(m, t, ref)
  <2>1. /\ y.chead.ref = m.chead.ref /\ y.chead.cluster_idx = m.chead.cluster_idx
        /\ y.chead.cluster_number = m.chead.cluster_number
        /\ y.refs = m.refs /\ y.ctail = m.ctail
        /\ y.disk = IF c \in z.refs THEN [z.disk EXCEPT ![c] = rest] ELSE z.disk
    BY <1>1, <1>11 DEF Stopped, c, rest
  <2>2. ASSUME NEW k, NEW a, NEW b, NEW v, Lists(y, U, L, k, a, b, v)
        PROVE  Lists(m, U, K, k, a, b, v)
    <3>0. v # NULL_REFERENCE /\ Low(y, a) = Low(m, a)
      BY <2>1, <2>2 DEF Lists, Low
    <3>1. CASE k = "refs" /\ a \in y.refs /\ b \in Low(y, a) .. RPC - 2 /\ v \in L[a][b]
      <4>1. b \in Position /\ a \in Cluster /\ a \in z.refs
        <5>1. Low(y, a) \in Position
          BY <1>4, LowType
        <5> QED BY <1>1, <1>7, <2>1, <3>1, <5>1, Sizes DEF Position
      <4>2. v = y.disk[a][b] \/ (a = t /\ v = ref[b])
        BY <3>1, <4>1, InContents
      <4>3. y.disk[a][b] = z.disk[a][b] \/ y.disk[a][b] = NULL_REFERENCE
        <5>1. CASE a = c
          <6>1. y.disk[a] = rest
            BY <2>1, <4>1, <5>1 DEF States
          <6>2. rest[b] \in {source[b], NULL_REFERENCE}
            BY <1>6, <4>1
          <6> QED BY <1>6, <4>1, <5>1, <6>1, <6>2
        <5>2. CASE a # c
          BY <2>1, <4>1, <5>2 DEF States
        <5> QED BY <5>1, <5>2
      <4>4. v \in K[a][b]
        BY <1>1, <3>0, <4>1, <4>2, <4>3, InContents
      <4> HIDE DEF K, L
      <4> QED BY <2>1, <3>0, <3>1, <4>4 DEF Lists
    <3>2. CASE ~ (k = "refs" /\ a \in y.refs /\ b \in Low(y, a) .. RPC - 2 /\ v \in L[a][b])
      <4> HIDE DEF K, L
      <4> QED BY <2>1, <2>2, <3>2 DEF Lists
    <3> QED BY <3>1, <3>2
  <2>3. Sound(m, U, K)
    BY <1>3
  <2> HIDE DEF K, L
  <2>4. Sound(y, U, L)
    BY <2>2, <2>3, FewerSound
  <2> QED BY <2>4 DEF L
<1> QED BY <1>4, <1>8, <1>9, <1>10, <1>11

LEMMA ResetKeeps ==
  ASSUME NEW z \in States, NEW r, r = Reset(z)
  PROVE  /\ r \in States /\ r.err = z.err /\ r.crefs = z.crefs /\ r.stray = z.stray
         /\ r.disk = z.disk /\ r.refs = z.refs /\ r.ctail = z.ctail
         /\ r.chead.ref = z.chead.ref /\ r.chead.cluster_number = z.chead.cluster_number
         /\ r.chead.cluster_idx = z.chead.cluster_idx
         /\ Quiet(r) <=> Quiet(z)
         /\ Trusted(r) <=> Trusted(z)
<1>1. LET v == Reset(z) IN
         /\ v \in States /\ v.err = z.err /\ v.crefs = z.crefs /\ v.stray = z.stray
         /\ v.disk = z.disk /\ v.refs = z.refs /\ v.ctail = z.ctail
         /\ v.chead.ref = z.chead.ref /\ v.chead.cluster_number = z.chead.cluster_number
         /\ v.chead.cluster_idx = z.chead.cluster_idx
  BY ResetType
<1>2. /\ r \in States /\ r.err = z.err /\ r.crefs = z.crefs /\ r.stray = z.stray
      /\ r.disk = z.disk /\ r.refs = z.refs /\ r.ctail = z.ctail
      /\ r.chead.ref = z.chead.ref /\ r.chead.cluster_number = z.chead.cluster_number
      /\ r.chead.cluster_idx = z.chead.cluster_idx
  BY <1>1
<1>3. (Quiet(r) <=> Quiet(z)) /\ (Trusted(r) <=> Trusted(z))
  BY ONLY <1>2 DEF Quiet, Trusted
<1> QED BY <1>2, <1>3

LEMMA ReplenishKeeps ==
  ASSUME NEW z \in States, z.err = "OK", z.crefs > 0 => CTotal > 1,
         z.chead.ref[z.chead.out] = NULL_REFERENCE, NEW y, y = soReplenish(z)
  PROVE  /\ y \in States
         /\ z.stray \subseteq y.stray
         /\ z.crefs > 0 /\ y.stray = {} => Trusted(z)
         /\ Quiet(z) => y.ctail.cluster_number \in {z.ctail.cluster_number, NULL_REFERENCE}
<1> DEFINE r == Reset(z)
           d == Nested(r)
           e == ReplenishFromTailCache(r)
<1>0. z.crefs \in Nat
  BY DEF States
<1>1. y \in States
  <2>1. LET v == soReplenish(z) IN v \in States
    BY ReplenishCounts
  <2> QED BY <2>1
<1>2. /\ r \in States /\ r.err = "OK" /\ r.crefs = z.crefs /\ r.stray = z.stray
      /\ r.ctail = z.ctail /\ r.refs = z.refs
      /\ Quiet(r) <=> Quiet(z)
      /\ Trusted(r) <=> Trusted(z)
  BY ResetKeeps
<1>3. y = IF z.crefs = 0 THEN e ELSE Refilled(r, d)
  BY ReplenishIs
<1> HIDE DEF r
<1>4. CASE z.crefs = 0
  <2>1. e.stray = r.stray /\ e.ctail.cluster_number = r.ctail.cluster_number
    BY <1>2, ReplenishFromTailCacheType
  <2> HIDE DEF e
  <2> QED BY <1>1, <1>2, <1>3, <1>4, <2>1
<1>5. CASE z.crefs # 0
  <2> DEFINE m == Moved(r)
  <2>0. r.crefs > 0 /\ CTotal > 1 /\ y = Refilled(r, d)
    BY <1>0, <1>2, <1>3, <1>5
  <2>1. /\ m.stray \subseteq y.stray
        /\ y.stray = {} => Trusted(r)
        /\ Quiet(r) => y.ctail.cluster_number \in {r.ctail.cluster_number, NULL_REFERENCE}
    BY <1>2, <2>0, RefilledKeeps
  <2>2. r.stray \subseteq m.stray
    <3>1. LET v == Moved(r) IN v.stray = r.stray \cup ({r.chead.cluster_number} \ r.refs)
                      \cup ({r.chead.cluster_number % Byte} \ {r.chead.cluster_number})
      BY <1>2, MovedType
    <3> HIDE DEF m
    <3> QED BY <3>1 DEF m
  <2> HIDE DEF m
  <2> QED BY <1>1, <1>2, <2>1, <2>2
<1> QED BY <1>4, <1>5

LEMMA ReplenishSound ==
  ASSUME NEW z \in States, z.err = "OK", z.crefs > 0 => CTotal > 1,
         z.chead.ref[z.chead.out] = NULL_REFERENCE,
         NEW U, NEW t, NEW ref,
         Sound(z, U, Buffered(z, t, ref)), Quiet(z) \/ t = NULL_REFERENCE,
         NEW y, y = soReplenish(z), Trusted(z) \/ y.stray = {}
  PROVE  Sound(y, U, Buffered(y, t, ref))
<1> DEFINE r == Reset(z)
           d == Nested(r)
           e == ReplenishFromTailCache(r)
           K == Buffered(z, t, ref)
<1>0. z.crefs \in Nat
  BY DEF States
<1>2. /\ r \in States /\ r.err = "OK" /\ r.crefs = z.crefs /\ r.disk = z.disk
      /\ r.ctail = z.ctail /\ r.refs = z.refs
      /\ r.chead.ref = z.chead.ref /\ r.chead.cluster_number = z.chead.cluster_number
      /\ r.chead.cluster_idx = z.chead.cluster_idx
      /\ Quiet(r) <=> Quiet(z)
      /\ Trusted(r) <=> Trusted(z)
  BY ResetKeeps
<1>3. y = IF z.crefs = 0 THEN e ELSE Refilled(r, d)
  BY ReplenishIs
<1> HIDE DEF r
<1>4. Buffered(r, t, ref) = K
  BY <1>2 DEF Buffered
<1> HIDE DEF K
<1>5. Sound(r, U, K)
  <2>1. Sound(z, U, K)
    BY DEF K
  <2> QED BY <1>2, <2>1, SameSound
<1>6. CASE z.crefs = 0
  <2>1. e.disk = r.disk
    BY <1>2, ReplenishFromTailCacheType
  <2>2. Sound(e, U, K)
    BY <1>2, <1>5, ReplenishFromTailCacheSound
  <2> HIDE DEF e
  <2>3. Buffered(e, t, ref) = K
    BY <1>4, <2>1 DEF Buffered
  <2> QED BY <1>3, <1>6, <2>2, <2>3
<1>7. CASE z.crefs # 0
  <2>0. r.crefs > 0 /\ z.crefs > 0 /\ CTotal > 1 /\ y = Refilled(r, d)
    BY <1>0, <1>2, <1>3, <1>7
  <2>1. Trusted(r)
    BY <1>2, <2>0, ReplenishKeeps
  <2>2. Sound(r, U, Buffered(r, t, ref)) /\ (Quiet(r) \/ t = NULL_REFERENCE)
    BY <1>2, <1>4, <1>5
  <2> QED BY <1>2, <2>0, <2>1, <2>2, RefilledSound
<1> QED BY <1>6, <1>7

(* What soReplenish puts in the head cache is in no use, whatever cluster it   *)
(* has read it from.                                                           *)
LEMMA InnerDepleteHead ==
  ASSUME NEW z \in States, z.err = "OK", z.crefs # 0, NEW d, d = InnerDeplete(z),
         NEW s \in Slot
  PROVE  d.chead.ref[s] \in {z.chead.ref[s], NULL_REFERENCE}
<1>1. CASE z.ctail.ref[z.ctail.out] = NULL_REFERENCE
  <2>1. d = z
    BY <1>1, EasyDepletion
  <2> QED BY <2>1
<1>2. CASE z.ctail.ref[z.ctail.out] # NULL_REFERENCE
  <2> DEFINE w == Started(z)
             x == w.z
             y == InnerAlloc(x)
  <2>1. x \in States /\ x.err = "OK" /\ x.chead = z.chead
    BY StartedIs DEF Locals
  <2>2. y \in States
    BY <2>1, InnerAllocIs
  <2>3. d = Depleted(z, y)
    BY <1>2, <2>2, DepleteIs
  <2> HIDE DEF x
  <2>4. /\ y \in States
        /\ x.cfree = 0 => SameBut(x, y) /\ Threw(y)
        /\ x.cfree # 0 => Taken(x, y)
    BY <2>1, InnerAllocIs
  <2> HIDE DEF y
  <2>5. y.chead.ref[s] \in {z.chead.ref[s], NULL_REFERENCE}
    <3>1. CASE x.cfree = 0
      BY <2>1, <2>4, <3>1 DEF SameBut
    <3>2. CASE x.cfree # 0
      BY <2>1, <2>4, <3>2 DEF Taken, States, Heads, Cache
    <3> QED BY <3>1, <3>2
  <2>6. d.chead = z.chead \/ d.chead = y.chead
    <3> DEFINE v == Depleted(z, y)
    <3>1. /\ ~ More(w) => v.chead = z.chead
          /\ More(w) /\ Threw(y) => v = y
          /\ More(w) /\ ~ Threw(y) => v.chead = y.chead
      BY <2>4, DepletedSummary
    <3> HIDE DEF v, w
    <3> QED BY <2>3, <3>1 DEF v
  <2> QED BY <2>5, <2>6
<1> QED BY <1>1, <1>2

LEMMA ListedNotUsed ==
  ASSUME NEW z, NEW U, NEW K, Sound(z, U, K), NEW k, NEW a, NEW b, NEW v,
         Lists(z, U, K, k, a, b, v), k # "use"
  PROVE  v \notin U
<1>1. v # NULL_REFERENCE
  BY DEF Lists
<1>2. v \in U => Lists(z, U, K, "use", v, 0, v)
  BY <1>1 DEF Lists
<1> QED BY <1>2 DEF Sound

LEMMA MovedNotUsed ==
  ASSUME NEW z \in States, NEW U, Sound(z, U, Stored(z)),
         NEW m, m = Moved(z), NEW s \in Slot
  PROVE  m.chead.ref[s] = NULL_REFERENCE \/ m.chead.ref[s] \notin U
<1> DEFINE c == z.chead.cluster_number
           h == z.chead.cluster_idx
           n == Moving(z)
           K == Stored(z)
           g == c % Byte
           v == m.chead.ref[s]
<1>1. v = IF s < n THEN Source(z)[h + s] ELSE z.chead.ref[s]
  <2>1. LET w == Moved(z) IN
        w.chead.ref = [i \in Slot |-> IF i < n THEN Source(z)[h + i] ELSE z.chead.ref[i]]
    BY MovedType
  <2> QED BY <2>1
<1>2. Source(z) = Read(z, g)
  BY DEF Source
<1>3. h \in Position /\ h + n \in Position /\ n \in 0 .. FCT_CACHE_SIZE
  BY MovingType
<1> HIDE DEF v, n, g
<1>4. CASE s < n
  <2>1. h + s \in Position /\ h + s <= RPC - 2 /\ h <= h + s
    BY <1>3, <1>4, Sizes DEF Slot, Position
  <2>2. v = NULL_REFERENCE \/ (g \in z.refs /\ v = z.disk[g][h + s])
    BY <1>1, <1>2, <1>4, <2>1, ReadType
  <2>3. Low(z, g) \in 0 .. h + s
    BY <1>3, <2>1 DEF Low, Position
  <2>4. ASSUME v # NULL_REFERENCE
        PROVE  v \notin U
    <3>1. g \in z.refs /\ g \in Cluster /\ v = z.disk[g][h + s]
      BY <2>2, <2>4 DEF States
    <3> DEFINE l == Low(z, g)
               p == h + s
    <3>2. v \in K[g][h + s]
      <4>1. p \in Position /\ g \in Cluster /\ v = z.disk[g][p]
        BY <2>1, <3>1
      <4> HIDE DEF p
      <4>2. v \in Stored(z)[g][p]
        BY SMTT(30), <4>1, InContents
      <4> QED BY <4>2 DEF p
    <3>3. p \in l .. RPC - 2
      <4>1. l \in 0 .. p /\ p \in Position /\ p <= RPC - 2
        BY <2>1, <2>3
      <4> HIDE DEF l, p
      <4> QED BY <4>1, Sizes DEF Position
    <3> HIDE DEF K
    <3>4. Lists(z, U, K, "refs", g, h + s, v)
      BY <2>4, <3>1, <3>2, <3>3 DEF Lists
    <3>5. Sound(z, U, K)
      BY DEF K
    <3> QED BY <3>4, <3>5, ListedNotUsed
  <2> QED BY <2>4 DEF v
<1>5. CASE ~ (s < n)
  <2>1. v # NULL_REFERENCE => Lists(z, U, K, "head", s, 0, v)
    BY <1>1, <1>5 DEF Lists
  <2> QED BY <2>1, ListedNotUsed DEF v
<1> QED BY <1>4, <1>5

LEMMA ReplenishNotUsed ==
  ASSUME NEW z \in States, z.err = "OK", z.crefs > 0 => CTotal > 1,
         z.chead.ref[z.chead.out] = NULL_REFERENCE,
         NEW U, Sound(z, U, Stored(z)), NEW y, y = soReplenish(z), NEW s \in Slot
  PROVE  y.chead.ref[s] = NULL_REFERENCE \/ y.chead.ref[s] \notin U
<1> DEFINE r == Reset(z)
           d == Nested(r)
           e == ReplenishFromTailCache(r)
           K == Stored(z)
<1>0. z.crefs \in Nat
  BY DEF States
<1>2. /\ r \in States /\ r.err = "OK" /\ r.crefs = z.crefs /\ r.disk = z.disk
      /\ r.ctail = z.ctail /\ r.refs = z.refs
      /\ r.chead.ref = z.chead.ref /\ r.chead.cluster_number = z.chead.cluster_number
      /\ r.chead.cluster_idx = z.chead.cluster_idx
  BY ResetKeeps
<1>3. y = IF z.crefs = 0 THEN e ELSE Refilled(r, d)
  BY ReplenishIs
<1> HIDE DEF r
<1>4. Stored(r) = K
  BY <1>2 DEF Stored
<1> HIDE DEF K
<1>5. Sound(r, U, K)
  <2>1. Sound(z, U, K)
    BY DEF K
  <2> QED BY <1>2, <2>1, SameSound
<1>6. CASE z.crefs = 0
  <2>1. Sound(e, U, K)
    BY <1>2, <1>5, ReplenishFromTailCacheSound
  <2>2. e.chead.ref[s] # NULL_REFERENCE => Lists(e, U, K, "head", s, 0, e.chead.ref[s])
    BY DEF Lists
  <2> HIDE DEF e
  <2>3. e.chead.ref[s] = NULL_REFERENCE \/ e.chead.ref[s] \notin U
    BY <2>1, <2>2, ListedNotUsed
  <2> QED BY <1>3, <1>6, <2>3
<1>7. CASE z.crefs # 0
  <2> DEFINE m == Moved(r)
             i == InnerDeplete(m)
  <2>0. r.crefs > 0 /\ CTotal > 1 /\ y = Refilled(r, d)
    BY <1>0, <1>2, <1>3, <1>7
  <2>1. m \in States /\ m.err = "OK" /\ m.crefs # 0
    <3>1. m \in States /\ m.err = r.err /\ m.crefs = r.crefs
      BY <1>2, MovedType
    <3> HIDE DEF m
    <3> QED BY <1>2, <1>7, <3>1
  <2>2. m.chead.ref[s] = NULL_REFERENCE \/ m.chead.ref[s] \notin U
    BY <1>2, <1>4, <1>5, MovedNotUsed
  <2>3. d = m \/ d = i
    BY <1>2, NestedIs
  <2>4. GaveUp(y, d) \/ WentOn(r, y, d) \/ CameToAnEnd(r, y, m) \/ Stopped(r, y, m)
    BY <1>2, <2>0, RefilledIs
  <2> HIDE DEF m, d
  <2>5. i.chead.ref[s] \in {m.chead.ref[s], NULL_REFERENCE}
    BY <2>1, InnerDepleteHead
  <2> HIDE DEF i
  <2>6. y.chead.ref = d.chead.ref \/ y.chead.ref = m.chead.ref
    BY <2>4 DEF GaveUp, WentOn, CameToAnEnd, Stopped
  <2> QED BY <2>2, <2>3, <2>5, <2>6
<1> QED BY <1>6, <1>7

(* soAllocCluster.                                                            *)
LEMMA ReadyKeeps ==
  ASSUME NEW z \in States, z.err = "OK", z.crefs > 0 => CTotal > 1, NEW x, x = Ready(z)
  PROVE  /\ x \in States
         /\ z.stray \subseteq x.stray
         /\ Quiet(z) => x.ctail.cluster_number \in {z.ctail.cluster_number, NULL_REFERENCE}
<1>1. CASE z.chead.out = z.chead.in /\ HeadReference(z) = NULL_REFERENCE
  <2>1. x = soReplenish(z) /\ z.chead.ref[z.chead.out] = NULL_REFERENCE
    BY <1>1 DEF Ready, HeadReference
  <2> QED BY <2>1, ReplenishKeeps
<1>2. CASE ~ (z.chead.out = z.chead.in /\ HeadReference(z) = NULL_REFERENCE)
  BY <1>2 DEF Ready
<1> QED BY <1>1, <1>2

LEMMA ReadySound ==
  ASSUME NEW z \in States, z.err = "OK", z.crefs > 0 => CTotal > 1,
         NEW U, NEW t, NEW ref,
         Sound(z, U, Buffered(z, t, ref)), Quiet(z) \/ t = NULL_REFERENCE,
         NEW x, x = Ready(z), Trusted(z) \/ x.stray = {}
  PROVE  Sound(x, U, Buffered(x, t, ref))
<1>1. CASE z.chead.out = z.chead.in /\ HeadReference(z) = NULL_REFERENCE
  <2>1. x = soReplenish(z) /\ z.chead.ref[z.chead.out] = NULL_REFERENCE
    BY <1>1 DEF Ready, HeadReference
  <2> QED BY <2>1, ReplenishSound
<1>2. CASE ~ (z.chead.out = z.chead.in /\ HeadReference(z) = NULL_REFERENCE)
  BY <1>2 DEF Ready
<1> QED BY <1>1, <1>2

LEMMA AllocKeeps ==
  ASSUME NEW z \in States, z.err = "OK", z.crefs > 0 => CTotal > 1,
         NEW y, y = soAllocCluster(z)
  PROVE  /\ y \in States
         /\ z.stray \subseteq y.stray
         /\ Quiet(z) => y.ctail.cluster_number \in {z.ctail.cluster_number, NULL_REFERENCE}
         /\ z.cfree # 0 => Ready(z).stray = y.stray
<1> DEFINE x == Ready(z)
<1>1. /\ y \in States
      /\ z.cfree = 0 => SameBut(z, y) /\ Threw(y)
      /\ z.cfree # 0 =>
           /\ Threw(x) => y = x
           /\ ~ Threw(x) => Taken(x, y)
  <2>1. LET v == soAllocCluster(z) IN
        /\ v \in States
        /\ z.cfree = 0 => SameBut(z, v) /\ Threw(v)
        /\ z.cfree # 0 =>
             /\ Threw(x) => v = x
             /\ ~ Threw(x) => Taken(x, v)
    BY AllocIs
  <2> HIDE DEF x
  <2> QED BY <2>1
<1>2. /\ x \in States /\ z.stray \subseteq x.stray
      /\ Quiet(z) => x.ctail.cluster_number \in {z.ctail.cluster_number, NULL_REFERENCE}
  BY ReadyKeeps
<1> HIDE DEF x
<1>3. CASE z.cfree = 0
  BY <1>1, <1>3 DEF SameBut
<1>4. CASE z.cfree # 0
  <2>1. y.stray = x.stray /\ y.ctail.cluster_number = x.ctail.cluster_number
    BY <1>1, <1>4 DEF Taken
  <2> QED BY <1>1, <1>2, <1>4, <2>1 DEF x
<1> QED BY <1>3, <1>4

LEMMA AllocSound ==
  ASSUME NEW z \in States, z.err = "OK", z.crefs > 0 => CTotal > 1,
         NEW U, NEW t, NEW ref,
         Sound(z, U, Buffered(z, t, ref)), Quiet(z) \/ t = NULL_REFERENCE,
         NEW y, y = soAllocCluster(z), Trusted(z) \/ y.stray = {}
  PROVE  /\ Threw(y) => Sound(y, U, Buffered(y, t, ref))
         /\ ~ Threw(y) => /\ Sound(y, U \cup {y.ret}, Buffered(y, t, ref))
                          /\ y.ret = NULL_REFERENCE \/ y.ret \notin U
<1> DEFINE x == Ready(z)
<1>1. /\ y \in States
      /\ z.cfree = 0 => SameBut(z, y) /\ Threw(y)
      /\ z.cfree # 0 =>
           /\ Threw(x) => y = x
           /\ ~ Threw(x) => Taken(x, y)
  <2>1. LET v == soAllocCluster(z) IN
        /\ v \in States
        /\ z.cfree = 0 => SameBut(z, v) /\ Threw(v)
        /\ z.cfree # 0 =>
             /\ Threw(x) => v = x
             /\ ~ Threw(x) => Taken(x, v)
    BY AllocIs
  <2> HIDE DEF x
  <2> QED BY <2>1
<1>2. x \in States
  BY ReadyKeeps
<1>3. CASE z.cfree = 0
  <2> DEFINE K == Buffered(z, t, ref)
  <2> HIDE DEF x
  <2>1. /\ y.chead.ref = z.chead.ref /\ y.chead.cluster_number = z.chead.cluster_number
        /\ y.chead.cluster_idx = z.chead.cluster_idx
        /\ y.ctail.ref = z.ctail.ref /\ y.refs = z.refs /\ y.disk = z.disk /\ Threw(y)
    BY <1>1, <1>3 DEF SameBut
  <2>2. Buffered(y, t, ref) = K
    BY <2>1 DEF Buffered
  <2>3. Sound(z, U, K)
    OBVIOUS
  <2> HIDE DEF K
  <2>4. Sound(y, U, K)
    BY <2>1, <2>3, SameSound
  <2> QED BY <2>1, <2>2, <2>4
<1>4. CASE z.cfree # 0
  <2> DEFINE K == Buffered(x, t, ref)
  <2>1. x.stray = y.stray
    BY <1>4, AllocKeeps
  <2>2. Sound(x, U, K)
    BY <2>1, ReadySound
  <2> HIDE DEF x
  <2>3. y.disk = x.disk
    BY <1>1, <1>4 DEF Taken
  <2>4. Buffered(y, t, ref) = K
    BY <2>3 DEF Buffered
  <2>5. CASE Threw(x)
    BY <1>1, <1>4, <2>2, <2>4, <2>5
  <2>6. CASE ~ Threw(x)
    <3>1. Taken(x, y) /\ ~ Threw(y)
      BY <1>1, <1>4, <2>6 DEF Taken, Threw
    <3> HIDE DEF K
    <3>2. Sound(y, U \cup {y.ret}, K) /\ (y.ret = NULL_REFERENCE \/ y.ret \notin U)
      BY <1>2, <2>2, <3>1, TakenSound
    <3> QED BY <2>4, <3>1, <3>2
  <2> QED BY <2>5, <2>6
<1> QED BY <1>3, <1>4

(* The answer of soAllocCluster is in no use, even if it has been read from a  *)
(* cluster that is not the head cluster.                                       *)
LEMMA AllocNotUsed ==
  ASSUME NEW z \in States, z.err = "OK", z.crefs > 0 => CTotal > 1,
         z.ret = NULL_REFERENCE, NEW U, Sound(z, U, Stored(z)),
         NEW y, y = soAllocCluster(z)
  PROVE  y.ret = NULL_REFERENCE \/ y.ret \notin U
<1> DEFINE x == Ready(z)
<1>1. /\ y \in States
      /\ z.cfree = 0 => SameBut(z, y) /\ Threw(y)
      /\ z.cfree # 0 =>
           /\ Threw(x) => y = x
           /\ ~ Threw(x) => Taken(x, y)
  <2>1. LET v == soAllocCluster(z) IN
        /\ v \in States
        /\ z.cfree = 0 => SameBut(z, v) /\ Threw(v)
        /\ z.cfree # 0 =>
             /\ Threw(x) => v = x
             /\ ~ Threw(x) => Taken(x, v)
    BY AllocIs
  <2> HIDE DEF x
  <2> QED BY <2>1
<1>2. Threw(y) => y.ret = z.ret
  <2>1. LET v == soAllocCluster(z) IN Threw(v) => v.ret = z.ret
    BY AllocCounts
  <2> QED BY <2>1
<1>3. x \in States
  BY ReadyKeeps
<1>4. ASSUME NEW s \in Slot
      PROVE  x.chead.ref[s] = NULL_REFERENCE \/ x.chead.ref[s] \notin U
  <2>1. CASE z.chead.out = z.chead.in /\ HeadReference(z) = NULL_REFERENCE
    <3>1. x = soReplenish(z) /\ z.chead.ref[z.chead.out] = NULL_REFERENCE
      BY <2>1 DEF Ready, HeadReference
    <3> HIDE DEF x
    <3> QED BY <3>1, ReplenishNotUsed
  <2>2. CASE ~ (z.chead.out = z.chead.in /\ HeadReference(z) = NULL_REFERENCE)
    <3> DEFINE K == Stored(z)
    <3>1. x = z /\ Sound(z, U, K)
      BY <2>2 DEF Ready
    <3>2. z.chead.ref[s] # NULL_REFERENCE => Lists(z, U, K, "head", s, 0, z.chead.ref[s])
      BY DEF Lists
    <3> HIDE DEF x, K
    <3> QED BY <3>1, <3>2, ListedNotUsed
  <2> QED BY <2>1, <2>2
<1> HIDE DEF x
<1>5. CASE Threw(y)
  BY <1>2, <1>5
<1>6. CASE ~ Threw(y)
  <2>1. Taken(x, y)
    BY <1>1, <1>6
  <2>2. x.chead.out \in Slot /\ y.ret = x.chead.ref[x.chead.out]
    BY <1>3, <2>1 DEF Taken, States, Heads
  <2> QED BY <1>4, <2>2
<1> QED BY <1>5, <1>6

LEMMA DepletedStray ==
  ASSUME NEW z \in States, NEW y \in States, NEW d, d = Depleted(z, y), More(Started(z))
  PROVE  y.stray \subseteq d.stray
<1> DEFINE s == Started(z)
<1>1. s \in Locals
  BY StartedIs
<1>2. d = IF Threw(y) THEN y ELSE Finished(FillTailCluster(Extended(s, y)))
  BY DEF Depleted
<1> HIDE DEF s
<1>4. CASE Threw(y)
  <2>1. d = y
    BY <1>2, <1>4
  <2> QED BY <2>1
<1>5. CASE ~ Threw(y)
  <2> DEFINE e == Extended(s, y)
             g == FillTailCluster(e)
             f == Finished(g)
  <2>1. d = f
    BY <1>2, <1>5
  <2>2. /\ e \in Locals
        /\ e.z.stray = IF y.ctail.cluster_number \in y.refs THEN y.stray
                       ELSE y.stray \cup {y.ctail.cluster_number}
    BY <1>1, ExtendedType
  <2> HIDE DEF e
  <2>3. g \in Locals /\ g.z.stray = e.z.stray
    BY <2>2, FillTailClusterType
  <2> HIDE DEF g
  <2>4. f.stray = IF g.z.ctail.cluster_number \in g.z.refs THEN g.z.stray
                  ELSE g.z.stray \cup {g.z.ctail.cluster_number}
    BY <2>3, FinishedType
  <2> HIDE DEF f
  <2> QED BY <2>1, <2>2, <2>3, <2>4
<1> QED BY <1>4, <1>5

(* soDeplete of a full tail cache is quiet once the tail cluster is filled: a  *)
(* slot is free where the next reference comes from, or the cache is as full   *)
(* as before.                                                                  *)
LEMMA StartedQuiet ==
  ASSUME NEW z \in States, z.ctail.ref[z.ctail.in] # NULL_REFERENCE,
         NEW s, s = Started(z)
  PROVE  Quiet(s.z) /\ (Trusted(s.z) <=> Trusted(z))
<1> DEFINE o == Opened(z)
           n == Fill(o)
           i == z.ctail.in
           a == z.ctail.out
<1>0. i \in Slot /\ a \in Slot
  BY DEF States, Tails
<1>1. o \in Locals /\ o.index = a /\ o.z.ctail = z.ctail
  BY OpenedType
<1>2. LET v == Started(z) IN
      /\ v.z.ctail.in = i /\ v.z.ctail.out = a /\ v.z.chead = z.chead /\ v.z.refs = z.refs
  BY StartedIs
<1>3. s = FillTailCluster(o)
  BY DEF Started
<1> HIDE DEF o, n
<1>4. n \in 0 .. FCT_CACHE_SIZE /\ s.z.ctail.ref = Without(o.z.ctail.ref, o.index, n)
  <2>1. LET v == FillTailCluster(o) IN
          Fill(o) \in 0 .. FCT_CACHE_SIZE /\ v.z.ctail.ref = Without(o.z.ctail.ref, o.index, Fill(o))
    BY <1>1, FillTailClusterType
  <2> QED BY <1>3, <2>1 DEF n
<1>5. s.z.ctail.in = i /\ s.z.ctail.out = a /\ s.z.chead = z.chead /\ s.z.refs = z.refs
  BY <1>2
<1>6. s.z.ctail.ref = Without(z.ctail.ref, a, n)
  BY <1>1, <1>4
<1> HIDE DEF i, a
<1>7. CASE n = 0
  <2>1. ~ (\E k \in 0 .. n - 1 : i = At(a, k))
    BY <1>7
  <2>2. s.z.ctail.ref[i] = z.ctail.ref[i]
    BY <1>0, <1>6, <2>1, WithoutIs
  <2> QED BY <1>5, <2>2 DEF Quiet, Trusted, i
<1>8. CASE n # 0
  <2>1. 0 \in 0 .. n - 1 /\ a = At(a, 0)
    BY <1>0, <1>4, <1>8, AtZero
  <2>2. s.z.ctail.ref[a] = NULL_REFERENCE
    BY <1>0, <1>6, <2>1, WithoutIs
  <2> QED BY <1>5, <2>2 DEF Quiet, Trusted
<1> QED BY <1>7, <1>8

LEMMA DepleteSound ==
  ASSUME NEW z \in States, z.err = "OK", z.crefs > 0 => CTotal > 1,
         z.ctail.ref[z.ctail.in] # NULL_REFERENCE,
         NEW U, Sound(z, U, Stored(z)),
         NEW d, d = soDeplete(z), Trusted(z) \/ d.stray = {}
  PROVE  Sound(d, U, Stored(d))
<1>1. CASE z.crefs = 0 \/ z.ctail.ref[z.ctail.out] = NULL_REFERENCE
  <2>1. d = IF z.ctail.ref[z.ctail.out] = NULL_REFERENCE THEN z ELSE DepleteToHeadCache(z)
    BY <1>1, EasyDepletion
  <2>2. CASE d = z
    BY <2>2
  <2>3. CASE d = DepleteToHeadCache(z)
    <3> DEFINE y == DepleteToHeadCache(z)
    <3>1. y.disk = z.disk
      BY DepleteToHeadCacheType
    <3>2. Sound(y, U, Stored(z))
      BY DepleteToHeadCacheSound
    <3> HIDE DEF y
    <3>3. Stored(y) = Stored(z)
      BY <3>1 DEF Stored
    <3>4. d = y
      BY <2>3 DEF y
    <3> QED BY <3>2, <3>3, <3>4
  <2> QED BY <2>1, <2>2, <2>3
<1>2. CASE z.crefs # 0 /\ z.ctail.ref[z.ctail.out] # NULL_REFERENCE
  <2> DEFINE s == Started(z)
             x == s.z
             t == z.ctail.cluster_number
             y == soAllocCluster(x)
  <2>1. /\ s \in Locals /\ x \in States /\ x.err = "OK" /\ x.crefs = z.crefs
        /\ x.ctail.cluster_number = t
    BY StartedIs DEF Locals
  <2>2. Sound(x, U, Buffered(x, t, s.ref))
    BY StartedSound
  <2>3. Quiet(x) /\ (Trusted(x) <=> Trusted(z))
    BY StartedQuiet
  <2>4. s = Started(z) /\ t = z.ctail.cluster_number
    OBVIOUS
  <2> HIDE DEF x, s, t
  <2>5. /\ y \in States
        /\ y.ctail.cluster_number \in {t, NULL_REFERENCE}
    BY <2>1, <2>3, AllocKeeps
  <2>6. d = Depleted(z, y)
    <3>1. d = Depleted(z, soAllocCluster(Started(z).z))
      <4>1. soAllocCluster(Started(z).z) \in States
        BY <2>4, <2>5 DEF x
      <4> QED BY <1>2, <4>1, DepleteIs
    <3> QED BY <2>4, <3>1 DEF x
  <2>7. More(s) => Trusted(x) \/ y.stray = {}
    <3>1. More(s) => y.stray \subseteq d.stray
      BY <2>4, <2>5, <2>6, DepletedStray
    <3> QED BY <2>3, <3>1
  <2>8. More(s) =>
          /\ Threw(y) => Sound(y, U, Buffered(y, t, s.ref))
          /\ ~ Threw(y) => /\ Sound(y, U \cup {y.ret}, Buffered(y, t, s.ref))
                           /\ y.ret = NULL_REFERENCE \/ y.ret \notin U
    BY <2>1, <2>2, <2>3, <2>7, AllocSound
  <2> HIDE DEF y
  <2>9. More(s) /\ Threw(y) => Sound(y, U, Stored(y))
    BY <2>5, <2>8, LeaveSound
  <2>10. y.ctail.cluster_number = t \/ y.ctail.cluster_number \notin y.refs
    BY <2>5, NullIs DEF States
  <2> QED BY <2>4, <2>5, <2>6, <2>8, <2>9, <2>10, DepletedSound
<1> QED BY <1>1, <1>2

LEMMA PushKeeps ==
  ASSUME NEW d \in States, NEW cn \in OptCluster,
         NEW y, y = [Push(d, cn) EXCEPT !.cfree = @ + 1]
  PROVE  /\ y.chead = d.chead /\ y.refs = d.refs /\ y.disk = d.disk /\ y.stray = d.stray
         /\ y.ctail.ref = [d.ctail.ref EXCEPT ![d.ctail.in] = cn]
         /\ y.ctail.cluster_number = d.ctail.cluster_number /\ y.crefs = d.crefs
<1> DEFINE p == Push(d, cn)
<1>1. /\ p \in States /\ p.chead = d.chead /\ p.refs = d.refs /\ p.disk = d.disk
      /\ p.stray = d.stray /\ p.ctail.ref = [d.ctail.ref EXCEPT ![d.ctail.in] = cn]
      /\ p.ctail.cluster_number = d.ctail.cluster_number /\ p.crefs = d.crefs
  BY PushType
<1>2. y = [p EXCEPT !.cfree = p.cfree + 1]
  OBVIOUS
<1> HIDE DEF p
<1>3. /\ y.chead = p.chead /\ y.refs = p.refs /\ y.disk = p.disk /\ y.stray = p.stray
      /\ y.ctail = p.ctail /\ y.crefs = p.crefs
  BY <1>1, <1>2 DEF States
<1> QED BY <1>1, <1>3

LEMMA FreeIs ==
  ASSUME NEW z \in States, z.err = "OK", z.crefs > 0 => CTotal > 1, NEW cn \in Cluster,
         NEW d, d = IF z.ctail.ref[z.ctail.in] # NULL_REFERENCE THEN soDeplete(z) ELSE z,
         NEW y, y = soFreeCluster(z, cn)
  PROVE  /\ d \in States
         /\ y = IF Threw(d) THEN d ELSE [Push(d, cn) EXCEPT !.cfree = @ + 1]
<1>1. d \in States
  <2>1. LET e == soDeplete(z) IN e \in States
    BY DepleteCounts
  <2> QED BY <2>1
<1>2. ~ (cn >= CTotal)
  BY Sizes DEF Cluster
<1>3. y = IF Threw(d) THEN d ELSE [Push(d, cn) EXCEPT !.cfree = @ + 1]
  BY <1>2 DEF soFreeCluster
<1> QED BY <1>1, <1>3

(* soFreeCluster.                                                             *)
LEMMA FreeSound ==
  ASSUME NEW z \in States, z.err = "OK", z.crefs > 0 => CTotal > 1, NEW cn \in Cluster,
         NEW U, cn \in U, Sound(z, U, Stored(z)),
         NEW y, y = soFreeCluster(z, cn), Trusted(z) \/ y.stray = {}
  PROVE  Sound(y, U \ {cn}, Stored(y))
<1> DEFINE d == IF z.ctail.ref[z.ctail.in] # NULL_REFERENCE THEN soDeplete(z) ELSE z
           K == Stored(d)
<1>1. /\ d \in States
      /\ y = IF Threw(d) THEN d ELSE [Push(d, cn) EXCEPT !.cfree = @ + 1]
  <2>1. d = IF z.ctail.ref[z.ctail.in] # NULL_REFERENCE THEN soDeplete(z) ELSE z
    OBVIOUS
  <2> HIDE DEF d
  <2> QED BY <2>1, FreeIs
<1>2. z.ctail.ref[z.ctail.in] # NULL_REFERENCE => d = soDeplete(z)
  OBVIOUS
<1>3. z.ctail.ref[z.ctail.in] = NULL_REFERENCE => d = z
  OBVIOUS
<1> HIDE DEF d
<1>4. cn \in OptCluster
  BY DEF OptCluster
<1>5. ~ Threw(d) =>
        /\ y.chead = d.chead /\ y.refs = d.refs /\ y.disk = d.disk /\ y.stray = d.stray
        /\ y.ctail.ref = [d.ctail.ref EXCEPT ![d.ctail.in] = cn]
  <2>1. d \in States /\ (~ Threw(d) => y = [Push(d, cn) EXCEPT !.cfree = @ + 1])
    BY <1>1
  <2> QED BY ONLY <1>4, <2>1, PushKeeps
<1>6. y.stray = {} => d.stray = {}
  BY <1>1, <1>5
<1>7. Sound(d, U, K)
  <2>1. CASE z.ctail.ref[z.ctail.in] # NULL_REFERENCE
    BY <1>2, <1>6, <2>1, DepleteSound
  <2>2. CASE z.ctail.ref[z.ctail.in] = NULL_REFERENCE
    BY <1>3, <2>2
  <2> QED BY <2>1, <2>2
<1>8. CASE Threw(d)
  <2> HIDE DEF K
  <2>1. y = d
    BY <1>1, <1>8
  <2>2. \A k, a, b, v : Lists(d, U \ {cn}, K, k, a, b, v) => Lists(d, U, K, k, a, b, v)
    BY DEF Lists
  <2>3. Sound(d, U \ {cn}, K)
    BY <1>7, <2>2, FewerSound
  <2> QED BY <2>1, <2>3 DEF K
<1>9. CASE ~ Threw(d)
  <2>1. Stored(y) = K
    BY <1>5, <1>9 DEF Stored
  <2> HIDE DEF K
  <2>2. Sound(y, U \ {cn}, K)
    BY <1>1, <1>5, <1>7, <1>9, PushSound
  <2> QED BY <2>1, <2>2
<1> QED BY <1>8, <1>9

-----------------------------------------------------------------------------
(* Every cluster in one place: the invariant, and its theorems                *)

Used == held \cup {Root}
Placed == Root \notin held /\ (fl.stray = {} => Sound(fl, Used, Stored(fl)))

LEMMA CallSound ==
  ASSUME NEW z \in States, NEW U, Sound(z, U, Stored(z)), NEW y, y = Call(z)
  PROVE  /\ y \in States /\ y.err = "OK" /\ y.ret = NULL_REFERENCE
         /\ y.crefs = z.crefs /\ y.stray = z.stray /\ Sound(y, U, Stored(y))
<1>1. LET v == Call(z) IN
         /\ v \in States /\ v.err = "OK" /\ v.ret = NULL_REFERENCE
         /\ v.chead = z.chead /\ v.ctail = z.ctail
         /\ v.crefs = z.crefs /\ v.disk = z.disk /\ v.refs = z.refs
         /\ v.stray = z.stray
  BY CallType
<1>2. /\ y \in States /\ y.err = "OK" /\ y.ret = NULL_REFERENCE
      /\ y.chead = z.chead /\ y.ctail = z.ctail
      /\ y.crefs = z.crefs /\ y.disk = z.disk /\ y.refs = z.refs
      /\ y.stray = z.stray
  BY <1>1
<1> DEFINE K == Stored(z)
<1>3. Stored(y) = K
  BY <1>2 DEF Stored
<1>4. Sound(z, U, K)
  OBVIOUS
<1> HIDE DEF K
<1>5. Sound(y, U, K)
  BY <1>2, <1>4, SameSound
<1> QED BY <1>2, <1>3, <1>5

(* What a client's call finds.                                                *)
LEMMA AtCall ==
  ASSUME Counted, Placed, Determined(fl), NEW z, z = Call(fl)
  PROVE  /\ z \in States /\ z.err = "OK" /\ z.ret = NULL_REFERENCE
         /\ z.crefs > 0 => CTotal > 1
         /\ Sound(z, Used, Stored(z))
<1>1. fl \in States /\ (fl.crefs > 0 => CTotal > 1)
  BY CountedRanges DEF Counted, Ranges
<1>2. Sound(fl, Used, Stored(fl))
  BY DEF Placed, Determined
<1> QED BY <1>1, <1>2, CallSound

LEMMA AllocUsed ==
  ASSUME Counted, Placed, Alloc, Trusted(Call(fl)) \/ fl'.stray = {}
  PROVE  Sound(fl', Used', Stored(fl'))
<1> DEFINE z == Call(fl)
           y == soAllocCluster(z)
           U == Used
<1>1. Determined(fl) /\ fl' = y /\ held' = (held \cup {y.ret}) \ {NULL_REFERENCE}
  BY DEF Alloc
<1>2. /\ z \in States /\ z.err = "OK" /\ z.ret = NULL_REFERENCE
      /\ z.crefs > 0 => CTotal > 1
      /\ Sound(z, U, Stored(z))
  BY <1>1, AtCall
<1>3. Trusted(z) \/ y.stray = {}
  BY <1>1
<1> HIDE DEF z
<1>4. Sound(z, U, Buffered(z, NULL_REFERENCE, Empty))
  BY <1>2, StoredIs
<1>5. /\ Threw(y) => Sound(y, U, Buffered(y, NULL_REFERENCE, Empty))
      /\ ~ Threw(y) => Sound(y, U \cup {y.ret}, Buffered(y, NULL_REFERENCE, Empty))
  <2> HIDE DEF U
  <2> QED BY <1>2, <1>3, <1>4, AllocSound
<1>6. Threw(y) => y.ret = NULL_REFERENCE
  <2>1. LET v == soAllocCluster(z) IN Threw(v) => v.ret = z.ret
    BY <1>2, AllocCounts
  <2> QED BY <1>2, <2>1
<1> DEFINE K == Stored(y)
<1>7. Buffered(y, NULL_REFERENCE, Empty) = K
  BY StoredIs
<1> HIDE DEF y, K
<1>8. \/ Sound(y, U, K) /\ y.ret = NULL_REFERENCE
      \/ Sound(y, U \cup {y.ret}, K)
  BY <1>5, <1>6, <1>7
<1>9. \A k, a, b, v : Lists(y, Used', K, k, a, b, v) => Lists(y, U \cup {y.ret}, K, k, a, b, v)
  BY <1>1 DEF Lists, Used
<1>10. y.ret = NULL_REFERENCE =>
         \A k, a, b, v : Lists(y, Used', K, k, a, b, v) => Lists(y, U, K, k, a, b, v)
  BY <1>1 DEF Lists, Used
<1>11. Sound(y, Used', K)
  BY <1>8, <1>9, <1>10, FewerSound
<1> QED BY <1>1, <1>11 DEF K

LEMMA AllocPlaced ==
  ASSUME Counted, Placed, Alloc
  PROVE  Placed' /\ (fl'.ret # NULL_REFERENCE => fl'.ret \notin Used)
<1> DEFINE z == Call(fl)
           y == soAllocCluster(z)
           U == Used
<1>1. Determined(fl) /\ fl' = y /\ held' = (held \cup {y.ret}) \ {NULL_REFERENCE}
  BY DEF Alloc
<1>2. /\ z \in States /\ z.err = "OK" /\ z.ret = NULL_REFERENCE
      /\ z.crefs > 0 => CTotal > 1
      /\ Sound(z, U, Stored(z))
  BY <1>1, AtCall
<1> HIDE DEF z
<1>3. y.ret = NULL_REFERENCE \/ y.ret \notin U
  <2> HIDE DEF U
  <2> QED BY <1>2, AllocNotUsed
<1>4. Root \notin held'
  BY <1>1, <1>3 DEF Placed, Used
<1>5. fl'.stray = {} => Sound(fl', Used', Stored(fl'))
  BY AllocUsed
<1> QED BY <1>1, <1>3, <1>4, <1>5 DEF Placed, Stored, Sound, Lists, Low

LEMMA FreeUsed ==
  ASSUME Counted, Placed, NEW cn \in held, Free(cn), Trusted(Call(fl)) \/ fl'.stray = {}
  PROVE  Sound(fl', Used', Stored(fl'))
<1> DEFINE z == Call(fl)
           y == soFreeCluster(z, cn)
           U == Used
<1>1. Determined(fl) /\ fl' = y /\ held' = held \ {cn}
  BY DEF Free
<1>2. /\ z \in States /\ z.err = "OK"
      /\ z.crefs > 0 => CTotal > 1
      /\ Sound(z, U, Stored(z))
  BY <1>1, AtCall
<1>3. cn \in Cluster /\ cn \in U /\ cn # Root
  BY DEF Counted, Ranges, Placed, Used
<1>4. Trusted(z) \/ y.stray = {}
  BY <1>1
<1> HIDE DEF z
<1>5. Sound(y, U \ {cn}, Stored(y))
  <2> HIDE DEF U
  <2> QED BY <1>2, <1>3, <1>4, FreeSound
<1>6. Used' = U \ {cn}
  BY <1>1, <1>3 DEF Used
<1> HIDE DEF y, U
<1> QED BY <1>1, <1>5, <1>6

LEMMA FreePlaced ==
  ASSUME Counted, Placed, NEW cn \in held, Free(cn)
  PROVE  Placed'
<1>1. Root \notin held'
  BY DEF Free, Placed
<1>2. fl'.stray = {} => Sound(fl', Used', Stored(fl'))
  BY FreeUsed
<1> QED BY <1>1, <1>2 DEF Placed, Stored, Sound, Lists, Low

LEMMA FreeInvalidUsed ==
  ASSUME Counted, Placed, FreeInvalid
  PROVE  Sound(fl', Used', Stored(fl')) /\ held' = held
<1> DEFINE z == Call(fl)
           y == Throw(z, "EINVAL")
           U == Used
           K == Stored(z)
<1>1. Determined(fl) /\ held' = held
  BY DEF FreeInvalid
<1>2. /\ z \in States /\ z.err = "OK"
      /\ z.crefs > 0 => CTotal > 1
      /\ Sound(z, U, K)
  BY <1>1, AtCall
<1> HIDE DEF z
<1>3. fl' = y
  <2>1. PICK cn \in {CTotal, NULL_REFERENCE} : fl' = soFreeCluster(z, cn)
    BY DEF FreeInvalid, z
  <2>2. cn >= CTotal
    BY <2>1, NullIs, Sizes
  <2> QED BY <1>2, <2>1, <2>2, FreeCounts
<1>4. y.chead = z.chead /\ y.ctail = z.ctail /\ y.disk = z.disk /\ y.refs = z.refs
  BY <1>2, ThrowType
<1>5. Stored(y) = K
  BY <1>4 DEF Stored
<1> HIDE DEF y, K
<1>6. Sound(y, U, K)
  BY <1>2, <1>4, SameSound
<1>7. Used' = U
  BY <1>1 DEF Used
<1> HIDE DEF U
<1>8. Sound(fl', Used', Stored(fl'))
  BY <1>3, <1>5, <1>6, <1>7
<1> QED BY <1>1, <1>8

LEMMA FreeInvalidPlaced ==
  ASSUME Counted, Placed, FreeInvalid
  PROVE  Placed'
<1>1. Sound(fl', Used', Stored(fl')) /\ held' = held
  BY FreeInvalidUsed
<1>2. Root \notin held'
  BY <1>1 DEF Placed
<1> QED BY <1>1, <1>2 DEF Placed, Stored, Sound, Lists, Low

(* Two reference clusters of a formatted volume list different clusters.      *)
LEMMA Apart ==
  ASSUME NEW r \in Nat, NEW i1 \in Nat, NEW i2 \in Nat, NEW j1 \in 0 .. r - 1, NEW j2 \in 0 .. r - 1,
         i1 * r + j1 = i2 * r + j2
  PROVE  i1 = i2 /\ j1 = j2
<1>1. ASSUME NEW a \in Nat, NEW b \in Nat, NEW p \in 0 .. r - 1, NEW q \in 0 .. r - 1,
             a < b, a * r + p = b * r + q
      PROVE  FALSE
  <2>1. PICK k \in Nat : b = a + 1 + k
    <3>1. b - a - 1 \in Nat /\ b = a + 1 + (b - a - 1)
      BY <1>1
    <3> QED BY <3>1
  <2>2. b * r = a * r + r + k * r /\ a * r \in Nat /\ k * r \in Nat
    BY <2>1
  <2> DEFINE x == a * r
             y == k * r
             w == b * r
  <2>3. w = x + r + y /\ x \in Nat /\ y \in Nat /\ x + p = w + q
    BY <1>1, <2>2
  <2> HIDE DEF x, y, w
  <2> QED BY <1>1, <2>3
<1>2. i1 = i2
  <2>1. ~ (i1 < i2)
    BY <1>1
  <2>2. ~ (i2 < i1)
    BY <1>1
  <2> QED BY <2>1, <2>2
<1>3. i1 * r \in Nat
  OBVIOUS
<1> DEFINE x == i1 * r
<1>4. x \in Nat /\ x + j1 = x + j2
  BY <1>2, <1>3
<1> HIDE DEF x
<1> QED BY <1>2, <1>4

LEMMA InitPlaced ==
  ASSUME Init
  PROVE  Placed
<1> DEFINE n == (CTotal - 1 + RPC - 1) \div RPC
           K == Stored(fl)
           U == Used
<1>1. n \in Nat /\ Formatted.crefs = n /\ Formatted.cfree = CTotal - 1 - n
  BY FormattedIs
<1> HIDE DEF n
<1>2. /\ fl.chead.ref = Empty /\ fl.ctail.ref = Empty /\ fl.refs = 1 .. n /\ held = {}
      /\ \A c \in Cluster : c \in 1 .. n =>
           fl.disk[c] = Layout!ReferenceCluster(CTotal, CTotal - 1 - n, RPC, c - 1)
  BY <1>1 DEF Init
<1>3. fl \in States
  BY InitCounted DEF Counted, Ranges
<1>4. ASSUME NEW a, NEW b, NEW v, Lists(fl, U, K, "refs", a, b, v)
      PROVE  /\ a \in 1 .. n /\ a - 1 \in Nat /\ b \in 0 .. (RPC - 1) - 1
             /\ v = n + 1 + (a - 1) * (RPC - 1) + b
             /\ v \in Nat /\ v > n
  <2>1. v # NULL_REFERENCE /\ a \in fl.refs /\ b \in Low(fl, a) .. RPC - 2 /\ v \in K[a][b]
    BY <1>4 DEF Lists
  <2>2. a \in 1 .. n /\ a \in Cluster /\ Low(fl, a) \in Position
    BY <1>2, <1>3, <2>1, LowType DEF States
  <2>3. b \in Position /\ b \in 0 .. RPC - 2
    BY <2>1, <2>2, Sizes DEF Position
  <2>4. v = fl.disk[a][b]
    BY <2>1, <2>2, <2>3, InContents
  <2> DEFINE i == a - 1
             k == i * (RPC - 1)
             f == CTotal - 1 - n
             listed == CTotal - f + k + b
             w == Layout!Reference(CTotal, f, RPC, i, b)
  <2>5. w = CASE listed >= CTotal -> NULL_REFERENCE
                  [] listed < CTotal /\ b # RPC - 1 -> listed
                  [] OTHER -> i + 2
    BY Zenon DEF Layout!Reference, NULL_REFERENCE, Layout!NULL_REFERENCE
  <2>6. Layout!ReferenceCluster(CTotal, f, RPC, i) = [j \in 0 .. RPC - 1 |-> Layout!Reference(CTotal, f, RPC, i, j)]
    BY DEF Layout!ReferenceCluster
  <2>7. fl.disk[a] = Layout!ReferenceCluster(CTotal, f, RPC, i)
    BY <1>2, <2>2
  <2> HIDE DEF f
  <2>8. v = w
    BY <2>3, <2>4, <2>6, <2>7 DEF Position
  <2>9. i \in Nat /\ f = CTotal - 1 - n
    BY <1>1, <2>2 DEF f
  <2> HIDE DEF i, w
  <2>10. k \in Nat
    BY <2>9, Sizes
  <2> HIDE DEF k
  <2>11. listed \in Nat /\ listed = n + 1 + k + b
    BY <1>1, <2>3, <2>9, <2>10, Sizes
  <2> HIDE DEF listed
  <2>12. v = listed /\ listed < CTotal
    <3>1. listed < CTotal
      BY <2>1, <2>5, <2>8, <2>11, Sizes
    <3>2. b # RPC - 1
      BY <2>3, Sizes
    <3>3. ~ (listed >= CTotal)
      BY <2>11, <3>1, Sizes
    <3> QED BY <2>5, <2>8, <3>1, <3>2, <3>3
  <2>13. b \in 0 .. (RPC - 1) - 1
    BY <2>3, Sizes
  <2>14. v \in Nat /\ v > n /\ v = n + 1 + k + b
    BY <1>1, <2>3, <2>10, <2>11, <2>12
  <2> QED BY <2>2, <2>9, <2>13, <2>14 DEF i, k
<1> HIDE DEF K
<1>5. ASSUME NEW k, NEW a, NEW b, NEW v, Lists(fl, U, K, k, a, b, v)
      PROVE  \/ k = "refs"
             \/ k = "use" /\ a = v /\ b = 0 /\ v = 0
             \/ k = "ref" /\ a = v /\ b = 0 /\ v \in 1 .. n
  BY <1>2, <1>5 DEF Lists, Empty, U, Used, Root
<1>6. ASSUME NEW a1, NEW b1, NEW a2, NEW b2, NEW v,
             Lists(fl, U, K, "refs", a1, b1, v), Lists(fl, U, K, "refs", a2, b2, v)
      PROVE  a1 = a2 /\ b1 = b2
  <2> DEFINE r == RPC - 1
             i1 == a1 - 1
             i2 == a2 - 1
             x1 == i1 * r
             x2 == i2 * r
  <2>1. /\ i1 \in Nat /\ i2 \in Nat /\ b1 \in 0 .. r - 1 /\ b2 \in 0 .. r - 1 /\ r \in Nat
        /\ a1 \in Nat /\ a2 \in Nat
        /\ n + 1 + x1 + b1 = n + 1 + x2 + b2
    BY <1>4, <1>6, Sizes
  <2> HIDE DEF r
  <2>2. x1 \in Nat /\ x2 \in Nat
    BY <2>1
  <2>3. x1 + b1 = x2 + b2
    <3> HIDE DEF x1, x2
    <3> QED BY <1>1, <2>1, <2>2
  <2>4. i1 = i2 /\ b1 = b2
    <3> HIDE DEF i1, i2
    <3> QED BY <2>1, <2>3, Apart
  <2> QED BY <2>1, <2>4
<1>7. ASSUME NEW k1, NEW a1, NEW b1, NEW k2, NEW a2, NEW b2, NEW v,
             Lists(fl, U, K, k1, a1, b1, v), Lists(fl, U, K, k2, a2, b2, v)
      PROVE  k1 = k2 /\ a1 = a2 /\ b1 = b2
  <2>1. CASE k1 = "refs" /\ k2 = "refs"
    BY <1>6, <1>7, <2>1
  <2>2. CASE k1 = "refs" /\ k2 # "refs"
    <3>1. v \in Nat /\ v > n
      BY <1>4, <1>7, <2>2
    <3>2. v = 0 \/ v \in 1 .. n
      BY <1>5, <1>7, <2>2
    <3> QED BY <1>1, <3>1, <3>2
  <2>3. CASE k1 # "refs" /\ k2 = "refs"
    <3>1. v \in Nat /\ v > n
      BY <1>4, <1>7, <2>3
    <3>2. v = 0 \/ v \in 1 .. n
      BY <1>5, <1>7, <2>3
    <3> QED BY <1>1, <3>1, <3>2
  <2>4. CASE k1 # "refs" /\ k2 # "refs"
    <3>1. \/ k1 = "use" /\ a1 = v /\ b1 = 0 /\ v = 0
          \/ k1 = "ref" /\ a1 = v /\ b1 = 0 /\ v \in 1 .. n
      BY <1>5, <1>7, <2>4
    <3>2. \/ k2 = "use" /\ a2 = v /\ b2 = 0 /\ v = 0
          \/ k2 = "ref" /\ a2 = v /\ b2 = 0 /\ v \in 1 .. n
      BY <1>5, <1>7, <2>4
    <3> QED BY <1>1, <3>1, <3>2
  <2> QED BY <2>1, <2>2, <2>3, <2>4
<1>8. Sound(fl, U, K)
  BY <1>7 DEF Sound
<1>9. Root \notin held
  BY <1>2
<1> QED BY <1>8, <1>9 DEF Placed, K, U

LEMMA NextPlaced ==
  ASSUME Counted, Placed, [Next]_vars
  PROVE  Placed'
<1>1. CASE Alloc
  BY <1>1, AllocPlaced
<1>2. CASE FreeInvalid
  BY <1>2, FreeInvalidPlaced
<1>3. ASSUME NEW cn \in held, Free(cn)
      PROVE  Placed'
  BY <1>3, FreePlaced
<1>4. CASE UNCHANGED vars
  <2>1. fl' = fl /\ held' = held
    BY <1>4 DEF vars
  <2>2. Placed' = (Root \notin held' /\ (fl'.stray = {} => Sound(fl', held' \cup {Root}, Stored(fl'))))
    BY DEF Placed, Used, Stored, Sound, Lists, Low
  <2> QED BY <2>1, <2>2 DEF Placed, Used
<1> QED BY <1>1, <1>2, <1>3, <1>4 DEF Next

(* Every cluster is in one place after every call that has kept to the        *)
(* reference clusters.                                                        *)
THEOREM PlacedAlways == Spec => []Placed
<1>1. Init => Placed
  BY InitPlaced
<1>2. Counted /\ Placed /\ [Next]_vars => Placed'
  BY NextPlaced
<1> QED BY <1>1, <1>2, CountedAlways, PTL DEF Spec

(* NoDoubleAlloc: soAllocCluster never answers with a cluster that somebody    *)
(* holds or with the root's, whatever the sizes, from whichever cluster the    *)
(* references have been read and however the four routines have nested.        *)
THEOREM AllocatesUnused == Spec => NoDoubleAlloc
<1>1. ASSUME Counted, Placed, Alloc
      PROVE  fl'.ret # NULL_REFERENCE => fl'.ret \notin held \cup {Root}
  BY <1>1, AllocPlaced DEF Used
<1>2. Counted /\ Placed /\ [Next]_vars =>
        [Alloc /\ fl'.ret # NULL_REFERENCE => fl'.ret \notin held \cup {Root}]_vars
  BY <1>1
<1> QED BY <1>2, CountedAlways, PlacedAlways, PTL DEF Spec, NoDoubleAlloc

(* Where a place of Listing is, as Lists has it.                              *)
LEMMA PlaceListed ==
  ASSUME fl \in States, NEW U, NEW K, K = Stored(fl), NEW q \in Listing
  PROVE  /\ ReferenceAt(q) \in Cluster
         /\ \/ q[1] = "head" /\ q = <<"head", q[2]>> /\ Lists(fl, U, K, "head", q[2], 0, ReferenceAt(q))
            \/ q[1] = "tail" /\ q = <<"tail", q[2]>> /\ Lists(fl, U, K, "tail", q[2], 0, ReferenceAt(q))
            \/ /\ q[1] = "refs" /\ q = <<"refs", q[2], q[3]>>
               /\ Lists(fl, U, K, "refs", q[2], q[3], ReferenceAt(q))
<1> DEFINE v == ReferenceAt(q)
<1>1. q \in Places /\ v # NULL_REFERENCE
  BY DEF Listing
<1>2. \/ \E c \in fl.refs : \E p \in Unused(c) .. RPC - 2 : q = <<"refs", c, p>>
      \/ \E s \in Slot : q = <<"head", s>>
      \/ \E s \in Slot : q = <<"tail", s>>
  BY <1>1 DEF Places
<1>3. ASSUME NEW s \in Slot, q = <<"head", s>>
      PROVE  v \in Cluster /\ q[1] = "head" /\ q = <<"head", q[2]>> /\ Lists(fl, U, K, "head", q[2], 0, v)
  <2>1. q[1] = "head" /\ q[2] = s
    BY <1>3
  <2>2. v = fl.chead.ref[s]
    BY <2>1 DEF ReferenceAt
  <2>3. v \in OptCluster
    <3>1. s \in Slot /\ fl \in States
      OBVIOUS
    <3> HIDE DEF v
    <3> QED BY ONLY <2>2, <3>1 DEF States, Heads, Cache
  <2> HIDE DEF v
  <2> QED BY <1>1, <1>3, <2>1, <2>2, <2>3 DEF Lists, OptCluster, v
<1>4. ASSUME NEW s \in Slot, q = <<"tail", s>>
      PROVE  v \in Cluster /\ q[1] = "tail" /\ q = <<"tail", q[2]>> /\ Lists(fl, U, K, "tail", q[2], 0, v)
  <2>1. q[1] = "tail" /\ q[2] = s
    BY <1>4
  <2>2. v = fl.ctail.ref[s]
    BY <2>1 DEF ReferenceAt
  <2>3. v \in OptCluster
    <3>1. s \in Slot /\ fl \in States
      OBVIOUS
    <3> HIDE DEF v
    <3> QED BY ONLY <2>2, <3>1 DEF States, Tails, Cache
  <2> HIDE DEF v
  <2> QED BY <1>1, <1>4, <2>1, <2>2, <2>3 DEF Lists, OptCluster, v
<1>5. ASSUME NEW c \in fl.refs, NEW p \in Unused(c) .. RPC - 2, q = <<"refs", c, p>>
      PROVE  /\ v \in Cluster /\ q[1] = "refs" /\ q = <<"refs", q[2], q[3]>>
             /\ Lists(fl, U, K, "refs", q[2], q[3], v)
  <2>1. q[1] = "refs" /\ q[2] = c /\ q[3] = p
    BY <1>5
  <2>2. v = fl.disk[c][p]
    BY <2>1 DEF ReferenceAt
  <2>3. Unused(c) = Low(fl, c) /\ Low(fl, c) \in Position
    BY LowType DEF Unused, Low
  <2>4. p \in Position /\ c \in Cluster /\ p \in Low(fl, c) .. RPC - 2
    BY <2>3, Sizes DEF Position, States
  <2>5. v \in OptCluster
    BY <2>2, <2>4 DEF States, Array
  <2>6. v \in K[c][p]
    BY <2>2, <2>4, InContents
  <2> HIDE DEF v
  <2> QED BY <1>1, <1>5, <2>1, <2>4, <2>5, <2>6 DEF Lists, OptCluster, v
<1> QED BY <1>2, <1>3, <1>4, <1>5

LEMMA SoundListing ==
  ASSUME fl \in States, Sound(fl, Used, Stored(fl))
  PROVE  /\ \A q1, q2 \in Listing : ReferenceAt(q1) = ReferenceAt(q2) => q1 = q2
         /\ Listed \subseteq Cluster
         /\ Listed \cap (held \cup fl.refs \cup {Root}) = {}
<1> DEFINE U == Used
           K == Stored(fl)
<1>0. Sound(fl, U, K) /\ K = Stored(fl)
  OBVIOUS
<1> HIDE DEF U, K
<1>1. ASSUME NEW q1 \in Listing, NEW q2 \in Listing, ReferenceAt(q1) = ReferenceAt(q2)
      PROVE  q1 = q2
  <2> DEFINE v == ReferenceAt(q1)
  <2>1. \/ q1[1] = "head" /\ q1 = <<"head", q1[2]>> /\ Lists(fl, U, K, "head", q1[2], 0, v)
        \/ q1[1] = "tail" /\ q1 = <<"tail", q1[2]>> /\ Lists(fl, U, K, "tail", q1[2], 0, v)
        \/ q1[1] = "refs" /\ q1 = <<"refs", q1[2], q1[3]>> /\ Lists(fl, U, K, "refs", q1[2], q1[3], v)
    BY <1>0, PlaceListed
  <2>2. \/ q2[1] = "head" /\ q2 = <<"head", q2[2]>> /\ Lists(fl, U, K, "head", q2[2], 0, v)
        \/ q2[1] = "tail" /\ q2 = <<"tail", q2[2]>> /\ Lists(fl, U, K, "tail", q2[2], 0, v)
        \/ q2[1] = "refs" /\ q2 = <<"refs", q2[2], q2[3]>> /\ Lists(fl, U, K, "refs", q2[2], q2[3], v)
    BY <1>0, <1>1, PlaceListed
  <2> HIDE DEF v
  <2>3. \A k1, a1, b1, k2, a2, b2 :
          Lists(fl, U, K, k1, a1, b1, v) /\ Lists(fl, U, K, k2, a2, b2, v)
            => k1 = k2 /\ a1 = a2 /\ b1 = b2
    BY <1>0 DEF Sound
  <2>4. CASE q1[1] = "head" /\ q1 = <<"head", q1[2]>> /\ Lists(fl, U, K, "head", q1[2], 0, v)
    <3>1. q2 = <<"head", q2[2]>> /\ q1[2] = q2[2]
      BY <2>2, <2>3, <2>4
    <3> QED BY <2>4, <3>1
  <2>5. CASE q1[1] = "tail" /\ q1 = <<"tail", q1[2]>> /\ Lists(fl, U, K, "tail", q1[2], 0, v)
    <3>1. q2 = <<"tail", q2[2]>> /\ q1[2] = q2[2]
      BY <2>2, <2>3, <2>5
    <3> QED BY <2>5, <3>1
  <2>6. CASE q1[1] = "refs" /\ q1 = <<"refs", q1[2], q1[3]>> /\ Lists(fl, U, K, "refs", q1[2], q1[3], v)
    <3>1. q2 = <<"refs", q2[2], q2[3]>> /\ q1[2] = q2[2] /\ q1[3] = q2[3]
      BY <2>2, <2>3, <2>6
    <3> QED BY <2>6, <3>1
  <2> QED BY <2>1, <2>4, <2>5, <2>6
<1>2. ASSUME NEW q \in Listing
      PROVE  /\ ReferenceAt(q) \in Cluster
             /\ ReferenceAt(q) \notin held \cup fl.refs \cup {Root}
  <2> DEFINE v == ReferenceAt(q)
  <2>1. /\ v \in Cluster
        /\ \/ Lists(fl, U, K, "head", q[2], 0, v)
           \/ Lists(fl, U, K, "tail", q[2], 0, v)
           \/ Lists(fl, U, K, "refs", q[2], q[3], v)
    BY <1>0, PlaceListed
  <2> HIDE DEF v
  <2>2. v \in U => Lists(fl, U, K, "use", v, 0, v)
    BY <2>1, NullIs DEF Lists
  <2>3. v \in fl.refs => Lists(fl, U, K, "ref", v, 0, v)
    BY <2>1, NullIs DEF Lists
  <2>4. v \notin U /\ v \notin fl.refs
    BY <1>0, <2>1, <2>2, <2>3 DEF Sound
  <2> QED BY <2>1, <2>4 DEF U, Used, v
<1>3. Listed \subseteq Cluster /\ Listed \cap (held \cup fl.refs \cup {Root}) = {}
  BY <1>2 DEF Listed
<1> QED BY <1>1, <1>3

LEMMA SoundApart ==
  ASSUME fl \in States, Sound(fl, Used, Stored(fl))
  PROVE  fl.refs \cap (held \cup {Root}) = {}
<1> DEFINE K == Stored(fl)
<1>1. ASSUME NEW v \in fl.refs, v \in Used
      PROVE  FALSE
  <2>1. Lists(fl, Used, K, "use", v, 0, v) /\ Lists(fl, Used, K, "ref", v, 0, v)
    BY <1>1, NullIs DEF Lists, States
  <2> HIDE DEF K
  <2>2. Sound(fl, Used, K)
    BY DEF K
  <2> QED BY <2>1, <2>2 DEF Sound
<1> QED BY <1>1 DEF Used

LEMMA ListedOnceSound ==
  ASSUME Counted, Sound(fl, Used, Stored(fl))
  PROVE  ListedOnce
<1> DEFINE f == [q \in Listing |-> ReferenceAt(q)]
<1>0. fl \in States
  BY DEF Counted, Ranges
<1>1. /\ \A q1, q2 \in Listing : ReferenceAt(q1) = ReferenceAt(q2) => q1 = q2
      /\ Listed \subseteq Cluster
  BY <1>0, SoundListing
<1>2. IsFiniteSet(Listed)
  <2>1. IsFiniteSet(Cluster)
    <3>1. 0 \in Int /\ CTotal - 1 \in Int
      BY Sizes
    <3> QED BY <3>1, FS_Interval DEF Cluster
  <2> QED BY <1>1, <2>1, FS_Subset
<1>3. f \in [Listing -> Listed]
  BY DEF Listed
<1>4. f \in Injection(Listing, Listed)
  BY <1>1, <1>3 DEF Injection, IsInjective
<1>5. f \in Surjection(Listing, Listed)
  BY <1>3 DEF Surjection, Listed
<1>6. Cardinality(Listing) = Cardinality(Listed)
  BY <1>2, <1>4, <1>5, FS_Injection
<1> QED BY <1>6, CountedTypeOK DEF ListedOnce

(* ListedOnce and the first half of KeptApart, for all sizes: no cluster is    *)
(* listed in two places, and none that is listed is in use, as long as the     *)
(* routines have not taken a cluster for a reference cluster that is not one.  *)
THEOREM ListedApart ==
  Spec => [](fl.stray = {} => ListedOnce /\ KeptApart)
<1>1. ASSUME Counted, Placed
      PROVE  fl.stray = {} => ListedOnce /\ KeptApart
  <2> SUFFICES ASSUME fl.stray = {} PROVE ListedOnce /\ KeptApart
    OBVIOUS
  <2>1. fl \in States /\ Sound(fl, Used, Stored(fl))
    BY <1>1 DEF Counted, Ranges, Placed
  <2>2. ListedOnce
    BY <1>1, <2>1, ListedOnceSound
  <2>3. Listed \cap (held \cup fl.refs \cup {Root}) = {}
    BY <2>1, SoundListing
  <2>4. fl.refs \cap (held \cup {Root}) = {}
    BY <2>1, SoundApart
  <2>5. KeptApart
    BY <2>3, <2>4 DEF KeptApart, DataUntouched
  <2> QED BY <2>2, <2>5
<1>2. Counted /\ Placed => (fl.stray = {} => ListedOnce /\ KeptApart)
  BY <1>1
<1> QED BY <1>2, CountedAlways, PlacedAlways, PTL

-----------------------------------------------------------------------------
(* The chain of reference clusters, on a volume whose clusters a uint8_t can   *)
(* number.  S are the reference clusters from the head cluster on: the links   *)
(* lead from one to another and never two to the same or back to the head.     *)
(* They end at the tail cluster, which is as many links away as crefs says,    *)
(* or the tail cluster is not among them.                                      *)
Link(z, x) == z.disk[x][RPC - 1]
Chained(z, S) ==
  LET h == z.chead.cluster_number IN
  /\ S \subseteq z.refs /\ h \in S \cup {NULL_REFERENCE}
  /\ \A x \in S : Link(z, x) \in S \cup {NULL_REFERENCE}
  /\ \A x \in S : Link(z, x) = h => h = NULL_REFERENCE
  /\ \A x1, x2 \in S : Link(z, x1) = Link(z, x2) => x1 = x2 \/ Link(z, x1) = NULL_REFERENCE
Ending(z, S, r) ==
  LET h == z.chead.cluster_number
      t == z.ctail.cluster_number IN
  /\ t \in S /\ h \in S /\ Link(z, t) = NULL_REFERENCE
  /\ r \in [S -> Nat] /\ r[t] = 0 /\ r[h] = z.crefs - 1
  /\ \A x \in S \ {t} : Link(z, x) \in S /\ r[x] = r[Link(z, x)] + 1
Beyond(z, S) ==
  LET t == z.ctail.cluster_number IN
  /\ t \notin S
  /\ z.crefs = 0 \/ t \in z.refs \cup {NULL_REFERENCE}
InOrder(z) ==
  CTotal = 1 \/ \E S : Chained(z, S) /\ (Beyond(z, S) \/ \E r : Ending(z, S, r))

\* What the chain depends on.
SameChain(x, y) ==
  /\ y.chead.cluster_number = x.chead.cluster_number
  /\ y.ctail.cluster_number = x.ctail.cluster_number
  /\ y.crefs = x.crefs /\ y.refs = x.refs
  /\ \A a \in x.refs : Link(y, a) = Link(x, a)

LEMMA SameOrder ==
  ASSUME NEW x, InOrder(x), NEW y, SameChain(x, y)
  PROVE  InOrder(y)
<1>1. CASE CTotal = 1
  BY <1>1 DEF InOrder
<1>2. CASE CTotal # 1
  <2>1. PICK S : Chained(x, S) /\ (Beyond(x, S) \/ \E r : Ending(x, S, r))
    BY <1>2 DEF InOrder
  <2>2. S \subseteq x.refs /\ \A a \in S : Link(y, a) = Link(x, a)
    BY <2>1 DEF Chained, SameChain
  <2>3. Chained(y, S)
    BY <2>1, <2>2 DEF Chained, SameChain
  <2>4. Beyond(x, S) => Beyond(y, S)
    BY DEF Beyond, SameChain
  <2>5. ASSUME NEW r, Ending(x, S, r)
        PROVE  Ending(y, S, r)
    BY <2>2, <2>5 DEF Ending, SameChain
  <2> QED BY <2>1, <2>3, <2>4, <2>5 DEF InOrder
<1> QED BY <1>1, <1>2

\* With no reference cluster to start from any number will do for the tail
\* but that of no reference cluster.
LEMMA NoHead ==
  ASSUME NEW y, y.chead.cluster_number = NULL_REFERENCE,
         y.crefs = 0 \/ y.ctail.cluster_number \in y.refs \cup {NULL_REFERENCE}
  PROVE  InOrder(y)
<1>1. Chained(y, {}) /\ Beyond(y, {})
  BY DEF Chained, Beyond
<1> QED BY <1>1 DEF InOrder

LEMMA OrderedHead ==
  ASSUME NEW z, InOrder(z), CTotal > 1
  PROVE  /\ z.chead.cluster_number \in z.refs \cup {NULL_REFERENCE}
         /\ z.crefs # 0 => z.ctail.cluster_number \in z.refs \cup {NULL_REFERENCE}
<1>1. PICK S : Chained(z, S) /\ (Beyond(z, S) \/ \E r : Ending(z, S, r))
  BY Sizes DEF InOrder
<1>2. z.chead.cluster_number \in z.refs \cup {NULL_REFERENCE} /\ S \subseteq z.refs
  BY <1>1 DEF Chained
<1>3. CASE Beyond(z, S)
  BY <1>2, <1>3 DEF Beyond
<1>4. CASE \E r : Ending(z, S, r)
  BY <1>2, <1>4 DEF Ending
<1> QED BY <1>1, <1>3, <1>4

(* The chain gets one more cluster, or none is there to give.                 *)
LEMMA ExtendOrder ==
  ASSUME NEW y, InOrder(y), CTotal > 1, y.crefs \in Nat, NULL_REFERENCE \notin y.refs,
         NEW c, c \notin y.refs,
         NEW d, d.chead.cluster_number = y.chead.cluster_number,
         d.ctail.cluster_number = c, d.crefs = y.crefs + 1,
         d.refs = (y.refs \cup {c}) \ {NULL_REFERENCE},
         \A a \in y.refs : Link(d, a) = IF a = y.ctail.cluster_number THEN c ELSE Link(y, a),
         c # NULL_REFERENCE => Link(d, c) = NULL_REFERENCE
  PROVE  InOrder(d)
<1> DEFINE t == y.ctail.cluster_number
           h == y.chead.cluster_number
<1>1. PICK S : Chained(y, S) /\ (Beyond(y, S) \/ \E r : Ending(y, S, r))
  BY Sizes DEF InOrder
<1>2. /\ S \subseteq y.refs /\ h \in S \cup {NULL_REFERENCE}
      /\ \A x \in S : Link(y, x) \in S \cup {NULL_REFERENCE}
      /\ \A x \in S : Link(y, x) = h => h = NULL_REFERENCE
      /\ \A x1, x2 \in S : Link(y, x1) = Link(y, x2) => x1 = x2 \/ Link(y, x1) = NULL_REFERENCE
  BY <1>1 DEF Chained
<1>3. CASE t \notin S
  <2>1. \A x \in S : Link(d, x) = Link(y, x)
    BY <1>2, <1>3
  <2>2. S \subseteq d.refs
    BY <1>2
  <2>3. Chained(d, S)
    BY <1>2, <2>1, <2>2 DEF Chained
  <2>4. Beyond(d, S)
    BY <1>2 DEF Beyond
  <2> QED BY <2>3, <2>4 DEF InOrder
<1>4. CASE t \in S
  <2>1. PICK r : Ending(y, S, r)
    BY <1>1, <1>4 DEF Beyond
  <2>2. /\ h \in S /\ Link(y, t) = NULL_REFERENCE
        /\ r \in [S -> Nat] /\ r[t] = 0 /\ r[h] = y.crefs - 1
        /\ \A x \in S \ {t} : Link(y, x) \in S /\ r[x] = r[Link(y, x)] + 1
    BY <2>1 DEF Ending
  <2>3. Link(d, t) = c /\ \A x \in S \ {t} : Link(d, x) = Link(y, x)
    BY <1>2, <1>4
  <2>4. CASE c = NULL_REFERENCE
    <3>1. \A x \in S : Link(d, x) = Link(y, x)
      BY <2>2, <2>3, <2>4
    <3>2. S \subseteq d.refs
      BY <1>2
    <3>3. Chained(d, S)
      BY <1>2, <3>1, <3>2 DEF Chained
    <3>4. Beyond(d, S)
      BY <1>2, <2>4 DEF Beyond
    <3> QED BY <3>3, <3>4 DEF InOrder
  <2>5. CASE c # NULL_REFERENCE
    <3> DEFINE T == S \cup {c}
               q == [x \in T |-> IF x = c THEN 0 ELSE r[x] + 1]
    <3>0. c \notin S /\ Link(d, c) = NULL_REFERENCE /\ T \subseteq d.refs /\ h # NULL_REFERENCE /\ h # c
      BY <1>2, <2>2, <2>5
    <3>1. \A x \in T : Link(d, x) \in T \cup {NULL_REFERENCE}
      BY <1>2, <2>2, <2>3, <3>0
    <3>2. \A x \in T : Link(d, x) # h
      BY <1>2, <2>2, <2>3, <3>0
    <3>3. \A x1, x2 \in T : Link(d, x1) = Link(d, x2) => x1 = x2 \/ Link(d, x1) = NULL_REFERENCE
      BY <1>2, <2>2, <2>3, <3>0
    <3>4. Chained(d, T)
      BY <2>2, <3>0, <3>1, <3>2, <3>3 DEF Chained
    <3>5. q \in [T -> Nat] /\ q[c] = 0 /\ q[h] = y.crefs
      BY <2>2, <3>0
    <3>6. \A x \in T \ {c} : Link(d, x) \in T /\ q[x] = q[Link(d, x)] + 1
      <4> SUFFICES ASSUME NEW x \in S PROVE Link(d, x) \in T /\ q[x] = q[Link(d, x)] + 1
        BY <3>0
      <4>1. CASE x = t
        BY <2>2, <2>3, <3>0, <4>1
      <4>2. CASE x # t
        <5>1. Link(d, x) = Link(y, x) /\ Link(y, x) \in S /\ r[x] = r[Link(y, x)] + 1
          BY <2>2, <2>3, <4>2
        <5>2. q[x] = r[x] + 1 /\ q[Link(y, x)] = r[Link(y, x)] + 1
          BY <3>0, <5>1
        <5> QED BY <5>1, <5>2
      <4> QED BY <4>1, <4>2
    <3>7. Ending(d, T, q)
      BY <2>2, <3>0, <3>5, <3>6 DEF Ending
    <3> QED BY <3>4, <3>7 DEF InOrder
  <2> QED BY <2>4, <2>5
<1> QED BY <1>3, <1>4

(* The head cluster leaves the chain: the next is the one it links to, or      *)
(* none.                                                                       *)
LEMMA RetireOrder ==
  ASSUME NEW d, InOrder(d), CTotal > 1, d.crefs \in Nat \ {0}, NULL_REFERENCE \notin d.refs,
         NEW c, c = d.chead.cluster_number,
         NEW y, y.ctail.cluster_number = d.ctail.cluster_number, y.crefs = d.crefs - 1,
         y.refs = d.refs \ {c},
         \A a \in y.refs : Link(y, a) = Link(d, a),
         \/ y.chead.cluster_number = NULL_REFERENCE
         \/ c \in d.refs /\ y.chead.cluster_number = Link(d, c)
  PROVE  InOrder(y)
<1> DEFINE t == d.ctail.cluster_number
           l == y.chead.cluster_number
<1>1. PICK S : Chained(d, S) /\ (Beyond(d, S) \/ \E r : Ending(d, S, r))
  BY Sizes DEF InOrder
<1>2. /\ S \subseteq d.refs /\ c \in S \cup {NULL_REFERENCE}
      /\ \A x \in S : Link(d, x) \in S \cup {NULL_REFERENCE}
      /\ \A x \in S : Link(d, x) = c => c = NULL_REFERENCE
      /\ \A x1, x2 \in S : Link(d, x1) = Link(d, x2) => x1 = x2 \/ Link(d, x1) = NULL_REFERENCE
  BY <1>1 DEF Chained
<1>3. CASE l = NULL_REFERENCE
  <2>1. CASE Beyond(d, S)
    <3>1. t \in y.refs \cup {NULL_REFERENCE}
      BY <1>2, <2>1 DEF Beyond
    <3> QED BY <1>3, <3>1, NoHead
  <2>2. ASSUME NEW r, Ending(d, S, r)
        PROVE  InOrder(y)
    <3>1. t \in S /\ c \in S /\ r[t] = 0 /\ r[c] = d.crefs - 1
      BY <2>2 DEF Ending
    <3>2. t \in y.refs \/ y.crefs = 0
      BY <1>2, <3>1
    <3> QED BY <1>3, <3>2, NoHead
  <2> QED BY <1>1, <2>1, <2>2
<1>4. CASE l # NULL_REFERENCE
  <2> DEFINE T == S \ {c}
  <2>0. c \in S /\ l = Link(d, c) /\ l \in S /\ l # c /\ c # NULL_REFERENCE
    BY <1>2, <1>4
  <2>1. T \subseteq y.refs /\ l \in T /\ \A x \in T : Link(y, x) = Link(d, x)
    BY <1>2, <2>0
  <2>2. \A x \in T : Link(y, x) \in T \cup {NULL_REFERENCE}
    BY <1>2, <2>0, <2>1
  <2>3. \A x \in T : Link(y, x) # l
    BY <1>2, <1>4, <2>0, <2>1
  <2>4. \A x1, x2 \in T : Link(y, x1) = Link(y, x2) => x1 = x2 \/ Link(y, x1) = NULL_REFERENCE
    BY <1>2, <2>1
  <2>5. Chained(y, T)
    BY <2>1, <2>2, <2>3, <2>4 DEF Chained
  <2>6. CASE Beyond(d, S)
    <3>1. Beyond(y, T)
      BY <2>0, <2>6 DEF Beyond
    <3> QED BY <2>5, <3>1 DEF InOrder
  <2>7. ASSUME NEW r, Ending(d, S, r)
        PROVE  InOrder(y)
    <3> DEFINE q == [x \in T |-> r[x]]
    <3>1. /\ t \in S /\ Link(d, t) = NULL_REFERENCE
          /\ r \in [S -> Nat] /\ r[t] = 0 /\ r[c] = d.crefs - 1
          /\ \A x \in S \ {t} : Link(d, x) \in S /\ r[x] = r[Link(d, x)] + 1
      BY <2>7 DEF Ending
    <3>2. t # c
      BY <1>4, <2>0, <3>1
    <3>3. r[c] = r[l] + 1 /\ t \in T /\ Link(y, t) = NULL_REFERENCE
      BY <2>0, <2>1, <3>1, <3>2
    <3>4. q \in [T -> Nat] /\ q[t] = 0 /\ q[l] = y.crefs - 1
      <4>1. r[l] \in Nat /\ q[l] = r[l]
        BY <2>0, <2>1, <3>1
      <4> QED BY <2>1, <3>1, <3>3, <4>1
    <3>5. \A x \in T \ {t} : Link(y, x) \in T /\ q[x] = q[Link(y, x)] + 1
      <4> SUFFICES ASSUME NEW x \in T \ {t} PROVE Link(y, x) \in T /\ q[x] = q[Link(y, x)] + 1
        OBVIOUS
      <4>1. Link(y, x) = Link(d, x) /\ Link(d, x) \in S /\ r[x] = r[Link(d, x)] + 1
        BY <2>1, <3>1
      <4>2. Link(d, x) # c
        BY <1>2, <2>0
      <4> QED BY <4>1, <4>2
    <3>6. Ending(y, T, q)
      BY <2>1, <3>3, <3>4, <3>5 DEF Ending
    <3> QED BY <2>5, <3>6 DEF InOrder
  <2> QED BY <1>1, <2>6, <2>7
<1> QED BY <1>3, <1>4


(* Numbers a uint8_t holds are read as they are; NULL_REFERENCE is read as a   *)
(* number of no cluster.                                                       *)
LEMMA LastByte ==
  ASSUME NEW w \in Nat \ {0}, NEW b \in Nat \ {0}, w % b = 0
  PROVE  (w - 1) % b = b - 1
<1> DEFINE q == w \div b
           p == (w - 1) \div b
           r == (w - 1) % b
           k == q - p
<1>1. q \in Int /\ w = b * q
  <2>1. w = b * (w \div b) + (w % b)
    OBVIOUS
  <2> QED BY <2>1
<1>2. w - 1 = b * p + r /\ r \in 0 .. b - 1 /\ p \in Int
  <2>1. w - 1 = b * ((w - 1) \div b) + ((w - 1) % b)
    OBVIOUS
  <2> QED BY <2>1
<1> HIDE DEF p, q, r
<1>3. b * (q - p) = r + 1
  <2>1. b * (q - p) = b * q - b * p
    BY <1>1, <1>2
  <2> QED BY <1>1, <1>2, <2>1
<1>4. k \in Int
  BY <1>1, <1>2
<1> HIDE DEF k
<1>5. b * k = r + 1
  BY <1>3 DEF k
<1>6. k <= 0 => b * k <= 0
  BY <1>4
<1>7. k >= 2 => b * k >= 2 * b
  BY <1>4
<1>8. k = 1
  BY <1>2, <1>4, <1>5, <1>6, <1>7
<1> QED BY <1>2, <1>5, <1>8 DEF r

LEMMA SmallNumbers ==
  ASSUME CTotal < Byte
  PROVE  /\ \A c \in Cluster : c % Byte = c
         /\ NULL_REFERENCE % Byte \notin Cluster
<1>1. \A c \in Cluster : c % Byte = c
  BY Sizes DEF Cluster
<1>2. (Word - 1) % Byte = Byte - 1
  <2>1. Word \in Nat \ {0} /\ Byte \in Nat \ {0}
    BY Sizes
  <2>2. Word % Byte = 0
    BY FreeClustersAssumption
  <2> QED BY ONLY <2>1, <2>2, LastByte
<1> QED BY <1>1, <1>2, NullIs, Sizes DEF Cluster

LEMMA SmallTrusted ==
  ASSUME CTotal < Byte, NEW z \in States, z.chead.cluster_number \in z.refs \cup {NULL_REFERENCE}
  PROVE  /\ Trusted(z)
         /\ Source(z)[RPC - 1] = IF z.chead.cluster_number \in z.refs
                                   THEN Link(z, z.chead.cluster_number) ELSE NULL_REFERENCE
<1> DEFINE c == z.chead.cluster_number
<1>1. z.refs \subseteq Cluster /\ RPC - 1 \in Position
  BY Sizes DEF States, Position
<1>2. CASE c \in z.refs
  <2>1. c % Byte = c
    BY <1>1, <1>2, SmallNumbers
  <2> QED BY <1>2, <2>1, ReadType DEF Source, Link, Trusted
<1>3. CASE c = NULL_REFERENCE
  <2>1. c % Byte \notin z.refs /\ c \notin z.refs
    BY <1>1, <1>3, SmallNumbers, NullIs
  <2>2. Read(z, c % Byte)[RPC - 1] = NULL_REFERENCE
    BY <1>1, <2>1, ReadType
  <2> QED BY <1>3, <2>1, <2>2 DEF Source, Trusted
<1> QED BY <1>2, <1>3

\* The link is left as it was read.
LEMMA FilledLink ==
  ASSUME NEW w \in Locals, NEW g, g = FillTailCluster(w)
  PROVE  /\ g \in Locals /\ g.ref[RPC - 1] = w.ref[RPC - 1]
         /\ g.z.chead = w.z.chead /\ g.z.crefs = w.z.crefs
         /\ g.z.ctail.cluster_number = w.z.ctail.cluster_number
         /\ g.z.disk = w.z.disk /\ g.z.refs = w.z.refs /\ g.z.stray = w.z.stray
<1> DEFINE n == Fill(w)
           first == w.z.ctail.cluster_idx
<1>1. /\ n \in 0 .. FCT_CACHE_SIZE /\ first \in Nat /\ first + n \in Position
      /\ g \in Locals
      /\ g.ref = [p \in Position |-> IF p \in first .. first + n - 1
                       THEN w.z.ctail.ref[At(w.index, p - first)] ELSE w.ref[p]]
      /\ g.z.chead = w.z.chead /\ g.z.crefs = w.z.crefs
      /\ g.z.ctail.cluster_number = w.z.ctail.cluster_number
      /\ g.z.disk = w.z.disk /\ g.z.refs = w.z.refs /\ g.z.stray = w.z.stray
  <2>1. LET v == FillTailCluster(w) IN
        /\ n \in 0 .. FCT_CACHE_SIZE /\ first \in Nat /\ first + n \in Position
        /\ v \in Locals
        /\ v.ref = [p \in Position |-> IF p \in first .. first + n - 1
                       THEN w.z.ctail.ref[At(w.index, p - first)] ELSE w.ref[p]]
        /\ v.z.chead = w.z.chead /\ v.z.crefs = w.z.crefs
        /\ v.z.ctail.cluster_number = w.z.ctail.cluster_number
        /\ v.z.disk = w.z.disk /\ v.z.refs = w.z.refs /\ v.z.stray = w.z.stray
    BY FillTailClusterType
  <2> HIDE DEF n, first
  <2> QED BY <2>1
<1> HIDE DEF n, first
<1>2. RPC - 1 \in Position /\ ~ (RPC - 1 \in first .. first + n - 1)
  BY <1>1, Sizes DEF Position
<1> QED BY <1>1, <1>2


(* soDeplete, given what soAllocCluster left: the chain is in order, and the   *)
(* routine touches as the tail cluster at most one that soReplenish has taken  *)
(* off the chain meanwhile.                                                    *)
LEMMA DepletedOrder ==
  ASSUME NEW z \in States, CTotal > 1, z.crefs # 0, InOrder(z), NEW y \in States,
         NEW t, t = z.ctail.cluster_number, NEW s, s = Started(z),
         More(s) => InOrder(y) /\ y.ctail.cluster_number \in {t, NULL_REFERENCE},
         More(s) /\ ~ Threw(y) => y.ret \notin y.refs,
         NEW d, d = Depleted(z, y)
  PROVE  /\ InOrder(d)
         /\ ~ More(s) => /\ SameChain(z, d)
                         /\ \A n \in d.stray : n \in z.stray \/ n = NULL_REFERENCE
         /\ More(s) => /\ \A a \in y.refs : a = t \/ Link(d, a) = Link(y, a)
                       /\ \A n \in d.stray :
                            n \in y.stray \/ n = NULL_REFERENCE \/ n \in z.refs \ y.refs
<1>0. t \in z.refs \cup {NULL_REFERENCE} /\ z.refs \subseteq Cluster
  BY OrderedHead DEF States
<1>1. /\ s \in Locals /\ s.z.chead = z.chead /\ s.z.crefs = z.crefs
      /\ s.z.ctail.cluster_number = t /\ s.z.disk = z.disk /\ s.z.refs = z.refs
      /\ s.z.stray = z.stray \cup ({t} \ z.refs)
  <2>1. LET v == Started(z) IN
        /\ v \in Locals /\ v.z.chead = z.chead /\ v.z.crefs = z.crefs
        /\ v.z.ctail.cluster_number = z.ctail.cluster_number
        /\ v.z.disk = z.disk /\ v.z.refs = z.refs
        /\ v.z.stray = z.stray \cup ({z.ctail.cluster_number} \ z.refs)
    BY StartedIs
  <2> QED BY <2>1
<1>2. t \in z.refs => s.ref[RPC - 1] = Link(z, t)
  <2> DEFINE o == Opened(z)
  <2>1. o \in Locals /\ o.ref = Read(z, t)
    BY OpenedType
  <2>2. s = FillTailCluster(o)
    BY DEF Started
  <2> HIDE DEF o
  <2>3. s.ref[RPC - 1] = o.ref[RPC - 1]
    BY <2>1, <2>2, FilledLink
  <2> QED BY <2>1, <2>3, ReadType DEF Link
<1>3. d = IF ~ More(s) THEN Finished(s)
          ELSE IF Threw(y) THEN y ELSE Finished(FillTailCluster(Extended(s, y)))
  BY DEF Depleted
<1>4. RPC - 1 \in Position /\ RPC - 1 # 0
  BY Sizes DEF Position
<1>5. CASE ~ More(s)
  <2> DEFINE f == Finished(s)
  <2>1. d = f
    BY <1>3, <1>5
  <2>2. /\ f.chead = s.z.chead /\ f.ctail.cluster_number = t /\ f.crefs = s.z.crefs
        /\ f.disk = IF t \in z.refs THEN [z.disk EXCEPT ![t] = s.ref] ELSE z.disk
        /\ f.stray = IF t \in z.refs THEN s.z.stray ELSE s.z.stray \cup {t}
        /\ f.refs = z.refs
    BY ZenonT(60), <1>1, FinishedType
  <2> HIDE DEF f
  <2>3. \A a \in z.refs : Link(d, a) = Link(z, a)
    BY <1>0, <1>2, <2>1, <2>2 DEF Link, States
  <2>4. SameChain(z, d)
    BY <1>1, <2>1, <2>2, <2>3 DEF SameChain
  <2>5. \A n \in d.stray : n \in z.stray \/ n = NULL_REFERENCE
    BY <1>0, <1>1, <2>1, <2>2
  <2> QED BY <1>5, <2>4, <2>5, SameOrder
<1>6. CASE More(s) /\ Threw(y)
  <2>1. d = y
    BY <1>3, <1>6
  <2> QED BY <1>6, <2>1
<1>7. CASE More(s) /\ ~ Threw(y)
  <2> DEFINE e == Extended(s, y)
             g == FillTailCluster(e)
             f == Finished(g)
             c == y.ret
             u == y.ctail.cluster_number
  <2>1. d = f
    BY <1>3, <1>7
  <2>2. /\ e \in Locals
        /\ e.ref = [p \in Position |-> IF p = 0 THEN y.ctail.ref[s.index] ELSE NULL_REFERENCE]
        /\ e.z.ctail.cluster_number = c
        /\ e.z.chead = y.chead /\ e.z.crefs = y.crefs + 1
        /\ e.z.disk = IF u \in y.refs
                        THEN [y.disk EXCEPT ![u] = [s.ref EXCEPT ![RPC - 1] = c]]
                        ELSE y.disk
        /\ e.z.stray = IF u \in y.refs THEN y.stray ELSE y.stray \cup {u}
        /\ e.z.refs = (y.refs \cup {c}) \ {NULL_REFERENCE}
    BY ZenonT(60), <1>1, ExtendedType
  <2> HIDE DEF e
  <2>3. /\ g \in Locals /\ g.ref[RPC - 1] = e.ref[RPC - 1]
        /\ g.z.chead = e.z.chead /\ g.z.crefs = e.z.crefs
        /\ g.z.ctail.cluster_number = e.z.ctail.cluster_number
        /\ g.z.disk = e.z.disk /\ g.z.refs = e.z.refs /\ g.z.stray = e.z.stray
    BY <2>2, FilledLink
  <2> HIDE DEF g
  <2>4. /\ f.chead = g.z.chead /\ f.ctail.cluster_number = g.z.ctail.cluster_number
        /\ f.crefs = g.z.crefs
        /\ f.disk = IF c \in g.z.refs THEN [g.z.disk EXCEPT ![c] = g.ref] ELSE g.z.disk
        /\ f.stray = IF c \in g.z.refs THEN g.z.stray ELSE g.z.stray \cup {c}
        /\ f.refs = g.z.refs
    <3> DEFINE w == g.z.ctail.cluster_number
    <3>1. /\ f.chead = g.z.chead /\ f.ctail.cluster_number = w
          /\ f.crefs = g.z.crefs
          /\ f.disk = IF w \in g.z.refs THEN [g.z.disk EXCEPT ![w] = g.ref] ELSE g.z.disk
          /\ f.stray = IF w \in g.z.refs THEN g.z.stray ELSE g.z.stray \cup {w}
          /\ f.refs = g.z.refs
      BY <2>3, FinishedType
    <3>2. w = c
      BY <2>2, <2>3
    <3> HIDE DEF c, f, w
    <3> QED BY <3>1, <3>2 DEF w
  <2> HIDE DEF f
  <2>5. /\ y.refs \subseteq Cluster /\ y.disk \in [Cluster -> Array] /\ y.crefs \in Nat
        /\ NULL_REFERENCE \notin y.refs /\ c \notin y.refs /\ c \in OptCluster
        /\ s.ref \in Array /\ u \in {t, NULL_REFERENCE}
    BY <1>1, <1>7, NullIs DEF States, Locals
  <2>6. \A a \in y.refs : Link(e.z, a) = IF a = u THEN c ELSE Link(y, a)
    BY <1>4, <2>2, <2>5 DEF Link, Array
  <2>7. /\ d.chead = y.chead /\ d.ctail.cluster_number = c /\ d.crefs = y.crefs + 1
        /\ d.refs = (y.refs \cup {c}) \ {NULL_REFERENCE}
    BY <2>1, <2>2, <2>3, <2>4
  <2>8. \A a \in y.refs : Link(d, a) = IF a = u THEN c ELSE Link(y, a)
    <3>1. \A a \in y.refs : Link(d, a) = Link(e.z, a)
      BY <2>1, <2>3, <2>4, <2>5 DEF Link
    <3> QED BY <2>6, <3>1
  <2>9. c # NULL_REFERENCE => Link(d, c) = NULL_REFERENCE
    <3>1. c # NULL_REFERENCE => c \in g.z.refs /\ c \in Cluster
      BY <2>2, <2>3, <2>5 DEF OptCluster
    <3>2. g.ref[RPC - 1] = NULL_REFERENCE
      BY <1>4, <2>2, <2>3
    <3>3. g.z.disk \in [Cluster -> Array]
      BY <2>3 DEF Locals, States
    <3> QED BY <2>1, <2>4, <3>1, <3>2, <3>3 DEF Link
  <2>10. InOrder(d)
    <3>1. InOrder(y)
      BY <1>7
    <3>2. d.chead.cluster_number = y.chead.cluster_number
      BY <2>7
    <3> HIDE DEF c
    <3> QED BY <2>5, <2>7, <2>8, <2>9, <3>1, <3>2, ExtendOrder
  <2>11. \A a \in y.refs : a = t \/ Link(d, a) = Link(y, a)
    BY <2>5, <2>8
  <2>12. \A n \in d.stray : n \in y.stray \/ n = NULL_REFERENCE \/ n \in z.refs \ y.refs
    BY <1>0, <2>1, <2>2, <2>3, <2>4, <2>5 DEF OptCluster
  <2> QED BY <1>7, <2>10, <2>11, <2>12
<1> QED BY <1>5, <1>6, <1>7


LEMMA UsedNotRefs ==
  ASSUME NEW y \in States, NEW U, NEW K, NEW c \in U, Sound(y, U, K)
  PROVE  c \notin y.refs
<1> SUFFICES ASSUME c \in y.refs PROVE FALSE
  OBVIOUS
<1>1. c # NULL_REFERENCE
  BY NullIs DEF States
<1>2. Lists(y, U, K, "use", c, 0, c) /\ Lists(y, U, K, "ref", c, 0, c)
  BY <1>1 DEF Lists
<1>3. "use" = "ref"
  BY <1>2 DEF Sound
<1> QED BY <1>3

(* soDeplete inside soReplenish.                                              *)
LEMMA InnerDepleteOrder ==
  ASSUME NEW z \in States, z.err = "OK", CTotal > 1, InOrder(z),
         NEW U, Sound(z, U, Stored(z)), NEW d, d = InnerDeplete(z)
  PROVE  /\ InOrder(d)
         /\ \A a \in z.refs : a = z.ctail.cluster_number \/ Link(d, a) = Link(z, a)
         /\ \A n \in d.stray : n \in z.stray \/ n = NULL_REFERENCE
<1>1. CASE z.crefs = 0 \/ z.ctail.ref[z.ctail.out] = NULL_REFERENCE
  <2> DEFINE y == DepleteToHeadCache(z)
  <2>1. d = IF z.ctail.ref[z.ctail.out] = NULL_REFERENCE THEN z ELSE y
    BY <1>1, EasyDepletion
  <2>2. /\ y.disk = z.disk /\ y.refs = z.refs /\ y.stray = z.stray /\ y.crefs = z.crefs
        /\ y.chead.cluster_number = z.chead.cluster_number
        /\ y.ctail.cluster_number = z.ctail.cluster_number
    BY DepleteToHeadCacheType
  <2> HIDE DEF y
  <2>3. SameChain(z, d) /\ d.stray = z.stray
    BY <2>1, <2>2 DEF SameChain, Link
  <2>4. InOrder(d)
    BY <2>3, SameOrder
  <2> QED BY <2>3, <2>4 DEF SameChain
<1>2. CASE z.crefs # 0 /\ z.ctail.ref[z.ctail.out] # NULL_REFERENCE
  <2> DEFINE s == Started(z)
             x == s.z
             t == z.ctail.cluster_number
             y == InnerAlloc(x)
  <2>1. /\ s \in Locals /\ x \in States /\ x.err = "OK" /\ x.refs = z.refs /\ x.disk = z.disk
        /\ x.crefs = z.crefs /\ x.chead = z.chead
        /\ x.ctail.cluster_number = t
        /\ x.stray = z.stray \cup ({t} \ z.refs)
    BY StartedIs DEF Locals
  <2>2. Sound(x, U, Buffered(x, t, s.ref))
    BY StartedSound
  <2>3. d = Depleted(z, y) /\ s = Started(z)
    <3>1. y \in States
      BY <2>1, InnerAllocIs
    <3> QED BY <1>2, <3>1, DepleteIs
  <2>0. t = z.ctail.cluster_number /\ t \in z.refs \cup {NULL_REFERENCE}
    BY <1>2, OrderedHead
  <2> HIDE DEF x, s, t
  <2>4. /\ y \in States
        /\ x.cfree = 0 => SameBut(x, y) /\ Threw(y)
        /\ x.cfree # 0 => Taken(x, y)
    BY <2>1, InnerAllocIs
  <2> HIDE DEF y
  <2>5. /\ y.refs = z.refs /\ y.disk = z.disk /\ y.stray = x.stray
        /\ y.crefs = z.crefs /\ y.chead.cluster_number = z.chead.cluster_number
        /\ y.ctail.cluster_number = t
    <3>1. CASE x.cfree = 0
      BY <2>1, <2>4, <3>1 DEF SameBut
    <3>2. CASE x.cfree # 0
      BY <2>1, <2>4, <3>2 DEF Taken
    <3> QED BY <3>1, <3>2
  <2>6. SameChain(z, y)
    BY <2>0, <2>5 DEF SameChain, Link
  <2>7. InOrder(y)
    BY <2>6, SameOrder
  <2>8. ~ Threw(y) => y.ret \notin y.refs
    <3> DEFINE K == Buffered(x, t, s.ref)
    <3>1. Sound(x, U, K)
      BY <2>2
    <3> HIDE DEF K
    <3>2. ~ Threw(y) => Taken(x, y)
      BY <2>4
    <3>3. ~ Threw(y) => Sound(y, U \cup {y.ret}, K)
      BY <2>1, <3>1, <3>2, TakenSound
    <3> QED BY <2>4, <3>3, UsedNotRefs
  <2>9. /\ InOrder(d)
        /\ ~ More(s) => /\ SameChain(z, d)
                        /\ \A n \in d.stray : n \in z.stray \/ n = NULL_REFERENCE
        /\ More(s) => /\ \A a \in y.refs : a = t \/ Link(d, a) = Link(y, a)
                      /\ \A n \in d.stray :
                           n \in y.stray \/ n = NULL_REFERENCE \/ n \in z.refs \ y.refs
    BY <1>2, <2>0, <2>3, <2>4, <2>5, <2>7, <2>8, DepletedOrder
  <2>10. \A a \in z.refs : Link(y, a) = Link(z, a)
    BY <2>5 DEF Link
  <2>11. \A a \in z.refs : a = t \/ Link(d, a) = Link(z, a)
    BY <2>5, <2>9, <2>10 DEF SameChain
  <2>12. \A n \in d.stray : n \in z.stray \/ n = NULL_REFERENCE
    BY <2>0, <2>1, <2>5, <2>9
  <2> QED BY <2>0, <2>9, <2>11, <2>12
<1> QED BY <1>1, <1>2

LEMMA MovedOrder ==
  ASSUME NEW z \in States, NEW m, m = Moved(z)
  PROVE  m \in States /\ m.err = z.err /\ m.ctail = z.ctail /\ SameChain(z, m)
<1>1. LET v == Moved(z) IN
      /\ v \in States /\ v.err = z.err /\ v.ctail = z.ctail /\ v.crefs = z.crefs
      /\ v.chead.cluster_number = z.chead.cluster_number
      /\ v.disk = z.disk /\ v.refs = z.refs
  BY MovedType
<1>2. /\ m \in States /\ m.err = z.err /\ m.ctail = z.ctail /\ m.crefs = z.crefs
      /\ m.chead.cluster_number = z.chead.cluster_number
      /\ m.disk = z.disk /\ m.refs = z.refs
  BY <1>1
<1> QED BY <1>2 DEF SameChain, Link

LEMMA NestedOrder ==
  ASSUME NEW z \in States, z.err = "OK", CTotal > 1, InOrder(z), Trusted(z),
         NEW U, NEW t, NEW ref,
         Sound(z, U, Buffered(z, t, ref)), Quiet(z) \/ t = NULL_REFERENCE,
         NEW m, m = Moved(z), NEW d, d = Nested(z)
  PROVE  /\ d \in States /\ d.chead.cluster_number = z.chead.cluster_number
         /\ z.refs \subseteq d.refs /\ d.crefs >= z.crefs
         /\ InOrder(d)
         /\ \A a \in z.refs : a = z.ctail.cluster_number \/ Link(d, a) = Link(z, a)
         /\ \A n \in d.stray : n \in m.stray \/ n = NULL_REFERENCE
<1>1. m \in States /\ m.err = "OK" /\ m.ctail = z.ctail /\ SameChain(z, m)
  BY MovedOrder
<1>2. /\ d \in States /\ d.chead.cluster_number = z.chead.cluster_number
      /\ z.refs \subseteq d.refs
      /\ d = m \/ d = InnerDeplete(m)
      /\ Quiet(z) => d = m
  BY NestedIs
<1>3. InOrder(m)
  BY <1>1, SameOrder
<1>4. z.crefs \in Nat /\ \A a \in z.refs : Link(m, a) = Link(z, a)
  BY <1>1 DEF States, SameChain
<1>5. CASE d = m
  <2>1. d.crefs = z.crefs
    BY <1>1, <1>5 DEF SameChain
  <2> QED BY <1>2, <1>3, <1>4, <1>5, <2>1
<1>6. CASE t = NULL_REFERENCE /\ d = InnerDeplete(m)
  <2>1. Sound(m, U, Buffered(m, t, ref))
    BY NestedSound
  <2>2. Sound(m, U, Stored(m))
    BY <1>6, <2>1, StoredIs
  <2>3. /\ InOrder(d)
        /\ \A a \in m.refs : a = m.ctail.cluster_number \/ Link(d, a) = Link(m, a)
        /\ \A n \in d.stray : n \in m.stray \/ n = NULL_REFERENCE
    BY <1>1, <1>3, <1>6, <2>2, InnerDepleteOrder
  <2>4. d.crefs >= m.crefs
    <3>1. LET v == InnerDeplete(m) IN v.crefs >= m.crefs
      BY <1>1, InnerDepleteCounts
    <3> QED BY <1>6, <3>1
  <2>5. m.refs = z.refs /\ m.crefs = z.crefs
    BY <1>1 DEF SameChain
  <2> QED BY <1>1, <1>2, <1>4, <2>3, <2>4, <2>5
<1> QED BY <1>2, <1>5, <1>6


(* soReplenish from the head cluster.                                         *)
LEMMA RefilledOrder ==
  ASSUME CTotal < Byte, CTotal > 1, NEW z \in States, z.err = "OK", z.crefs > 0, InOrder(z),
         NEW U, NEW t, NEW ref,
         Sound(z, U, Buffered(z, t, ref)), Quiet(z) \/ t = NULL_REFERENCE,
         NEW y, y = Refilled(z, Nested(z))
  PROVE  InOrder(y) /\ \A n \in y.stray : n \in z.stray \/ n \notin Cluster
<1> DEFINE c == z.chead.cluster_number
           m == Moved(z)
           d == Nested(z)
           l == Source(z)[RPC - 1]
<1>1. c \in z.refs \cup {NULL_REFERENCE} /\ z.refs \subseteq Cluster
  BY OrderedHead DEF States
<1>2. Trusted(z) /\ l = IF c \in z.refs THEN Link(z, c) ELSE NULL_REFERENCE
  BY <1>1, SmallTrusted
<1>3. RPC - 1 \in Position /\ Rest(z) \in Array /\ Rest(z)[RPC - 1] = l
  BY Sizes, RestType DEF Position
<1>4. \A n \in m.stray : n \in z.stray \/ n \notin Cluster
  <2>1. LET v == Moved(z) IN
          v.stray = z.stray \cup ({c} \ z.refs) \cup ({c % Byte} \ {c})
    BY MovedType
  <2>2. c \in Cluster => c % Byte = c
    BY SmallNumbers
  <2>3. c = NULL_REFERENCE => c \notin Cluster /\ c % Byte \notin Cluster
    BY SmallNumbers, NullIs
  <2> HIDE DEF m, c
  <2> QED BY <1>1, <2>1, <2>2, <2>3 DEF m
<1>5. SameChain(z, m) /\ m = Moved(z) /\ d = Nested(z) /\ y = Refilled(z, d)
  BY MovedOrder
<1>6. l = NULL_REFERENCE \/ (c \in z.refs /\ l = Link(z, c) /\ c # z.ctail.cluster_number)
  <2>1. ASSUME c \in z.refs, c = z.ctail.cluster_number
        PROVE  Link(z, c) = NULL_REFERENCE
    <3>1. PICK S : Chained(z, S) /\ (Beyond(z, S) \/ \E r : Ending(z, S, r))
      BY Sizes DEF InOrder
    <3>2. c \in S
      BY <1>1, <2>1, <3>1, NullIs DEF Chained
    <3> QED BY <2>1, <3>1, <3>2 DEF Beyond, Ending
  <2> QED BY <1>2, <2>1
<1> HIDE DEF m, d, l
<1>7. /\ d \in States /\ d.chead.cluster_number = c
      /\ z.refs \subseteq d.refs /\ d.crefs >= z.crefs
      /\ InOrder(d)
      /\ \A a \in z.refs : a = z.ctail.cluster_number \/ Link(d, a) = Link(z, a)
      /\ \A n \in d.stray : n \in m.stray \/ n = NULL_REFERENCE
  BY <1>2, <1>5, NestedOrder
<1>8. GaveUp(y, d) \/ WentOn(z, y, d) \/ CameToAnEnd(z, y, m) \/ Stopped(z, y, m)
  BY <1>5, RefilledIs
<1>9. c \notin d.refs => c = NULL_REFERENCE
  BY <1>1, <1>7
<1>10. NULL_REFERENCE \notin Cluster
  BY NullIs
<1>11. CASE GaveUp(y, d)
  BY <1>4, <1>7, <1>10, <1>11 DEF GaveUp
<1>12. CASE WentOn(z, y, d)
  <2>1. /\ y.chead.cluster_number = l /\ y.ctail.cluster_number = d.ctail.cluster_number
        /\ y.crefs = d.crefs - 1
        /\ y.disk = IF c \in d.refs
                THEN [d.disk EXCEPT ![c] = [Rest(z) EXCEPT ![RPC - 1] = NULL_REFERENCE]]
                ELSE d.disk
        /\ y.stray = IF c \in d.refs THEN d.stray ELSE d.stray \cup {c}
        /\ y.refs = d.refs \ {c}
    BY <1>12 DEF WentOn, l
  <2>2. /\ d.crefs \in Nat \ {0} /\ NULL_REFERENCE \notin d.refs
        /\ d.disk \in [Cluster -> Array] /\ d.refs \subseteq Cluster
    BY <1>7, <1>10 DEF States
  <2>3. \A a \in y.refs : Link(y, a) = Link(d, a)
    BY <2>1, <2>2 DEF Link
  <2>4. l = NULL_REFERENCE \/ (c \in d.refs /\ l = Link(d, c))
    BY <1>6, <1>7
  <2>5. InOrder(y)
    <3> HIDE DEF c
    <3>1. \/ y.chead.cluster_number = NULL_REFERENCE
          \/ c \in d.refs /\ y.chead.cluster_number = Link(d, c)
      BY <2>1, <2>4
    <3>2. c = d.chead.cluster_number
      BY <1>7
    <3> QED BY <1>7, <2>1, <2>2, <2>3, <3>1, <3>2, RetireOrder
  <2> QED BY <1>4, <1>7, <1>9, <1>10, <2>1, <2>5
<1>13. CASE CameToAnEnd(z, y, m)
  <2>1. /\ y.chead.cluster_number = NULL_REFERENCE
        /\ y.ctail.cluster_number = NULL_REFERENCE
        /\ y.stray = IF c \in z.refs THEN m.stray ELSE m.stray \cup {c}
    BY <1>13 DEF CameToAnEnd
  <2>2. InOrder(y)
    BY <2>1, NoHead
  <2> QED BY <1>1, <1>4, <1>10, <2>1, <2>2
<1>14. CASE Stopped(z, y, m)
  <2>1. /\ y.chead.cluster_number = c /\ y.ctail = z.ctail /\ y.crefs = z.crefs
        /\ y.disk = IF c \in z.refs THEN [z.disk EXCEPT ![c] = Rest(z)] ELSE z.disk
        /\ y.stray = IF c \in z.refs THEN m.stray ELSE m.stray \cup {c}
        /\ y.refs = z.refs
    BY <1>14 DEF Stopped
  <2>2. z.disk \in [Cluster -> Array]
    BY DEF States
  <2>3. \A a \in z.refs : Link(y, a) = Link(z, a)
    BY <1>1, <1>2, <1>3, <2>1, <2>2 DEF Link
  <2>4. SameChain(z, y)
    BY <2>1, <2>3 DEF SameChain
  <2>5. InOrder(y)
    BY <2>4, SameOrder
  <2> QED BY <1>1, <1>4, <1>10, <2>1, <2>5
<1> QED BY <1>8, <1>11, <1>12, <1>13, <1>14

LEMMA ReplenishOrder ==
  ASSUME CTotal < Byte, CTotal > 1, NEW z \in States, z.err = "OK", InOrder(z),
         z.chead.ref[z.chead.out] = NULL_REFERENCE,
         NEW U, NEW t, NEW ref,
         Sound(z, U, Buffered(z, t, ref)), Quiet(z) \/ t = NULL_REFERENCE,
         NEW y, y = soReplenish(z)
  PROVE  InOrder(y) /\ \A n \in y.stray : n \in z.stray \/ n \notin Cluster
<1> DEFINE r == Reset(z)
           d == Nested(r)
           e == ReplenishFromTailCache(r)
           K == Buffered(z, t, ref)
<1>0. z.crefs \in Nat
  BY DEF States
<1>1. /\ r \in States /\ r.err = "OK" /\ r.crefs = z.crefs /\ r.disk = z.disk
      /\ r.ctail = z.ctail /\ r.refs = z.refs /\ r.stray = z.stray
      /\ r.chead.ref = z.chead.ref /\ r.chead.cluster_number = z.chead.cluster_number
      /\ r.chead.cluster_idx = z.chead.cluster_idx
      /\ Quiet(r) <=> Quiet(z)
  BY ResetKeeps
<1>2. y = IF z.crefs = 0 THEN e ELSE Refilled(r, d)
  BY ReplenishIs
<1> HIDE DEF r
<1>3. SameChain(z, r)
  BY <1>1 DEF SameChain, Link
<1>4. InOrder(r)
  BY <1>3, SameOrder
<1>5. CASE z.crefs = 0
  <2>1. /\ e.disk = r.disk /\ e.refs = r.refs /\ e.stray = r.stray /\ e.crefs = r.crefs
        /\ e.chead.cluster_number = r.chead.cluster_number
        /\ e.ctail.cluster_number = r.ctail.cluster_number
    BY <1>1, ReplenishFromTailCacheType
  <2> HIDE DEF e
  <2>2. SameChain(r, e)
    BY <2>1 DEF SameChain, Link
  <2>3. InOrder(e)
    BY <1>4, <2>2, SameOrder
  <2> QED BY <1>1, <1>2, <1>5, <2>1, <2>3
<1>6. CASE z.crefs # 0
  <2>1. Buffered(r, t, ref) = K
    BY <1>1 DEF Buffered
  <2> HIDE DEF K
  <2>2. Sound(r, U, K)
    <3>1. Sound(z, U, K)
      BY DEF K
    <3> QED BY <1>1, <3>1, SameSound
  <2>3. Sound(r, U, Buffered(r, t, ref)) /\ (Quiet(r) \/ t = NULL_REFERENCE)
    BY <1>1, <2>1, <2>2
  <2>4. r.crefs > 0 /\ y = Refilled(r, d)
    BY <1>0, <1>1, <1>2, <1>6
  <2> QED BY <1>1, <1>4, <2>3, <2>4, RefilledOrder
<1> QED BY <1>5, <1>6

LEMMA ReadyOrder ==
  ASSUME CTotal < Byte, CTotal > 1, NEW z \in States, z.err = "OK", InOrder(z),
         NEW U, NEW t, NEW ref,
         Sound(z, U, Buffered(z, t, ref)), Quiet(z) \/ t = NULL_REFERENCE,
         NEW x, x = Ready(z)
  PROVE  InOrder(x) /\ \A n \in x.stray : n \in z.stray \/ n \notin Cluster
<1>1. CASE z.chead.out = z.chead.in /\ HeadReference(z) = NULL_REFERENCE
  <2>1. x = soReplenish(z) /\ z.chead.ref[z.chead.out] = NULL_REFERENCE
    BY <1>1 DEF Ready, HeadReference
  <2> QED BY <2>1, ReplenishOrder
<1>2. CASE ~ (z.chead.out = z.chead.in /\ HeadReference(z) = NULL_REFERENCE)
  BY <1>2 DEF Ready
<1> QED BY <1>1, <1>2

(* soAllocCluster: the chain stays in order, and no cluster but a reference    *)
(* cluster is read or written as one.                                          *)
LEMMA AllocOrder ==
  ASSUME CTotal < Byte, CTotal > 1, NEW z \in States, z.err = "OK", InOrder(z),
         NEW U, NEW t, NEW ref,
         Sound(z, U, Buffered(z, t, ref)), Quiet(z) \/ t = NULL_REFERENCE,
         NEW y, y = soAllocCluster(z)
  PROVE  InOrder(y) /\ \A n \in y.stray : n \in z.stray \/ n \notin Cluster
<1> DEFINE x == Ready(z)
<1>1. /\ y \in States
      /\ z.cfree = 0 => SameBut(z, y) /\ Threw(y)
      /\ z.cfree # 0 =>
           /\ Threw(x) => y = x
           /\ ~ Threw(x) => Taken(x, y)
  <2>1. LET v == soAllocCluster(z) IN
        /\ v \in States
        /\ z.cfree = 0 => SameBut(z, v) /\ Threw(v)
        /\ z.cfree # 0 =>
             /\ Threw(x) => v = x
             /\ ~ Threw(x) => Taken(x, v)
    BY AllocIs
  <2> HIDE DEF x
  <2> QED BY <2>1
<1>2. InOrder(x) /\ \A n \in x.stray : n \in z.stray \/ n \notin Cluster
  BY ReadyOrder
<1> HIDE DEF x
<1>3. CASE z.cfree = 0
  <2>1. SameChain(z, y) /\ y.stray = z.stray
    BY <1>1, <1>3 DEF SameBut, SameChain, Link
  <2> QED BY <2>1, SameOrder
<1>4. CASE z.cfree # 0 /\ Threw(x)
  BY <1>1, <1>2, <1>4
<1>5. CASE z.cfree # 0 /\ ~ Threw(x)
  <2>1. SameChain(x, y) /\ y.stray = x.stray
    BY <1>1, <1>5 DEF Taken, SameChain, Link
  <2>2. InOrder(y)
    BY <1>2, <2>1, SameOrder
  <2> QED BY <1>2, <2>1, <2>2
<1> QED BY <1>3, <1>4, <1>5


(* soDeplete of a full tail cache.                                            *)
LEMMA DepleteOrder ==
  ASSUME CTotal < Byte, CTotal > 1, NEW z \in States, z.err = "OK", InOrder(z),
         z.ctail.ref[z.ctail.in] # NULL_REFERENCE,
         NEW U, Sound(z, U, Stored(z)), NEW d, d = soDeplete(z)
  PROVE  /\ InOrder(d)
         /\ \A n \in d.stray : n \in z.stray \/ n \notin Cluster \/ n \in z.refs
<1>1. CASE z.crefs = 0 \/ z.ctail.ref[z.ctail.out] = NULL_REFERENCE
  <2> DEFINE y == DepleteToHeadCache(z)
  <2>1. d = IF z.ctail.ref[z.ctail.out] = NULL_REFERENCE THEN z ELSE y
    BY <1>1, EasyDepletion
  <2>2. /\ y.disk = z.disk /\ y.refs = z.refs /\ y.stray = z.stray /\ y.crefs = z.crefs
        /\ y.chead.cluster_number = z.chead.cluster_number
        /\ y.ctail.cluster_number = z.ctail.cluster_number
    BY DepleteToHeadCacheType
  <2> HIDE DEF y
  <2>3. SameChain(z, d) /\ d.stray = z.stray
    BY <2>1, <2>2 DEF SameChain, Link
  <2>4. InOrder(d)
    BY <2>3, SameOrder
  <2> QED BY <2>3, <2>4
<1>2. CASE z.crefs # 0 /\ z.ctail.ref[z.ctail.out] # NULL_REFERENCE
  <2> DEFINE s == Started(z)
             x == s.z
             t == z.ctail.cluster_number
             y == soAllocCluster(x)
  <2>1. /\ s \in Locals /\ x \in States /\ x.err = "OK" /\ x.refs = z.refs /\ x.disk = z.disk
        /\ x.crefs = z.crefs /\ x.chead = z.chead
        /\ x.ctail.cluster_number = t
        /\ x.stray = z.stray \cup ({t} \ z.refs)
    BY StartedIs DEF Locals
  <2>2. Sound(x, U, Buffered(x, t, s.ref))
    BY StartedSound
  <2>3. Quiet(x)
    BY StartedQuiet
  <2>4. s = Started(z) /\ t = z.ctail.cluster_number /\ t \in z.refs \cup {NULL_REFERENCE}
    BY <1>2, OrderedHead
  <2> HIDE DEF x, s, t
  <2>5. y \in States /\ y.ctail.cluster_number \in {t, NULL_REFERENCE}
    BY <2>1, <2>3, AllocKeeps
  <2>6. d = Depleted(z, y)
    <3>1. d = Depleted(z, soAllocCluster(Started(z).z))
      <4>1. soAllocCluster(Started(z).z) \in States
        BY <2>4, <2>5 DEF x
      <4> QED BY <1>2, <4>1, DepleteIs
    <3> QED BY <2>4, <3>1 DEF x
  <2>7. SameChain(z, x)
    BY <2>1, <2>4 DEF SameChain, Link
  <2>8. InOrder(x)
    BY <2>7, SameOrder
  <2>9. Trusted(x)
    <3>1. x.chead.cluster_number \in x.refs \cup {NULL_REFERENCE}
      BY <2>8, OrderedHead
    <3> QED BY <2>1, <3>1, SmallTrusted
  <2>10. ~ Threw(y) => y.ret \notin y.refs
    <3>1. ~ Threw(y) => Sound(y, U \cup {y.ret}, Buffered(y, t, s.ref))
      BY <2>1, <2>2, <2>3, <2>9, AllocSound
    <3> DEFINE K == Buffered(y, t, s.ref)
    <3>2. ~ Threw(y) => Sound(y, U \cup {y.ret}, K)
      BY <3>1
    <3> HIDE DEF y, K
    <3> QED BY <2>5, <3>2, UsedNotRefs
  <2>11. InOrder(y) /\ \A n \in y.stray : n \in x.stray \/ n \notin Cluster
    BY <2>1, <2>2, <2>3, <2>8, AllocOrder
  <2> HIDE DEF y
  <2>12. /\ InOrder(d)
         /\ ~ More(s) => /\ SameChain(z, d)
                         /\ \A n \in d.stray : n \in z.stray \/ n = NULL_REFERENCE
         /\ More(s) => /\ \A a \in y.refs : a = t \/ Link(d, a) = Link(y, a)
                       /\ \A n \in d.stray :
                            n \in y.stray \/ n = NULL_REFERENCE \/ n \in z.refs \ y.refs
    BY <1>2, <2>4, <2>5, <2>6, <2>10, <2>11, DepletedOrder
  <2>13. \A n \in d.stray : n \in z.stray \/ n \notin Cluster \/ n \in z.refs
    BY <2>1, <2>4, <2>11, <2>12, NullIs
  <2> QED BY <2>12, <2>13
<1> QED BY <1>1, <1>2

(* soFreeCluster.                                                             *)
LEMMA FreeOrder ==
  ASSUME CTotal < Byte, CTotal > 1, NEW z \in States, z.err = "OK", InOrder(z),
         NEW cn \in Cluster, NEW U, Sound(z, U, Stored(z)), NEW y, y = soFreeCluster(z, cn)
  PROVE  /\ InOrder(y)
         /\ \A n \in y.stray : n \in z.stray \/ n \notin Cluster \/ n \in z.refs
<1> DEFINE d == IF z.ctail.ref[z.ctail.in] # NULL_REFERENCE THEN soDeplete(z) ELSE z
<1>1. /\ d \in States
      /\ y = IF Threw(d) THEN d ELSE [Push(d, cn) EXCEPT !.cfree = @ + 1]
  <2>1. d = IF z.ctail.ref[z.ctail.in] # NULL_REFERENCE THEN soDeplete(z) ELSE z
    OBVIOUS
  <2> HIDE DEF d
  <2> QED BY <2>1, FreeIs
<1>2. /\ InOrder(d)
      /\ \A n \in d.stray : n \in z.stray \/ n \notin Cluster \/ n \in z.refs
  <2>1. CASE z.ctail.ref[z.ctail.in] # NULL_REFERENCE
    BY <2>1, DepleteOrder
  <2>2. CASE z.ctail.ref[z.ctail.in] = NULL_REFERENCE
    BY <2>2
  <2> QED BY <2>1, <2>2
<1> HIDE DEF d
<1>3. CASE Threw(d)
  <2>1. y = d
    BY <1>1, <1>3
  <2> QED BY <1>2, <2>1
<1>4. CASE ~ Threw(d)
  <2> DEFINE p == Push(d, cn)
  <2>1. /\ p \in States /\ p.chead = d.chead /\ p.refs = d.refs /\ p.disk = d.disk
        /\ p.stray = d.stray /\ p.crefs = d.crefs
        /\ p.ctail.cluster_number = d.ctail.cluster_number
    BY <1>1, PushType DEF OptCluster
  <2>2. y = [p EXCEPT !.cfree = p.cfree + 1]
    BY <1>1, <1>4
  <2> HIDE DEF p
  <2>5. /\ y.chead = d.chead /\ y.refs = d.refs /\ y.disk = d.disk /\ y.stray = d.stray
        /\ y.ctail.cluster_number = d.ctail.cluster_number /\ y.crefs = d.crefs
    BY <2>1, <2>2 DEF States
  <2>3. SameChain(d, y)
    BY <2>5 DEF SameChain, Link
  <2>4. InOrder(y)
    BY <1>2, <2>3, SameOrder
  <2> QED BY <1>2, <2>5, <2>4
<1> QED BY <1>3, <1>4


(* The chain of a formatted volume, whose last cluster is linked to only when  *)
(* it lists something.                                                         *)
LEMMA InitLink ==
  ASSUME Init, NEW n, n = Formatted.crefs, NEW a \in 1 .. n
  PROVE  /\ n \in Nat /\ n <= CTotal - 1 /\ a * (RPC - 1) \in Nat
         /\ Link(fl, a) = IF a * (RPC - 1) < CTotal - 1 - n THEN a + 1 ELSE NULL_REFERENCE
<1>1. n \in Nat /\ n <= CTotal - 1 /\ Formatted.cfree = CTotal - 1 - n
  <2> DEFINE m == (CTotal - 1 + RPC - 1) \div RPC
  <2>1. m \in Nat /\ m <= CTotal - 1 /\ Formatted.crefs = m /\ Formatted.cfree = CTotal - 1 - m
    BY FormattedIs
  <2> HIDE DEF m
  <2> QED BY <2>1
<1> DEFINE f == CTotal - 1 - n
           i == a - 1
           b == RPC - 1
           k == i * (RPC - 1)
           listed == CTotal - f + k + b
           w == Layout!Reference(CTotal, f, RPC, i, b)
<1>2. a \in Cluster /\ a \in Nat /\ i \in Nat
  BY <1>1, Sizes DEF Cluster
<1>3. fl.disk[a] = Layout!ReferenceCluster(CTotal, f, RPC, i)
  BY <1>1, <1>2 DEF Init
<1>4. Layout!ReferenceCluster(CTotal, f, RPC, i) = [j \in 0 .. RPC - 1 |-> Layout!Reference(CTotal, f, RPC, i, j)]
  BY DEF Layout!ReferenceCluster
<1>5. b \in 0 .. RPC - 1 /\ b \in Nat
  BY Sizes
<1>6. Link(fl, a) = w
  BY <1>3, <1>4, <1>5 DEF Link
<1>7. w = CASE listed >= CTotal -> NULL_REFERENCE
            [] listed < CTotal /\ b # RPC - 1 -> listed
            [] OTHER -> i + 2
  BY Zenon DEF Layout!Reference, NULL_REFERENCE, Layout!NULL_REFERENCE
<1>8. f = CTotal - 1 - n /\ f \in Int /\ k \in Nat /\ a * (RPC - 1) = k + b
  <2>1. k \in Nat
    BY <1>2, Sizes
  <2>2. a * (RPC - 1) = i * (RPC - 1) + (RPC - 1)
    BY <1>2, Sizes
  <2> QED BY <1>1, <2>1, <2>2, Sizes
<1>9. i + 2 = a + 1
  BY <1>2
<1> HIDE DEF f, k, w, i
<1>10. listed \in Int /\ listed = n + 1 + (k + b)
  BY <1>1, <1>5, <1>8, Sizes
<1> HIDE DEF listed
<1>11. listed < CTotal <=> k + b < f
  BY <1>1, <1>5, <1>8, <1>10, Sizes
<1>12. w = IF listed < CTotal THEN i + 2 ELSE NULL_REFERENCE
  <2>1. CASE listed >= CTotal
    <3>1. ~ (listed < CTotal)
      BY <1>10, <2>1, Sizes
    <3> QED BY <1>7, <2>1, <3>1
  <2>2. CASE ~ (listed >= CTotal)
    <3>1. listed < CTotal
      BY <1>10, <2>2, Sizes
    <3> QED BY <1>7, <2>2, <3>1
  <2> QED BY <2>1, <2>2
<1>13. k + b \in Nat
  BY <1>5, <1>8
<1> QED BY <1>1, <1>6, <1>8, <1>9, <1>11, <1>12, <1>13

LEMMA InitOrder ==
  ASSUME Init, CTotal > 1
  PROVE  InOrder(fl)
<1> DEFINE n == Formatted.crefs
           q == RPC - 1
           f == CTotal - 1 - n
           S == {a \in 1 .. n : a = 1 \/ (a - 1) * q < f}
           r == [a \in S |-> n - a]
<1>1. n \in Nat /\ n >= 1 /\ n <= CTotal - 1 /\ f <= n * q
      /\ Formatted.head.cluster = 1 /\ Formatted.tail.cluster = n
  <2> DEFINE m == (CTotal - 1 + RPC - 1) \div RPC
  <2>1. /\ m \in Nat /\ m <= CTotal - 1 /\ (m = 0 <=> CTotal = 1)
        /\ CTotal - 1 - m <= m * (RPC - 1)
        /\ Formatted.crefs = m /\ Formatted.head = [cluster |-> 1, idx |-> 0]
        /\ Formatted.tail.cluster = m
    BY FormattedIs
  <2> HIDE DEF m
  <2> QED BY <2>1
<1>2. /\ fl.refs = 1 .. n /\ fl.crefs = n /\ fl.chead.cluster_number = 1
      /\ fl.ctail.cluster_number = n
  BY <1>1 DEF Init
<1>3. \A a \in 1 .. n : a * q \in Nat
                        /\ Link(fl, a) = IF a * q < f THEN a + 1 ELSE NULL_REFERENCE
  BY InitLink
<1>4. q \in Nat /\ q > 0 /\ f \in Int
  BY <1>1, Sizes
<1> HIDE DEF n, q, f
<1>5. ASSUME NEW a \in 1 .. n, a * q < f
      PROVE  a + 1 \in S
  <2>1. a # n
    <3>1. f <= a * q => ~ (a * q < f)
      BY <1>3, <1>4
    <3> QED BY <1>1, <1>5, <3>1
  <2>2. a + 1 \in 1 .. n /\ (a + 1) - 1 = a
    BY <1>1, <2>1
  <2> QED BY <1>5, <2>2
<1>6. 1 \in S /\ S \subseteq fl.refs
  BY <1>1, <1>2
<1>7. \A x \in S : Link(fl, x) \in {x + 1, NULL_REFERENCE} /\ Link(fl, x) \in S \cup {NULL_REFERENCE}
  BY <1>3, <1>5
<1>8. \A x \in S : x \in Nat /\ x >= 1 /\ x <= n
  BY <1>1
<1>9. NULL_REFERENCE # 1 /\ NULL_REFERENCE \notin S
  BY <1>1, NullIs, Sizes DEF Cluster
<1>10. Chained(fl, S)
  <2> HIDE DEF S
  <2>1. \A x \in S : Link(fl, x) # 1
    BY <1>7, <1>8, <1>9
  <2>2. \A x1, x2 \in S : Link(fl, x1) = Link(fl, x2) => x1 = x2 \/ Link(fl, x1) = NULL_REFERENCE
    BY <1>7, <1>8
  <2> QED BY <1>2, <1>6, <1>7, <2>1, <2>2 DEF Chained
<1>11. CASE n \notin S
  <2> HIDE DEF S
  <2>1. Beyond(fl, S)
    BY <1>1, <1>2, <1>11 DEF Beyond
  <2> QED BY <1>10, <2>1 DEF InOrder
<1>12. CASE n \in S
  <2>1. ASSUME NEW x \in S \ {n}
        PROVE  Link(fl, x) = x + 1 /\ x + 1 \in S
    <3>1. n # 1 /\ x \in 1 .. n - 1 /\ x \in 1 .. n
      BY <1>1, <1>8, <2>1
    <3>2. (n - 1) * q < f
      BY <1>12, <3>1
    <3>3. x * q <= (n - 1) * q
      BY <1>1, <1>4, <3>1
    <3>4. (n - 1) * q \in Nat
      BY <1>1, <1>4
    <3>5. x * q < f
      BY <1>3, <1>4, <3>1, <3>2, <3>3, <3>4
    <3> QED BY <1>3, <1>5, <3>1, <3>5
  <2>2. Link(fl, n) = NULL_REFERENCE
    <3>1. n \in 1 .. n
      BY <1>1
    <3>2. ~ (n * q < f)
      BY <1>1, <1>3, <1>4, <3>1
    <3> QED BY <1>3, <3>1, <3>2
  <2> HIDE DEF S
  <2>3. r \in [S -> Nat] /\ r[n] = 0 /\ r[1] = n - 1
    BY <1>1, <1>6, <1>8, <1>12
  <2>4. \A x \in S \ {n} : r[x] = r[x + 1] + 1
    BY <1>1, <1>8, <2>1
  <2> HIDE DEF r
  <2>5. Ending(fl, S, r)
    BY <1>2, <1>6, <1>12, <2>1, <2>2, <2>3, <2>4 DEF Ending
  <2> QED BY <1>10, <2>5 DEF InOrder
<1> QED BY <1>11, <1>12


-----------------------------------------------------------------------------
(* On a volume whose clusters a uint8_t can number, no cluster in use is read  *)
(* or written as a reference cluster: the invariant, and its theorems.         *)
Kept ==
  /\ InOrder(fl)
  /\ fl.stray \cap Used = {}
  /\ Root \notin held /\ Sound(fl, Used, Stored(fl))

LEMMA KeptPlaced == Kept => Placed
BY DEF Kept, Placed

LEMMA CallOrder ==
  ASSUME fl \in States, NEW z, z = Call(fl)
  PROVE  SameChain(fl, z) /\ z.stray = fl.stray /\ z.refs = fl.refs /\ z.cfree = fl.cfree
BY DEF Call, States, SameChain, Link

LEMMA AtKeptCall ==
  ASSUME Counted, Kept, Determined(fl), NEW z, z = Call(fl)
  PROVE  /\ z \in States /\ z.err = "OK" /\ (z.crefs > 0 => CTotal > 1)
         /\ Sound(z, Used, Stored(z)) /\ InOrder(z)
         /\ z.stray = {} /\ z.refs \cap Used = {} /\ z.cfree = fl.cfree
<1>1. /\ z \in States /\ z.err = "OK" /\ (z.crefs > 0 => CTotal > 1)
      /\ Sound(z, Used, Stored(z))
  BY KeptPlaced, AtCall
<1>2. SameChain(fl, z) /\ z.stray = fl.stray /\ z.refs = fl.refs /\ z.cfree = fl.cfree
  BY CallOrder DEF Counted, Ranges
<1>3. InOrder(z)
  BY <1>2, SameOrder DEF Kept
<1>4. fl.refs \cap Used = {}
  BY SoundApart DEF Counted, Ranges, Kept, Used
<1> QED BY <1>1, <1>2, <1>3, <1>4 DEF Determined

\* With one cluster there is nothing to hand out or to free.
LEMMA OneCluster ==
  ASSUME Counted, CTotal = 1
  PROVE  fl.cfree = 0 /\ held = {}
<1>1. IsFiniteSet(held) /\ Cardinality(held) \in Nat
  BY HeldFinite DEF Counted, Ranges
<1>2. fl.cfree = 0 /\ Cardinality(held) = 0
  BY <1>1 DEF Counted, Ranges, NeverOvercounts, States
<1> QED BY <1>1, <1>2, FS_EmptySet

LEMMA AllocKept ==
  ASSUME CTotal < Byte, Counted, Kept, Alloc, Counted'
  PROVE  Kept'
<1> DEFINE z == Call(fl)
           y == soAllocCluster(z)
           U == Used
<1>1. Determined(fl) /\ fl' = y
  BY DEF Alloc
<1>2. /\ z \in States /\ z.err = "OK" /\ (z.crefs > 0 => CTotal > 1)
      /\ Sound(z, U, Stored(z)) /\ InOrder(z)
      /\ z.stray = {} /\ z.cfree = fl.cfree
  BY <1>1, AtKeptCall
<1>3. z = Call(fl) /\ U = Used
  OBVIOUS
<1> HIDE DEF z, U
<1>4. Root \notin held'
  BY KeptPlaced, AllocPlaced DEF Placed
<1>5. Used' \subseteq Cluster
  BY Sizes DEF Counted, Ranges, Used, Root, Cluster
<1>6. CASE CTotal = 1
  <2>1. SameBut(z, y)
    <3>1. z.cfree = 0
      BY <1>2, <1>6, OneCluster
    <3>2. LET v == soAllocCluster(z) IN z.cfree = 0 => SameBut(z, v)
      BY <1>2, AllocIs
    <3> QED BY <3>1, <3>2
  <2>2. fl'.stray = {}
    BY <1>1, <1>2, <2>1 DEF SameBut
  <2>3. Sound(fl', Used', Stored(fl'))
    BY <2>2, KeptPlaced, AllocUsed
  <2>4. InOrder(fl')
    BY <1>6 DEF InOrder
  <2> QED BY <1>4, <2>2, <2>3, <2>4 DEF Kept, InOrder, Chained, Beyond, Ending, Link, Stored, Sound, Lists, Low, Used
<1>7. CASE CTotal # 1
  <2>0. CTotal > 1
    BY <1>7, Sizes
  <2>1. Sound(z, U, Buffered(z, NULL_REFERENCE, Empty))
    BY <1>2, StoredIs
  <2>2. InOrder(y) /\ \A n \in y.stray : n \in z.stray \/ n \notin Cluster
    BY <1>2, <2>0, <2>1, AllocOrder
  <2>3. Trusted(z)
    <3>1. z.chead.cluster_number \in z.refs \cup {NULL_REFERENCE}
      BY <1>2, <2>0, OrderedHead
    <3> QED BY <1>2, <3>1, SmallTrusted
  <2>4. Sound(fl', Used', Stored(fl'))
    BY <1>3, <2>3, KeptPlaced, AllocUsed
  <2>5. fl'.stray \cap Used' = {}
    BY <1>1, <1>2, <1>5, <2>2
  <2>6. InOrder(fl')
    BY <1>1, <2>2
  <2> QED BY <1>4, <2>4, <2>5, <2>6 DEF Kept, InOrder, Chained, Beyond, Ending, Link, Stored, Sound, Lists, Low, Used
<1> QED BY <1>6, <1>7

LEMMA FreeKept ==
  ASSUME CTotal < Byte, Counted, Kept, NEW cn \in held, Free(cn), Counted'
  PROVE  Kept'
<1> DEFINE z == Call(fl)
           y == soFreeCluster(z, cn)
           U == Used
<1>1. Determined(fl) /\ fl' = y /\ held' = held \ {cn}
  BY DEF Free
<1>2. /\ z \in States /\ z.err = "OK" /\ (z.crefs > 0 => CTotal > 1)
      /\ Sound(z, U, Stored(z)) /\ InOrder(z)
      /\ z.stray = {} /\ z.refs \cap U = {}
  BY <1>1, AtKeptCall
<1>3. z = Call(fl) /\ U = Used
  OBVIOUS
<1> HIDE DEF z, U
<1>4. Root \notin held' /\ Used' \subseteq U
  BY <1>1, <1>3 DEF Kept, Used
<1>5. U \subseteq Cluster
  BY <1>3, Sizes DEF Counted, Ranges, Used, Root, Cluster
<1>6. CTotal > 1
  <2>1. CTotal # 1
    BY OneCluster
  <2> QED BY <2>1, Sizes
<1>7. cn \in Cluster
  BY DEF Counted, Ranges
<1>8. InOrder(y) /\ \A n \in y.stray : n \in z.stray \/ n \notin Cluster \/ n \in z.refs
  BY <1>2, <1>6, <1>7, FreeOrder
<1>9. Trusted(z)
  <2>1. z.chead.cluster_number \in z.refs \cup {NULL_REFERENCE}
    BY <1>2, <1>6, OrderedHead
  <2> QED BY <1>2, <2>1, SmallTrusted
<1>10. Sound(fl', Used', Stored(fl'))
  BY <1>3, <1>9, KeptPlaced, FreeUsed
<1>11. fl'.stray \cap Used' = {}
  BY <1>1, <1>2, <1>4, <1>5, <1>8
<1>12. InOrder(fl')
  BY <1>1, <1>8
<1> QED BY <1>4, <1>10, <1>11, <1>12 DEF Kept, InOrder, Chained, Beyond, Ending, Link, Stored, Sound, Lists, Low, Used

LEMMA FreeInvalidKept ==
  ASSUME Counted, Kept, FreeInvalid
  PROVE  Kept'
<1> DEFINE z == Call(fl)
           y == Throw(z, "EINVAL")
<1>1. Determined(fl) /\ held' = held
  BY DEF FreeInvalid
<1>2. /\ z \in States /\ z.err = "OK" /\ InOrder(z) /\ z.stray = {}
      /\ (z.crefs > 0 => CTotal > 1)
  BY <1>1, AtKeptCall
<1> HIDE DEF z
<1>3. fl' = y
  <2>1. PICK cn \in {CTotal, NULL_REFERENCE} : fl' = soFreeCluster(z, cn)
    BY DEF FreeInvalid, z
  <2>2. cn >= CTotal
    BY <2>1, NullIs, Sizes
  <2> QED BY <1>2, <2>1, <2>2, FreeCounts
<1>4. SameChain(z, y) /\ y.stray = z.stray
  BY <1>2, ThrowType DEF SameChain, Link
<1> HIDE DEF y
<1>5. InOrder(fl') /\ fl'.stray = {}
  BY <1>2, <1>3, <1>4, SameOrder
<1>6. Sound(fl', Used', Stored(fl'))
  BY KeptPlaced, FreeInvalidUsed
<1>7. Root \notin held'
  BY <1>1 DEF Kept
<1> QED BY <1>5, <1>6, <1>7 DEF Kept, InOrder, Chained, Beyond, Ending, Link, Stored, Sound, Lists, Low, Used


LEMMA InitKept ==
  ASSUME Init
  PROVE  Kept
<1>1. fl.stray = {}
  BY DEF Init
<1>2. Root \notin held /\ Sound(fl, Used, Stored(fl))
  BY <1>1, InitPlaced DEF Placed
<1>3. InOrder(fl)
  <2>1. CASE CTotal = 1
    BY <2>1 DEF InOrder
  <2>2. CASE CTotal # 1
    BY <2>2, Sizes, InitOrder
  <2> QED BY <2>1, <2>2
<1> QED BY <1>1, <1>2, <1>3 DEF Kept

LEMMA NextKept ==
  ASSUME CTotal < Byte, Counted, Kept, [Next]_vars, Counted'
  PROVE  Kept'
<1>1. CASE Alloc
  BY <1>1, AllocKept
<1>2. CASE FreeInvalid
  BY <1>2, FreeInvalidKept
<1>3. ASSUME NEW cn \in held, Free(cn)
      PROVE  Kept'
  BY <1>3, FreeKept
<1>4. CASE UNCHANGED vars
  <2>1. fl' = fl /\ held' = held
    BY <1>4 DEF vars
  <2>2. InOrder(fl') /\ fl'.stray \cap (held' \cup {Root}) = {} /\ Root \notin held'
        /\ Sound(fl', held' \cup {Root}, Stored(fl'))
    BY <2>1 DEF Kept, Used
  <2>3. Kept' = /\ InOrder(fl') /\ fl'.stray \cap (held' \cup {Root}) = {}
                /\ Root \notin held' /\ Sound(fl', held' \cup {Root}, Stored(fl'))
    BY DEF Kept, InOrder, Chained, Beyond, Ending, Link, Stored, Sound, Lists, Low, Used
  <2> QED BY <2>2, <2>3
<1> QED BY <1>1, <1>2, <1>3, <1>4 DEF Next

(* The chain stays in order and no cluster in use is taken for a reference     *)
(* cluster, whatever soReplenish and soDeplete make of each other, as long as  *)
(* a uint8_t numbers every cluster.                                            *)
THEOREM KeptAlways ==
  ASSUME CTotal < Byte
  PROVE  Spec => []Kept
<1>1. Init => Kept
  BY InitKept
<1>2. CTotal < Byte /\ Counted /\ Kept /\ [Next]_vars /\ Counted' => Kept'
  BY NextKept
<1>3. Spec => [](CTotal < Byte)
  <2>1. CTotal < Byte
    OBVIOUS
  <2> QED BY <2>1, PTL
<1> QED BY <1>1, <1>2, <1>3, CountedAlways, PTL DEF Spec

(* ListedOnce: on such a volume no cluster is listed in two places after any   *)
(* call, whether it answers or fails half way.                                 *)
THEOREM ListedOnceAlways ==
  ASSUME CTotal < Byte
  PROVE  Spec => []ListedOnce
<1>1. Counted /\ Kept => ListedOnce
  BY ListedOnceSound DEF Kept
<1> QED BY <1>1, KeptAlways, CountedAlways, PTL

(* KeptApart: on such a volume no listed cluster is in use, and no cluster of  *)
(* a file, nor the root's, is read or written as a reference cluster.          *)
THEOREM KeptApartAlways ==
  ASSUME CTotal < Byte
  PROVE  Spec => []KeptApart
<1>1. Counted /\ Kept => KeptApart
  <2> SUFFICES ASSUME Counted, Kept PROVE KeptApart
    OBVIOUS
  <2>1. fl \in States /\ Sound(fl, Used, Stored(fl))
    BY DEF Counted, Ranges, Kept
  <2>2. Listed \cap (held \cup fl.refs \cup {Root}) = {}
    BY <2>1, SoundListing
  <2>3. fl.refs \cap (held \cup {Root}) = {}
    BY <2>1, SoundApart
  <2>4. fl.stray \cap (held \cup {Root}) = {}
    BY DEF Kept, Used
  <2> QED BY <2>2, <2>3, <2>4 DEF KeptApart, DataUntouched
<1> QED BY <1>1, KeptAlways, CountedAlways, PTL

=============================================================================
