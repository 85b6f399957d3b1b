---------------------------- MODULE FreeClusters ----------------------------
(***************************************************************************)
(* The list of free clusters (freelists/alloc_cluster.cpp, free_cluster.cpp,*)
(* replenish.cpp, deplete.cpp).                                             *)
(*                                                                         *)
(* References to free clusters are in three places: the head cache of the   *)
(* superblock, from which soAllocCluster takes; a chain of reference        *)
(* clusters, of crefs clusters, from the head cluster to the tail cluster;  *)
(* and the tail cache, to which soFreeCluster adds.  soReplenish refills an *)
(* empty head cache from the head cluster, soDeplete empties a full tail    *)
(* cache into the tail cluster; with no reference clusters left each uses   *)
(* the other cache.  The four routines call each other, so each is written  *)
(* once with the routine it calls as a parameter, and tied together below.  *)
(*                                                                         *)
(* Loops are written by what they compute: how many references move and     *)
(* from where to where.  One call by a client is one step.                  *)
(***************************************************************************)
EXTENDS Integers, FiniteSets, FiniteSetsExt

CONSTANTS
  CTotal,         \* data clusters of the volume, ctotal
  FCT_CACHE_SIZE, \* references per cache (50)
  RPC,            \* references per cluster, the link included (128 * csize)
  Byte,           \* number of values of a uint8_t (256)
  Word            \* number of values of a uint32_t (2^32)

ASSUME FreeClustersAssumption ==
  /\ CTotal \in Nat \ {0}
  /\ FCT_CACHE_SIZE \in Nat \ {0, 1}
  /\ RPC \in Nat /\ RPC > FCT_CACHE_SIZE
  /\ Byte \in Nat /\ Byte > FCT_CACHE_SIZE
  /\ Word \in Nat /\ Word % Byte = 0
  /\ CTotal + 2 < Word

Layout == INSTANCE Format WITH IPB <- 1, RPB <- RPC

NULL_REFERENCE == Layout!NULL_REFERENCE
Cluster == 0 .. CTotal - 1
Root == 0
Slot == 0 .. FCT_CACHE_SIZE - 1
Position == 0 .. RPC - 1
Least(m, n) == IF m <= n THEN m ELSE n

VARIABLES
  fl,   \* the superblock's free-cluster fields and the reference clusters
  held  \* history: clusters handed out and not freed since

vars == <<fl, held>>

(***************************************************************************)
(* fl.chead, fl.ctail: the two FCTRecords; fl.disk: what was last written   *)
(* into each cluster by these routines; fl.refs, a history: the clusters    *)
(* given to the chain.  fl.ret and fl.err are what the call answers.        *)
(* fl.stray: the clusters the call reads or writes as the head or the tail  *)
(* cluster and that are not (number NULL_REFERENCE is a block of the inode  *)
(* table).  fl.deep: soReplenish was called while another one, done with    *)
(* the references of the head cluster, had not yet taken it off the chain;  *)
(* the inner call reads past their end.  What follows a call with either    *)
(* depends on data nobody wrote for it: the model ends there.               *)
(***************************************************************************)

Empty == [s \in Slot |-> NULL_REFERENCE]
Next1(s) == (s + 1) % FCT_CACHE_SIZE

\* The volume as mksofs leaves it: inode table of one block, clusters of one.
Formatted == Layout!Superblock(CTotal + 2, 1, 1)

Init ==
  /\ fl = [ cfree |-> Formatted.cfree,
            crefs |-> Formatted.crefs,
            chead |-> [ref |-> Empty, in |-> 0, out |-> 0,
                       cluster_number |-> Formatted.head.cluster,
                       cluster_idx |-> Formatted.head.idx],
            ctail |-> [ref |-> Empty, in |-> 0, out |-> 0,
                       cluster_number |-> Formatted.tail.cluster,
                       cluster_idx |-> Formatted.tail.idx],
            disk |-> [c \in Cluster |->
                        IF c \in 1 .. Formatted.crefs
                          THEN Layout!ReferenceCluster(CTotal, Formatted.cfree, RPC, c - 1)
                          ELSE [p \in Position |-> NULL_REFERENCE]],
            refs |-> 1 .. Formatted.crefs,
            ret |-> NULL_REFERENCE, err |-> "OK", stray |-> {}, deep |-> FALSE ]
  /\ held = {}

-----------------------------------------------------------------------------
(* Operations on fl *)

Throw(z, err) == [z EXCEPT !.err = err]
Threw(z) == z.err # "OK"
Stray(z, S) == [z EXCEPT !.stray = @ \cup S]
Wild(z, n) == Stray(z, {n} \ z.refs)

\* soReadCluster, soWriteCluster of a reference cluster.
Read(z, n) == IF n \in z.refs THEN z.disk[n] ELSE [p \in Position |-> NULL_REFERENCE]
Write(z, n, ref) ==
  IF n \in z.refs THEN [z EXCEPT !.disk[n] = ref] ELSE Wild(z, n)

\* How many references follow one another in a cache from slot s on.
Run(cache, s) ==
  Max({n \in 0 .. FCT_CACHE_SIZE :
         \A k \in 0 .. n - 1 : cache[(s + k) % FCT_CACHE_SIZE] # NULL_REFERENCE})

\* The k-th slot from s, and the cache without the n references from s on.
At(s, k) == (s + k) % FCT_CACHE_SIZE
WithoutKept(cache, s, n) == cache   \* a mutant: moved references stay
Without(cache, s, n) ==
  [t \in Slot |-> IF \E k \in 0 .. n - 1 : t = At(s, k) THEN NULL_REFERENCE ELSE cache[t]]

\* ref[in++] = cn in the tail cache, with the wrap.
Push(z, cn) ==
  [z EXCEPT !.ctail.ref[z.ctail.in] = cn, !.ctail.in = Next1(@)]

-----------------------------------------------------------------------------
(* soAllocCluster *)

HeadReference(z) == z.chead.ref[z.chead.out]

\* A mutant: the location is not filled with NULL_REFERENCE.
TakeKept(z) ==
  [z EXCEPT !.ret = HeadReference(z), !.chead.out = Next1(@), !.cfree = @ - 1]

Take(z) ==
  [z EXCEPT !.ret = HeadReference(z),
            !.chead.ref[z.chead.out] = NULL_REFERENCE,
            !.chead.out = Next1(@),
            !.cfree = @ - 1]

AllocCluster(z, soReplenish(_)) ==
  IF z.cfree = 0 THEN Throw(z, "ENOSPC")
  ELSE LET empty == z.chead.out = z.chead.in /\ HeadReference(z) = NULL_REFERENCE
           y == IF empty THEN soReplenish(z) ELSE z
       IN  IF Threw(y) THEN y ELSE Take(y)

-----------------------------------------------------------------------------
(* soDeplete *)

\* Free slots of the head cache from `in` up to the end.  The loop does not
\* wrap `in`: at FCT_CACHE_SIZE it reads the word after ref[], which is `in`
\* itself and not null, and stops there.
RoomInHead(z) ==
  Max({n \in 0 .. FCT_CACHE_SIZE - z.chead.in :
         \A k \in 0 .. n - 1 : z.chead.ref[z.chead.in + k] = NULL_REFERENCE})

DepleteToHeadCache(z) ==
  LET n == Least(Run(z.ctail.ref, z.ctail.out), RoomInHead(z)) IN
  [z EXCEPT
     !.chead.ref = [s \in Slot |->
        IF s \in z.chead.in .. z.chead.in + n - 1
          THEN z.ctail.ref[At(z.ctail.out, s - z.chead.in)] ELSE @[s]],
     !.chead.in = @ + n,
     !.ctail.ref = Without(@, z.ctail.out, n),
     !.ctail.out = At(@, n)]

\* w: the routine's locals, ref and index, and the state.  Moves references
\* from the tail cache to the tail cluster until one of them ends.
FillTailCluster(w) ==
  LET z == w.z
      n == Least(Run(z.ctail.ref, w.index), RPC - 1 - z.ctail.cluster_idx)
      first == z.ctail.cluster_idx
  IN  [ ref |-> [p \in Position |-> IF p \in first .. first + n - 1
                   THEN z.ctail.ref[At(w.index, p - first)] ELSE w.ref[p]],
        index |-> At(w.index, n),
        z |-> [z EXCEPT !.ctail.ref = Without(@, w.index, n),
                        !.ctail.cluster_idx = @ + n] ]

\* The tail cluster is full: the chain gets one more, with one reference.
ExtendChain(w, soAllocCluster(_)) ==
  LET y == soAllocCluster(w.z)
      c == y.ret
      linked == Write([y EXCEPT !.crefs = @ + 1], y.ctail.cluster_number,
                      [w.ref EXCEPT ![RPC - 1] = c])
  IN  IF Threw(y) THEN [w EXCEPT !.z = y]
      ELSE [ ref |-> [p \in Position |-> IF p = 0 THEN y.ctail.ref[w.index]
                                         ELSE NULL_REFERENCE],
             index |-> Next1(w.index),
             z |-> [linked EXCEPT !.ctail.cluster_number = c,
                                  !.ctail.cluster_idx = 1,
                                  !.ctail.ref[w.index] = NULL_REFERENCE,
                                  !.refs = (@ \cup {c}) \ {NULL_REFERENCE}] ]

More(w) == w.z.ctail.ref[w.index] # NULL_REFERENCE

\* One extension is enough, a cluster being longer than the cache.
DepleteToTailCluster(z, soAllocCluster(_)) ==
  LET n == z.ctail.cluster_number
      w1 == FillTailCluster([z |-> Wild(z, n), ref |-> Read(z, n), index |-> z.ctail.out])
      w2 == ExtendChain(w1, soAllocCluster)
      w3 == IF ~ More(w1) THEN w1 ELSE IF Threw(w2.z) THEN w2 ELSE FillTailCluster(w2)
  IN  IF Threw(w3.z) THEN w3.z
      ELSE [Write(w3.z, w3.z.ctail.cluster_number, w3.ref)
              EXCEPT !.ctail.out = w3.index, !.deep = @ \/ More(w3)]

Deplete(z, soAllocCluster(_)) ==
  IF z.ctail.ref[z.ctail.out] = NULL_REFERENCE THEN z
  ELSE IF z.crefs = 0 THEN DepleteToHeadCache(z)
  ELSE DepleteToTailCluster(z, soAllocCluster)

-----------------------------------------------------------------------------
(* soReplenish *)

\* A mutant: the moved references stay in the tail cache.
ReplenishFromTailCacheKept(z) ==
  LET n == Run(z.ctail.ref, z.ctail.out) IN
  [z EXCEPT
     !.chead.ref = [s \in Slot |-> IF s < n THEN z.ctail.ref[At(z.ctail.out, s)] ELSE @[s]],
     !.chead.in = n % FCT_CACHE_SIZE]

ReplenishFromTailCache(z) ==
  LET n == Run(z.ctail.ref, z.ctail.out) IN
  [z EXCEPT
     !.chead.ref = [s \in Slot |-> IF s < n THEN z.ctail.ref[At(z.ctail.out, s)] ELSE @[s]],
     !.chead.in = n % FCT_CACHE_SIZE,
     !.ctail.ref = Without(@, z.ctail.out, n),
     !.ctail.out = At(@, n)]

\* References left in the head cluster when it is the last of the chain; a
\* head numbered above the tail is taken for the end of the chain as well.
Left(z) ==
  LET h == z.chead
      t == z.ctail IN
  IF h.cluster_number > t.cluster_number THEN 0
  ELSE IF h.cluster_number < t.cluster_number THEN RPC
  ELSE IF h.cluster_idx >= t.cluster_idx THEN 0 ELSE t.cluster_idx - h.cluster_idx

\* The head cluster leaves the chain: its number goes to the tail cache, full
\* or not.
\* A mutant: crefs still counts the cluster.
RetireCounted(z) ==
  [Push(z, z.chead.cluster_number) EXCEPT
     !.cfree = @ + 1, !.refs = @ \ {z.chead.cluster_number}, !.chead.cluster_idx = 0]

Retire(z) ==
  [Push(z, z.chead.cluster_number) EXCEPT
     !.crefs = @ - 1, !.cfree = @ + 1, !.refs = @ \ {z.chead.cluster_number},
     !.chead.cluster_idx = 0]

ReplenishFromHeadCluster(z, soDeplete(_)) ==
  LET c == z.chead.cluster_number
      h == z.chead.cluster_idx
      ref0 == Read(z, c % Byte)                    \* uint8_t cluster_idx
      toLink == RPC - 1 - h
      n == Least(FCT_CACHE_SIZE, Least(toLink, Left(z)))
      ref == [p \in Position |-> IF p \in h .. h + n - 1 THEN NULL_REFERENCE ELSE ref0[p]]
      moved == [Stray(Wild(z, c), {c % Byte} \ {c}) EXCEPT
                  !.chead.ref = [s \in Slot |-> IF s < n THEN ref0[h + s] ELSE @[s]],
                  !.chead.cluster_idx = h + n]
      \* The cluster's last reference is reached: go on with the next cluster.
      room == moved.ctail.ref[moved.ctail.in] = NULL_REFERENCE
      depleted == IF room THEN soDeplete(moved) ELSE moved
      linked == [Retire(Write(depleted, c, [ref EXCEPT ![RPC - 1] = NULL_REFERENCE]))
                   EXCEPT !.chead.cluster_number = ref[RPC - 1]]
      \* No reference is left.
      ended == [Retire(Write(moved, c, ref)) EXCEPT
                  !.chead.cluster_number = NULL_REFERENCE,
                  !.ctail.cluster_number = NULL_REFERENCE,
                  !.ctail.cluster_idx = 0]
      filled == Write(moved, c, ref)
      y == IF n = toLink THEN linked
           ELSE IF n = Left(z) /\ n < FCT_CACHE_SIZE THEN ended
           ELSE filled
  IN  IF n = toLink /\ Threw(depleted) THEN depleted
      ELSE [y EXCEPT !.chead.in = n % FCT_CACHE_SIZE]

Replenish(z, soDeplete(_)) ==
  LET y == [z EXCEPT !.chead.out = 0] IN
  IF HeadReference(z) # NULL_REFERENCE THEN z
  ELSE IF z.crefs = 0 THEN ReplenishFromTailCache(y)
  ELSE ReplenishFromHeadCluster(y, soDeplete)

-----------------------------------------------------------------------------
(* The calls, tied together.  soReplenish may call soDeplete, and that       *)
(* soAllocCluster; `deep` records the soReplenish this one would call.  It   *)
(* takes a head cluster full of NULL_REFERENCEs, left by a soFreeCluster that *)
(* ended with ENOSPC (the smallest volume seen to get there has 30 clusters). *)

TooDeep(z) == [z EXCEPT !.deep = TRUE]

InnerAlloc(z) == AllocCluster(z, TooDeep)
InnerDeplete(z) == Deplete(z, InnerAlloc)
soReplenish(z) == Replenish(z, InnerDeplete)
soAllocCluster(z) == AllocCluster(z, soReplenish)
soDeplete(z) == Deplete(z, soAllocCluster)

soFreeCluster(z, cn) ==
  IF cn >= CTotal THEN Throw(z, "EINVAL")
  ELSE LET y == IF z.ctail.ref[z.ctail.in] # NULL_REFERENCE THEN soDeplete(z) ELSE z IN
       IF Threw(y) THEN y ELSE [Push(y, cn) EXCEPT !.cfree = @ + 1]

Call(z) == [z EXCEPT !.ret = NULL_REFERENCE, !.err = "OK"]
Determined(z) == z.stray = {} /\ ~ z.deep

-----------------------------------------------------------------------------
Alloc ==
  /\ Determined(fl)
  /\ fl' = soAllocCluster(Call(fl))
  /\ held' = (held \cup {fl'.ret}) \ {NULL_REFERENCE}

\* Callers free only the clusters of their files.
Free(cn) ==
  /\ Determined(fl)
  /\ fl' = soFreeCluster(Call(fl), cn)
  /\ held' = held \ {cn}

FreeInvalid ==
  /\ Determined(fl)
  /\ \E cn \in {CTotal, NULL_REFERENCE} : fl' = soFreeCluster(Call(fl), cn)
  /\ UNCHANGED held

Next == Alloc \/ FreeInvalid \/ \E cn \in held : Free(cn)

Spec == Init /\ [][Next]_vars

-----------------------------------------------------------------------------
(* The fields have their ranges: every index of a cache is a slot of it but  *)
(* chead.in, which soDeplete may leave at FCT_CACHE_SIZE; the cluster         *)
(* indices stay inside a reference cluster.  mksofs numbers the head cluster  *)
(* 1 even on a volume of one cluster, number 0.                              *)
OptCluster == Cluster \cup {NULL_REFERENCE}
TypeOK ==
  /\ fl.cfree \in 0 .. CTotal /\ fl.crefs \in 0 .. CTotal
  /\ fl.chead \in [ref : [Slot -> OptCluster], in : 0 .. FCT_CACHE_SIZE, out : Slot,
                   cluster_number : OptCluster \cup {1}, cluster_idx : Position]
  /\ fl.ctail \in [ref : [Slot -> OptCluster], in : Slot, out : Slot,
                   cluster_number : OptCluster \cup {1}, cluster_idx : Position]
  /\ \A c \in Cluster : fl.disk[c] \in [Position -> OptCluster]
  /\ fl.refs \subseteq Cluster /\ fl.stray \subseteq 0 .. Word - 1
  /\ fl.ret \in OptCluster /\ fl.err \in {"OK", "ENOSPC", "EINVAL"} /\ fl.deep \in BOOLEAN
  /\ held \subseteq Cluster

\* Where a free cluster can be listed, and which one is.
Unused(c) == IF c = fl.chead.cluster_number THEN fl.chead.cluster_idx ELSE 0
Places == (UNION {{<<"refs", c, p>> : p \in Unused(c) .. RPC - 2} : c \in fl.refs})
          \cup {<<"head", s>> : s \in Slot} \cup {<<"tail", s>> : s \in Slot}
ReferenceAt(q) ==
  CASE q[1] = "head" -> fl.chead.ref[q[2]]
    [] q[1] = "tail" -> fl.ctail.ref[q[2]]
    [] q[1] = "refs" -> fl.disk[q[2]][q[3]]
Listing == {q \in Places : ReferenceAt(q) # NULL_REFERENCE}
Listed == {ReferenceAt(q) : q \in Listing}

(* No cluster is listed in two places: a reference that soReplenish or        *)
(* soDeplete moves is gone from where it was, in whatever order they nest.    *)
ListedOnce == TypeOK /\ Cardinality(Listing) = Cardinality(Listed)

(* No cluster of a file is a reference cluster, and the routines read and     *)
(* write none as one.  Violated once the number of the head cluster does not  *)
(* fit in a uint8_t, with Byte = 4: replenish.cpp:21, "transfer references    *)
(* only from the head cluster".                                               *)
DataUntouched == (fl.refs \cup fl.stray) \cap (held \cup {Root}) = {}

(* No listed cluster is in use, for a file, the root or the list itself, and   *)
(* no cluster of a file is read or written as a reference cluster.             *)
KeptApart == Listed \cap (held \cup fl.refs \cup {Root}) = {} /\ DataUntouched

(* The superblock never counts as free a cluster that somebody uses: the      *)
(* ENOSPC test of soAllocCluster errs on one side only.                       *)
NeverOvercounts == fl.cfree + fl.crefs + Cardinality(held) + 1 <= CTotal

(* soAllocCluster hands out no cluster that somebody holds.                   *)
NoDoubleAlloc ==
  [][Alloc /\ fl'.ret # NULL_REFERENCE => fl'.ret \notin held \cup {Root}]_vars

(* Violated.  freelists.h:58, of soAllocCluster: "A cluster is retrieved from *)
(* the list of free clusters".  The answer is NULL_REFERENCE when the         *)
(* soReplenish before it finds no reference left in the head cluster: it      *)
(* gives up that cluster and leaves the head cache empty.                     *)
AllocGives == [][Alloc /\ fl'.err = "OK" => fl'.ret # NULL_REFERENCE]_vars

(* Violated.  replenish.cpp:100 says that the tail cache, if full, is         *)
(* depleted before the head cluster is added to it; the test says the         *)
(* opposite, and a cluster in the full cache is overwritten.                  *)
EveryClusterAccounted == Cluster = {Root} \cup held \cup Listed \cup fl.refs

(* Violated.  replenish.cpp:21, with crefs not zero: "transfer references     *)
(* only from the head cluster".  There may be none.                           *)
HeadIsReferenceCluster == fl.crefs > 0 => fl.chead.cluster_number \in fl.refs

(* Violated.  replenish.cpp:23: "after every reference is transferred, the    *)
(* previous location should be filled with NULL_REFERENCE".  A soDeplete that *)
(* has the head cluster in its buffer writes the references back.             *)
HeadClusterCleared ==
  LET c == fl.chead.cluster_number IN
  c \in fl.refs =>
    \A p \in 0 .. fl.chead.cluster_idx - 1 : fl.disk[c][p] = NULL_REFERENCE
=============================================================================
