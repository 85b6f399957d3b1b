------------------------- MODULE FileClustersProofs -------------------------
(***************************************************************************)
(* Theorems about the clusters of a file, for any number of references in   *)
(* an inode and in a cluster, and any number of clusters.                   *)
(*                                                                         *)
(* A file is seen as a tree.  Its nodes are the three fields of the inode   *)
(* that hold references, and the reference clusters somebody has written;   *)
(* a place is a node and a position in it.  soAllocFileCluster links        *)
(* clusters at places (Links), soFreeFileClusters cuts places off (Cut),    *)
(* and what that does to the tree, and to the number of places csize has    *)
(* to be, is shown once of a link and once of a cut; each routine is then   *)
(* so many links or cuts.  The loops of soFreeFileClusters end by a count   *)
(* of the clusters they have not yet come across, and keep their own        *)
(* invariants about it (Loop1, Loop2).                                      *)
(***************************************************************************)
EXTENDS FileClusters, FiniteSetTheorems, WellFoundedInduction, TLAPS

-----------------------------------------------------------------------------
(* The tree *)

\* Nodes: -1 is f.d, -2 is f.i1, -3 is f.i2, and c is reference cluster c.
Index(n) == CASE n = -1 -> 0 .. N_DIRECT - 1
              [] n = -2 -> 0 .. N_INDIRECT - 1
              [] n = -3 -> {0}
              [] OTHER  -> Position
At(z, n, p) == CASE n = -1 -> z.d[p]
                 [] n = -2 -> z.i1[p]
                 [] n = -3 -> z.i2
                 [] OTHER  -> z.disk[n][p]

Written(z, c) == z.disk[c] # Unwritten
Middle(z, c) == /\ z.i2 # NULL_CLUSTER /\ Written(z, z.i2)
                /\ \E k \in Position : z.disk[z.i2][k] = c
IsRef(z, c) == \/ \E i \in 0 .. N_INDIRECT - 1 : z.i1[i] = c
               \/ z.i2 = c
               \/ Middle(z, c)
Node(z, n) == n \in {-1, -2, -3} \/ (n \in Cluster /\ IsRef(z, n) /\ Written(z, n))
Holds(z, n, p) == Node(z, n) /\ p \in Index(n) /\ At(z, n, p) # NULL_CLUSTER

Array == {Unwritten} \cup [Position -> OptCluster]
States == [ d : [0 .. N_DIRECT - 1 -> OptCluster], i1 : [0 .. N_INDIRECT - 1 -> OptCluster],
            i2 : OptCluster, csize : Int, disk : [Cluster -> Array],
            free : SUBSET Cluster, ret : OptCluster, err : {"OK", "ENOSPC"},
            nullWritten : BOOLEAN, undefined : BOOLEAN, short : BOOLEAN ]

\* No cluster is at two places, and none that is at one is free.  A free cluster
\* holds no references, so that it is no node before it is written.
Sound(z) ==
  /\ z \in States
  /\ \A c \in z.free : ~ Written(z, c)
  /\ \A n, p : Holds(z, n, p) => At(z, n, p) \notin z.free
  /\ \A n, p, m, q :
       Holds(z, n, p) /\ Holds(z, m, q) /\ At(z, n, p) = At(z, m, q) => n = m /\ p = q

-----------------------------------------------------------------------------
(* What csize counts *)

Place == (-3 .. CTotal) \X (0 .. N_DIRECT + N_INDIRECT + RPC)
RefNode(z, n) == n \in {-2, -3} \/ n = z.i2

\* The reference cluster at the place has never been written: soAllocCluster
\* threw when its first reference was asked for.
Bare(z, n, p) == RefNode(z, n) /\ Holds(z, n, p) /\ ~ Written(z, At(z, n, p))

\* csize counts a reference cluster with its first reference, when it is written.
\* The cluster of f.i2 has no first reference for it if soAllocCluster throws
\* then, and is never counted, or when the tree below it has been freed but for
\* its reference cluster (Owed = 1 again).
Counts1(z, n, p) == Holds(z, n, p) /\ n # -3 /\ ~ Bare(z, n, p)
Counted(z) == {q \in Place : Counts1(z, q[1], q[2])}
Owed(z) == z.csize - Cardinality(Counted(z))
BareBelow(z) == z.i2 # NULL_CLUSTER /\ (Written(z, z.i2) => \E k \in Position : Bare(z, z.i2, k))
Counts(z) ==
  \/ Owed(z) = 1 /\ z.i2 # NULL_CLUSTER /\ Written(z, z.i2)
  \/ Owed(z) = 0 /\ (z.i2 = NULL_CLUSTER \/ BareBelow(z))

\* Until soAllocCluster has thrown half way.
Whole(z) == \A n, p : ~ Bare(z, n, p)
Complete(z) == \A c \in Cluster \ z.free : \E n, p : Holds(z, n, p) /\ At(z, n, p) = c

IInv ==
  /\ f \in States
  /\ TypeOK
  /\ ~ f.undefined => /\ Sound(f) /\ Counts(f)
                      /\ ~ f.short => Whole(f) /\ Complete(f)

-----------------------------------------------------------------------------
(* Arrays, and the smallest of a set *)

LEMMA Sizes ==
  /\ N_DIRECT \in Nat \ {0} /\ N_INDIRECT \in Nat \ {0} /\ RPC \in Nat \ {0}
  /\ CTotal \in Nat \ {0} /\ 0 \in Position /\ NULL_CLUSTER \notin Cluster
  BY FileClustersAssumption DEF Position, Cluster, NULL_CLUSTER

\* An array of references is not what a cluster nobody wrote holds.
LEMMA ArrayWritten ==
  ASSUME NEW a \in [Position -> OptCluster]
  PROVE  a # Unwritten
  BY Sizes DEF Unwritten, OptCluster, Cluster, NULL_CLUSTER

LEMMA NoRefsArray == NoRefs \in [Position -> OptCluster]
  BY DEF NoRefs, OptCluster

\* A set of natural numbers that is not empty has a smallest one.
LEMMA SmallestOf ==
  ASSUME NEW T \in SUBSET Nat, T # {}
  PROVE  \E m \in T : \A k \in T : m <= k
<1> DEFINE R == OpToRel(<, Nat)
<1>1. IsWellFoundedOn(R, Nat)
  BY NatLessThanWellFounded
<1>2. \A x, y \in Nat : x < y => <<x, y>> \in R
  BY DEF OpToRel
<1> HIDE DEF R
<1>3. PICK x \in T : \A y \in T : ~ (<<y, x>> \in R)
  BY <1>1, WFMin
<1>4. ASSUME NEW k \in T PROVE x <= k
  <2>1. k \in Nat /\ x \in Nat
    OBVIOUS
  <2>2. ~ (k < x)
    BY <2>1, <1>2, <1>3
  <2>3. QED
    BY <2>1, <2>2
<1>5. QED
  BY <1>4

\* The cluster soAllocCluster takes is a free one.
LEMMA MinFree ==
  ASSUME NEW z \in States, z.free # {}
  PROVE  Min(z.free) \in z.free
<1>1. z.free \in SUBSET Nat
  BY DEF States, Cluster
<1>2. PICK m \in z.free : \A k \in z.free : m <= k
  BY <1>1, SmallestOf
<1>3. QED
  BY <1>2, Zenon DEF Min

-----------------------------------------------------------------------------
(* Holding, node by node *)

LEMMA Fields ==
  ASSUME NEW z \in States
  PROVE  /\ z.d \in [0 .. N_DIRECT - 1 -> OptCluster]
         /\ z.i1 \in [0 .. N_INDIRECT - 1 -> OptCluster]
         /\ z.i2 \in OptCluster /\ z.csize \in Int /\ z.disk \in [Cluster -> Array]
         /\ z.free \in SUBSET Cluster
  BY DEF States

LEMMA ClusterType ==
  /\ \A c \in OptCluster : c # NULL_CLUSTER => c \in Cluster
  /\ \A c \in Cluster : c \in OptCluster /\ c \in Nat /\ c # NULL_CLUSTER /\ c \in -3 .. CTotal
                       /\ c \notin {-1, -2, -3}
  BY Sizes DEF OptCluster, Cluster, NULL_CLUSTER

LEMMA PlaceType ==
  /\ \A p \in 0 .. N_DIRECT - 1 : <<-1, p>> \in Place
  /\ \A p \in 0 .. N_INDIRECT - 1 : <<-2, p>> \in Place
  /\ <<-3, 0>> \in Place
  /\ \A c \in Cluster, p \in Position : <<c, p>> \in Place
  BY Sizes, ClusterType DEF Place, Position

LEMMA HoldsDirect ==
  ASSUME NEW z, NEW p
  PROVE  Holds(z, -1, p) <=> (p \in 0 .. N_DIRECT - 1 /\ z.d[p] # NULL_CLUSTER)
  BY DEF Holds, Node, Index, At

LEMMA HoldsSingle ==
  ASSUME NEW z, NEW p
  PROVE  Holds(z, -2, p) <=> (p \in 0 .. N_INDIRECT - 1 /\ z.i1[p] # NULL_CLUSTER)
  BY DEF Holds, Node, Index, At

LEMMA HoldsDouble ==
  ASSUME NEW z, NEW p
  PROVE  Holds(z, -3, p) <=> (p = 0 /\ z.i2 # NULL_CLUSTER)
  BY DEF Holds, Node, Index, At

LEMMA HoldsIn ==
  ASSUME NEW z, NEW c \in Cluster, NEW p
  PROVE  /\ Holds(z, c, p) <=> (IsRef(z, c) /\ Written(z, c) /\ p \in Position
                              /\ z.disk[c][p] # NULL_CLUSTER)
         /\ At(z, c, p) = z.disk[c][p]
  BY DEF Holds, Node, Index, At, Cluster

LEMMA AtCluster ==
  ASSUME NEW z, NEW c \in Cluster
  PROVE  \A p : At(z, c, p) = z.disk[c][p]
  BY DEF At, Cluster

LEMMA AtInode ==
  ASSUME NEW z, NEW p
  PROVE  At(z, -1, p) = z.d[p] /\ At(z, -2, p) = z.i1[p] /\ At(z, -3, p) = z.i2
  BY DEF At

LEMMA NodeType ==
  ASSUME NEW z, NEW n, NEW p, Holds(z, n, p)
  PROVE  n \in {-1, -2, -3} \/ n \in Cluster
  BY DEF Holds, Node

\* What is at a place is a cluster, and the place one of Place.
LEMMA HoldsCluster ==
  ASSUME NEW z \in States, NEW n, NEW p, Holds(z, n, p)
  PROVE  At(z, n, p) \in Cluster /\ <<n, p>> \in Place
<1>1. CASE n = -1
  <2>1. p \in 0 .. N_DIRECT - 1 /\ z.d[p] # NULL_CLUSTER
    BY <1>1, HoldsDirect
  <2>2. At(z, n, p) = z.d[p]
    BY <1>1, AtInode
  <2>3. z.d[p] \in OptCluster
    BY <2>1, Fields
  <2>4. QED
    BY <1>1, <2>1, <2>2, <2>3, PlaceType, ClusterType
<1>2. CASE n = -2
  <2>1. p \in 0 .. N_INDIRECT - 1 /\ z.i1[p] # NULL_CLUSTER
    BY <1>2, HoldsSingle
  <2>2. At(z, n, p) = z.i1[p]
    BY <1>2, AtInode
  <2>3. z.i1[p] \in OptCluster
    BY <2>1, Fields
  <2>4. QED
    BY <1>2, <2>1, <2>2, <2>3, PlaceType, ClusterType
<1>3. CASE n = -3
  BY <1>3, HoldsDouble, AtInode, PlaceType, Fields, ClusterType
<1>4. CASE n \in Cluster
  <2>1. IsRef(z, n) /\ Written(z, n) /\ p \in Position /\ z.disk[n][p] # NULL_CLUSTER
    BY <1>4, HoldsIn
  <2>2. z.disk[n] \in [Position -> OptCluster]
    BY <1>4, <2>1, Fields DEF Array, Written
  <2>3. QED
    BY <1>4, <2>1, <2>2, HoldsIn, ClusterType, PlaceType
<1>5. QED
  BY <1>1, <1>2, <1>3, <1>4, NodeType

\* A reference cluster of the file is at a place of a reference node.
LEMMA RefHeld ==
  ASSUME NEW z \in States, NEW c \in Cluster, IsRef(z, c)
  PROVE  \E n, p : Holds(z, n, p) /\ RefNode(z, n) /\ At(z, n, p) = c
<1>1. c # NULL_CLUSTER
  BY Sizes
<1>2. ASSUME NEW i \in 0 .. N_INDIRECT - 1, z.i1[i] = c
      PROVE  Holds(z, -2, i) /\ RefNode(z, -2) /\ At(z, -2, i) = c
  BY <1>1, <1>2, HoldsSingle, AtInode DEF RefNode
<1>3. ASSUME z.i2 = c
      PROVE  Holds(z, -3, 0) /\ RefNode(z, -3) /\ At(z, -3, 0) = c
  BY <1>1, <1>3, HoldsDouble, AtInode DEF RefNode
<1>4. ASSUME Middle(z, c)
      PROVE  \E k \in Position : Holds(z, z.i2, k) /\ RefNode(z, z.i2) /\ At(z, z.i2, k) = c
  <2>1. z.i2 \in Cluster
    BY <1>4 DEF Middle, States, OptCluster
  <2>2. IsRef(z, z.i2) /\ Written(z, z.i2)
    BY <1>4 DEF Middle, IsRef
  <2>3. PICK k \in Position : z.disk[z.i2][k] = c
    BY <1>4 DEF Middle
  <2>4. Holds(z, z.i2, k) /\ At(z, z.i2, k) = c
    BY <1>1, <2>1, <2>2, <2>3, HoldsIn
  <2>5. QED
    BY <2>4 DEF RefNode
<1>5. QED
  BY <1>2, <1>3, <1>4 DEF IsRef

\* The cluster at a place of a reference node is a reference cluster.
LEMMA HeldRef ==
  ASSUME NEW z \in States, NEW n, NEW p, Holds(z, n, p), RefNode(z, n)
  PROVE  IsRef(z, At(z, n, p))
<1>1. CASE n = -2
  BY <1>1, HoldsSingle, AtInode DEF IsRef
<1>2. CASE n = -3
  BY <1>2, HoldsDouble, AtInode DEF IsRef
<1>3. CASE n = z.i2
  <2>1. n \in Cluster
    BY <1>3, NodeType, Fields, ClusterType, Sizes DEF NULL_CLUSTER
  <2>2. QED
    BY <1>3, <2>1, HoldsIn, Sizes DEF IsRef, Middle
<1>4. QED
  BY <1>1, <1>2, <1>3 DEF RefNode

\* And the other way: a place with a reference cluster is of a reference node.
LEMMA RefOnly ==
  ASSUME NEW z, Sound(z), NEW n, NEW p, Holds(z, n, p), IsRef(z, At(z, n, p))
  PROVE  RefNode(z, n)
<1>1. z \in States
  BY DEF Sound
<1>2. At(z, n, p) \in Cluster
  BY <1>1, HoldsCluster
<1>3. PICK m, q : Holds(z, m, q) /\ RefNode(z, m) /\ At(z, m, q) = At(z, n, p)
  BY <1>1, <1>2, RefHeld
<1>4. n = m
  BY <1>3 DEF Sound
<1>5. QED
  BY <1>3, <1>4

\* A reference cluster is not free.
LEMMA RefNotFree ==
  ASSUME NEW z, Sound(z), NEW c \in Cluster, IsRef(z, c)
  PROVE  c \notin z.free
  BY RefHeld DEF Sound

-----------------------------------------------------------------------------
(* Linking a free cluster at a place that holds none *)

Fresh(z, n) == IF Written(z, n) THEN z.disk[n] ELSE NoRefs
Added(z, n, p, c) == [Fresh(z, n) EXCEPT ![p] = c]
Links(z, y, n, p, c) ==
  /\ y \in States
  /\ n \in {-1, -2, -3} \/ (n \in Cluster /\ IsRef(z, n))
  /\ p \in Index(n) /\ ~ Holds(z, n, p) /\ c \in z.free
  /\ y.free = z.free \ {c}
  /\ y.d = IF n = -1 THEN [z.d EXCEPT ![p] = c] ELSE z.d
  /\ y.i1 = IF n = -2 THEN [z.i1 EXCEPT ![p] = c] ELSE z.i1
  /\ y.i2 = IF n = -3 THEN c ELSE z.i2
  /\ y.disk = IF n \in Cluster THEN [z.disk EXCEPT ![n] = Added(z, n, p, c)]
              ELSE z.disk

LEMMA FreshArray ==
  ASSUME NEW z \in States, NEW n \in Cluster
  PROVE  Fresh(z, n) \in [Position -> OptCluster]
  BY Fields, NoRefsArray DEF Fresh, Written, Array

\* The node linked at is written by that; nothing else is.
LEMMA LinkWritten ==
  ASSUME NEW z, NEW y, NEW n, NEW p, NEW c, Sound(z), Links(z, y, n, p, c), NEW m \in Cluster
  PROVE  /\ Written(y, m) <=> Written(z, m) \/ m = n
         /\ m # n => y.disk[m] = z.disk[m]
         /\ m = n => y.disk[m] = Added(z, n, p, c)
<1>1. z \in States /\ y \in States /\ z.disk \in [Cluster -> Array]
  BY Fields DEF Sound, Links
<1>2. CASE n \notin Cluster
  BY <1>1, <1>2 DEF Links, Written
<1>3. CASE n \in Cluster
  <2>1. y.disk[n] = Added(z, n, p, c)
    BY <1>1, <1>3 DEF Links
  <2>2. m # n => y.disk[m] = z.disk[m]
    BY <1>1, <1>3 DEF Links
  <2>3. c \in OptCluster
    BY <1>1, Fields, ClusterType DEF Links
  <2>4. y.disk[n] \in [Position -> OptCluster]
    <3>1. Fresh(z, n) \in [Position -> OptCluster]
      BY <1>1, <1>3, FreshArray
    <3>2. QED
      BY <2>1, <2>3, <3>1 DEF Added
  <2>5. Written(y, n)
    BY <2>4, ArrayWritten DEF Written
  <2>6. QED
    BY <2>1, <2>2, <2>5 DEF Written
<1>4. QED
  BY <1>2, <1>3

\* Linked at a reference node, the cluster becomes a reference cluster.
LEMMA LinkIsRef ==
  ASSUME NEW z, NEW y, NEW n, NEW p, NEW c, Sound(z), Links(z, y, n, p, c), NEW m \in Cluster
  PROVE  IsRef(y, m) <=> IsRef(z, m) \/ (m = c /\ RefNode(z, n))
<1>1. z \in States /\ y \in States
  BY DEF Sound, Links
<1>2. c \in Cluster /\ c # NULL_CLUSTER /\ m # NULL_CLUSTER /\ ~ Written(z, c)
  BY <1>1, Fields, ClusterType DEF Links, Sound
<1>3. z.i2 \in OptCluster
  BY <1>1, Fields
<1>4. z.i2 \notin {-1, -2, -3}
  BY <1>3, ClusterType, Sizes DEF NULL_CLUSTER
<1>5. CASE n = -1
  <2>1. y.i1 = z.i1 /\ y.i2 = z.i2 /\ y.disk = z.disk /\ ~ RefNode(z, n)
    BY <1>4, <1>5, ClusterType DEF Links, RefNode
  <2>2. QED
    BY <2>1 DEF IsRef, Middle, Written
<1>6. CASE n = -2
  <2>1. y.i2 = z.i2 /\ y.disk = z.disk /\ RefNode(z, n) /\ p \in 0 .. N_INDIRECT - 1
    BY <1>6, ClusterType DEF Links, RefNode, Index
  <2>2. z.i1[p] = NULL_CLUSTER
    BY <1>6, <2>1, HoldsSingle DEF Links
  <2>3. \A i \in 0 .. N_INDIRECT - 1 : y.i1[i] = IF i = p THEN c ELSE z.i1[i]
    BY <1>1, <1>6, Fields DEF Links
  <2>4. Middle(y, m) <=> Middle(z, m)
    BY <2>1 DEF Middle, Written
  <2>5. QED
    BY <1>2, <2>1, <2>2, <2>3, <2>4 DEF IsRef
<1>7. CASE n = -3
  <2>1. y.i1 = z.i1 /\ y.i2 = c /\ y.disk = z.disk /\ RefNode(z, n) /\ p = 0
    BY <1>7, ClusterType DEF Links, RefNode, Index
  <2>2. z.i2 = NULL_CLUSTER
    BY <1>7, <2>1, HoldsDouble DEF Links
  <2>3. ~ Middle(z, m) /\ ~ Middle(y, m)
    BY <1>2, <2>1, <2>2 DEF Middle, Written
  <2>4. QED
    BY <1>2, <2>1, <2>2, <2>3 DEF IsRef
<1>8. CASE n \in Cluster
  <2>1. y.i1 = z.i1 /\ y.i2 = z.i2 /\ n \notin {-1, -2, -3}
    BY <1>8, ClusterType DEF Links
  <2>2. CASE n # z.i2
    <3>1. z.i2 # NULL_CLUSTER => z.i2 \in Cluster
      BY <1>3, ClusterType
    <3>2. z.i2 # NULL_CLUSTER => y.disk[z.i2] = z.disk[z.i2]
      <4>1. ASSUME NEW k \in Cluster, k # n PROVE y.disk[k] = z.disk[k]
        BY <4>1, LinkWritten
      <4>2. QED
        BY <2>2, <3>1, <4>1
    <3>3. Middle(y, m) <=> Middle(z, m)
      BY <2>1, <3>2 DEF Middle, Written
    <3>4. QED
      BY <2>1, <2>2, <3>3 DEF IsRef, RefNode
  <2>3. CASE n = z.i2
    <3>1. y.disk[n] = Added(z, n, p, c) /\ Written(y, n)
      BY <1>8, LinkWritten
    <3>2. p \in Position /\ Fresh(z, n) \in [Position -> OptCluster]
      BY <1>1, <1>8, <2>1, FreshArray DEF Links, Index
    <3>3. \A k \in Position : y.disk[n][k] = IF k = p THEN c ELSE Fresh(z, n)[k]
      BY <3>1, <3>2 DEF Added
    <3>4. n # NULL_CLUSTER
      BY <1>8, ClusterType
    <3>5. CASE Written(z, n)
      <4>1. Fresh(z, n) = z.disk[n]
        BY <3>5 DEF Fresh
      <4>2. IsRef(z, n)
        BY <2>1, <2>3 DEF Links
      <4>3. z.disk[n][p] = NULL_CLUSTER
        BY <1>8, <3>2, <3>5, <4>2, HoldsIn DEF Links
      <4>4. Middle(y, m) <=> Middle(z, m) \/ m = c
        BY <1>2, <2>1, <2>3, <3>1, <3>2, <3>3, <3>4, <3>5, <4>1, <4>3 DEF Middle
      <4>5. QED
        BY <2>1, <2>3, <4>4 DEF IsRef, RefNode
    <3>6. CASE ~ Written(z, n)
      <4>1. \A k \in Position : Fresh(z, n)[k] = NULL_CLUSTER
        BY <3>6 DEF Fresh, NoRefs
      <4>2. ~ Middle(z, m)
        BY <2>3, <3>6 DEF Middle
      <4>3. Middle(y, m) <=> m = c
        BY <1>2, <2>1, <2>3, <3>1, <3>2, <3>3, <3>4, <4>1 DEF Middle
      <4>4. QED
        BY <2>1, <2>3, <4>2, <4>3 DEF IsRef, RefNode
    <3>7. QED
      BY <3>5, <3>6
  <2>4. QED
    BY <2>2, <2>3
<1>9. QED
  BY <1>5, <1>6, <1>7, <1>8 DEF Links

\* The tree after a link: one place more.
LEMMA LinkHolds ==
  ASSUME NEW z, NEW y, NEW n, NEW p, NEW c, Sound(z), Links(z, y, n, p, c)
  PROVE  /\ \A m, q : Holds(y, m, q) <=> Holds(z, m, q) \/ (m = n /\ q = p)
         /\ \A m, q : Holds(z, m, q) => At(y, m, q) = At(z, m, q)
         /\ At(y, n, p) = c
<1>1. z \in States /\ y \in States
  BY DEF Sound, Links
<1>2. c \in Cluster /\ c # NULL_CLUSTER /\ ~ Written(z, c) /\ c \in z.free
  BY <1>1, Fields, ClusterType DEF Links, Sound
<1>3. n \in {-1, -2, -3} \/ (n \in Cluster /\ IsRef(z, n))
  BY DEF Links
<1>4. p \in Index(n) /\ ~ Holds(z, n, p)
  BY DEF Links
<1>5. ASSUME NEW q PROVE (Holds(y, -1, q) <=> Holds(z, -1, q) \/ (n = -1 /\ q = p))
                      /\ (Holds(z, -1, q) => At(y, -1, q) = At(z, -1, q))
                      /\ (n = -1 => At(y, -1, p) = c)
  <2>1. CASE n = -1
    <3>1. p \in 0 .. N_DIRECT - 1
      BY <1>4, <2>1 DEF Index
    <3>2. z.d[p] = NULL_CLUSTER
      BY <1>4, <2>1, <3>1, HoldsDirect
    <3>3. \A i \in 0 .. N_DIRECT - 1 : y.d[i] = IF i = p THEN c ELSE z.d[i]
      BY <1>1, <2>1, Fields DEF Links
    <3>4. QED
      BY <1>2, <2>1, <3>1, <3>2, <3>3, HoldsDirect, AtInode
  <2>2. CASE n # -1
    <3>1. y.d = z.d
      BY <2>2 DEF Links
    <3>2. QED
      BY <2>2, <3>1, HoldsDirect, AtInode
  <2>3. QED
    BY <2>1, <2>2
<1>6. ASSUME NEW q PROVE (Holds(y, -2, q) <=> Holds(z, -2, q) \/ (n = -2 /\ q = p))
                      /\ (Holds(z, -2, q) => At(y, -2, q) = At(z, -2, q))
                      /\ (n = -2 => At(y, -2, p) = c)
  <2>1. CASE n = -2
    <3>1. p \in 0 .. N_INDIRECT - 1
      BY <1>4, <2>1 DEF Index
    <3>2. z.i1[p] = NULL_CLUSTER
      BY <1>4, <2>1, <3>1, HoldsSingle
    <3>3. \A i \in 0 .. N_INDIRECT - 1 : y.i1[i] = IF i = p THEN c ELSE z.i1[i]
      BY <1>1, <2>1, Fields DEF Links
    <3>4. QED
      BY <1>2, <2>1, <3>1, <3>2, <3>3, HoldsSingle, AtInode
  <2>2. CASE n # -2
    <3>1. y.i1 = z.i1
      BY <2>2 DEF Links
    <3>2. QED
      BY <2>2, <3>1, HoldsSingle, AtInode
  <2>3. QED
    BY <2>1, <2>2
<1>7. ASSUME NEW q PROVE (Holds(y, -3, q) <=> Holds(z, -3, q) \/ (n = -3 /\ q = p))
                      /\ (Holds(z, -3, q) => At(y, -3, q) = At(z, -3, q))
                      /\ (n = -3 => At(y, -3, p) = c)
  <2>1. CASE n = -3
    <3>1. p = 0 /\ y.i2 = c
      BY <1>4, <2>1 DEF Index, Links
    <3>2. z.i2 = NULL_CLUSTER
      BY <1>4, <2>1, <3>1, HoldsDouble
    <3>3. QED
      BY <1>2, <2>1, <3>1, <3>2, HoldsDouble, AtInode
  <2>2. CASE n # -3
    <3>1. y.i2 = z.i2
      BY <2>2 DEF Links
    <3>2. QED
      BY <2>2, <3>1, HoldsDouble, AtInode
  <2>3. QED
    BY <2>1, <2>2
<1>8. ASSUME NEW m \in Cluster, NEW q
      PROVE (Holds(y, m, q) <=> Holds(z, m, q) \/ (n = m /\ q = p))
         /\ (Holds(z, m, q) => At(y, m, q) = At(z, m, q))
         /\ (n = m => At(y, m, p) = c)
  <2>1. IsRef(y, m) <=> IsRef(z, m) \/ (m = c /\ RefNode(z, n))
    BY LinkIsRef
  <2>2. /\ Written(y, m) <=> Written(z, m) \/ m = n
        /\ m # n => y.disk[m] = z.disk[m]
        /\ m = n => y.disk[m] = Added(z, n, p, c)
    BY LinkWritten
  <2>3. CASE m = n
    <3>1. IsRef(z, n) /\ p \in Position
      BY <1>3, <1>4, <2>3, ClusterType DEF Index
    <3>2. Fresh(z, n) \in [Position -> OptCluster]
      BY <1>1, <2>3, FreshArray
    <3>3. \A k \in Position : y.disk[m][k] = IF k = p THEN c ELSE Fresh(z, n)[k]
      BY <2>2, <2>3, <3>1, <3>2 DEF Added
    <3>4. Written(z, n) => z.disk[n][p] = NULL_CLUSTER
      BY <1>4, <2>3, <3>1, HoldsIn
    <3>5. \A k \in Position : Fresh(z, n)[k] = IF Written(z, n) THEN z.disk[n][k] ELSE NULL_CLUSTER
      BY DEF Fresh, NoRefs
    <3>6. QED
      BY <1>2, <2>1, <2>2, <2>3, <3>1, <3>3, <3>4, <3>5, HoldsIn
  <2>4. CASE m # n
    <3>1. Holds(y, m, q) <=> Holds(z, m, q)
      BY <1>2, <2>1, <2>2, <2>4, HoldsIn
    <3>2. QED
      BY <2>1, <2>2, <2>4, <3>1, HoldsIn
  <2>5. QED
    BY <2>3, <2>4
<1>9. \A m, q : Holds(y, m, q) <=> Holds(z, m, q) \/ (m = n /\ q = p)
  <2> SUFFICES ASSUME NEW m, NEW q
               PROVE  Holds(y, m, q) <=> Holds(z, m, q) \/ (m = n /\ q = p)
    OBVIOUS
  <2>1. CASE m \in {-1, -2, -3} \/ m \in Cluster
    BY <1>5, <1>6, <1>7, <1>8, <2>1
  <2>2. CASE ~ (m \in {-1, -2, -3} \/ m \in Cluster)
    BY <1>3, <2>2, NodeType
  <2>3. QED
    BY <2>1, <2>2
<1>10. \A m, q : Holds(z, m, q) => At(y, m, q) = At(z, m, q)
  BY <1>5, <1>6, <1>7, <1>8, NodeType
<1>11. At(y, n, p) = c
  BY <1>3, <1>5, <1>6, <1>7, <1>8
<1>12. QED
  BY <1>9, <1>10, <1>11

\* A link leaves no cluster at two places, and none at one that is free.
LEMMA LinkSound ==
  ASSUME NEW z, NEW y, NEW n, NEW p, NEW c, Sound(z), Links(z, y, n, p, c)
  PROVE  Sound(y)
<1>1. y \in States /\ y.free = z.free \ {c} /\ c \in z.free
  BY DEF Links
<1>2. ASSUME NEW b \in y.free PROVE ~ Written(y, b)
  <2>1. b \in z.free /\ ~ Written(z, b) /\ b \in Cluster
    BY <1>1, Fields DEF Sound
  <2>2. b # n
    BY <2>1, RefNotFree, ClusterType DEF Links
  <2>3. QED
    BY <2>1, <2>2, LinkWritten
<1>3. ASSUME NEW m, NEW q, Holds(y, m, q) PROVE At(y, m, q) \notin y.free
  BY <1>1, <1>3, LinkHolds DEF Sound
<1>4. ASSUME NEW m, NEW q, NEW k, NEW r, Holds(y, m, q), Holds(y, k, r), At(y, m, q) = At(y, k, r)
      PROVE  m = k /\ q = r
  <2>1. CASE Holds(z, m, q) /\ Holds(z, k, r)
    BY <1>4, <2>1, LinkHolds DEF Sound
  <2>2. CASE Holds(z, m, q) /\ k = n /\ r = p
    BY <1>1, <1>4, <2>2, LinkHolds DEF Sound
  <2>3. CASE m = n /\ q = p /\ Holds(z, k, r)
    BY <1>1, <1>4, <2>3, LinkHolds DEF Sound
  <2>4. QED
    BY <1>4, <2>1, <2>2, <2>3, LinkHolds
<1>5. QED
  BY <1>1, <1>2, <1>3, <1>4 DEF Sound

-----------------------------------------------------------------------------
(* What a link adds to the count *)

LEMMA CountedFinite ==
  ASSUME NEW z
  PROVE  IsFiniteSet(Counted(z)) /\ Cardinality(Counted(z)) \in Nat
<1>1. IsFiniteSet(-3 .. CTotal) /\ IsFiniteSet(0 .. N_DIRECT + N_INDIRECT + RPC)
  BY FS_Interval, Sizes
<1>2. IsFiniteSet(Place)
  BY <1>1, FS_Product DEF Place
<1>3. QED
  BY <1>2, FS_Subset, FS_CardinalityType DEF Counted

\* Membership of Counted without the pair.
LEMMA InCounted ==
  ASSUME NEW z \in States, NEW n, NEW p
  PROVE  <<n, p>> \in Counted(z) <=> Counts1(z, n, p)
<1>1. Counts1(z, n, p) => <<n, p>> \in Place
  BY HoldsCluster DEF Counts1
<1>2. <<n, p>>[1] = n /\ <<n, p>>[2] = p
  OBVIOUS
<1>3. QED
  BY <1>1, <1>2 DEF Counted

LEMMA CountedPair ==
  ASSUME NEW z, NEW q \in Counted(z)
  PROVE  q = <<q[1], q[2]>> /\ Counts1(z, q[1], q[2])
  BY DEF Counted, Place

LEMMA LinkBare ==
  ASSUME NEW z, NEW y, NEW n, NEW p, NEW c, Sound(z), Links(z, y, n, p, c), NEW m, NEW q
  PROVE  Bare(y, m, q) <=> \/ Bare(z, m, q) /\ At(z, m, q) # n
                           \/ m = n /\ q = p /\ RefNode(z, n)
<1>1. z \in States /\ y \in States /\ c \in z.free /\ c \in Cluster /\ ~ Written(z, c)
  BY Fields DEF Sound, Links
<1>2. c # n
  BY <1>1, RefNotFree, ClusterType DEF Links
<1>3. ASSUME Holds(y, m, q) PROVE RefNode(y, m) <=> RefNode(z, m)
  <2>1. CASE n # -3
    <3>1. y.i2 = z.i2
      BY <2>1 DEF Links
    <3>2. QED
      BY <3>1 DEF RefNode
  <2>2. CASE n = -3
    <3>1. y.i2 = c
      BY <2>2 DEF Links
    <3>2. ~ Holds(y, c, q)
      BY <1>1, <1>2, HoldsIn, LinkHolds
    <3>3. z.i2 = NULL_CLUSTER
      <4>1. p \in Index(n) /\ ~ Holds(z, n, p)
        BY DEF Links
      <4>2. p = 0
        BY <2>2, <4>1 DEF Index
      <4>3. QED
        BY <2>2, <4>1, <4>2, HoldsDouble
    <3>4. m # NULL_CLUSTER
      BY <1>3, NodeType, ClusterType, Sizes DEF NULL_CLUSTER
    <3>5. QED
      BY <1>3, <3>1, <3>2, <3>3, <3>4 DEF RefNode
  <2>3. QED
    BY <2>1, <2>2
<1>4. ~ Holds(z, n, p)
  BY DEF Links
<1>5. CASE Holds(z, m, q)
  <2>1. At(z, m, q) \in Cluster /\ At(y, m, q) = At(z, m, q) /\ Holds(y, m, q) /\ ~ (m = n /\ q = p)
    <3>1. At(z, m, q) \in Cluster
      BY <1>1, <1>5, HoldsCluster
    <3>2. Holds(y, m, q) /\ At(y, m, q) = At(z, m, q)
      BY <1>5, LinkHolds
    <3>3. QED
      BY <1>4, <1>5, <3>1, <3>2
  <2>2. Written(y, At(z, m, q)) <=> Written(z, At(z, m, q)) \/ At(z, m, q) = n
    BY <2>1, LinkWritten
  <2>3. Written(y, At(y, m, q)) <=> Written(z, At(z, m, q)) \/ At(z, m, q) = n
    BY <2>1, <2>2
  <2>4. RefNode(y, m) <=> RefNode(z, m)
    BY <1>3, <2>1
  <2>5. QED
    BY <1>5, <2>1, <2>3, <2>4 DEF Bare
<1>6. CASE m = n /\ q = p
  <2>1. Holds(y, m, q) /\ At(y, m, q) = c /\ ~ Holds(z, m, q)
    BY <1>6, <1>4, LinkHolds
  <2>2. ~ Written(y, At(y, m, q))
    BY <1>1, <1>2, <2>1, LinkWritten
  <2>3. RefNode(y, m) <=> RefNode(z, m)
    BY <1>3, <2>1
  <2>4. QED
    BY <1>6, <2>1, <2>2, <2>3 DEF Bare
<1>7. CASE ~ Holds(z, m, q) /\ ~ (m = n /\ q = p)
  BY <1>7, LinkHolds DEF Bare
<1>8. QED
  BY <1>5, <1>6, <1>7

LEMMA LinkCounts1 ==
  ASSUME NEW z, NEW y, NEW n, NEW p, NEW c, Sound(z), Links(z, y, n, p, c), NEW m, NEW q
  PROVE  Counts1(y, m, q) <=> \/ Counts1(z, m, q)
                              \/ m = n /\ q = p /\ ~ RefNode(z, n)
                              \/ Bare(z, m, q) /\ At(z, m, q) = n /\ m # -3
<1>1. Holds(y, m, q) <=> Holds(z, m, q) \/ (m = n /\ q = p)
  BY LinkHolds
<1>2. ~ Holds(z, n, p)
  BY DEF Links
<1>3. Bare(y, m, q) <=> \/ Bare(z, m, q) /\ At(z, m, q) # n
                        \/ m = n /\ q = p /\ RefNode(z, n)
  BY LinkBare
<1>4. QED
  BY <1>1, <1>2, <1>3 DEF Counts1, Bare, RefNode

\* A link at a reference node is not counted, another is, and so is the reference
\* cluster it is the first link in.
LEMMA LinkCount ==
  ASSUME NEW z, NEW y, NEW n, NEW p, NEW c, Sound(z), Links(z, y, n, p, c)
  PROVE  /\ RefNode(z, n) => Cardinality(Counted(y)) = Cardinality(Counted(z))
         /\ ~ RefNode(z, n) /\ (n \in Cluster => Written(z, n)) =>
              Cardinality(Counted(y)) = Cardinality(Counted(z)) + 1
         /\ ~ RefNode(z, n) /\ n \in Cluster /\ ~ Written(z, n) =>
              Cardinality(Counted(y)) = Cardinality(Counted(z)) + 2
<1>1. z \in States /\ y \in States
  BY DEF Sound, Links
<1>2. \A m, q : Bare(z, m, q) => At(z, m, q) \in Cluster /\ ~ Written(z, At(z, m, q))
  BY <1>1, HoldsCluster DEF Bare
<1>3. ASSUME RefNode(z, n) PROVE Counted(y) = Counted(z)
  <2>1. ASSUME NEW m, NEW q, Bare(z, m, q), At(z, m, q) = n PROVE m = -3
    <3>1. n \in Cluster /\ n = z.i2
      BY <1>2, <1>3, <2>1, ClusterType DEF RefNode
    <3>2. Holds(z, -3, 0) /\ At(z, -3, 0) = n
      BY <3>1, HoldsDouble, AtInode, ClusterType
    <3>3. QED
      BY <2>1, <3>2 DEF Bare, Sound
  <2>2. \A m, q : Counts1(y, m, q) <=> Counts1(z, m, q)
    BY <1>3, <2>1, LinkCounts1
  <2>3. QED
    BY <2>2 DEF Counted
<1>4. ASSUME ~ RefNode(z, n), n \in Cluster => Written(z, n)
      PROVE  Cardinality(Counted(y)) = Cardinality(Counted(z)) + 1
  <2>1. \A m, q : Counts1(y, m, q) <=> Counts1(z, m, q) \/ (m = n /\ q = p)
    BY <1>2, <1>4, LinkCounts1
  <2>2. Counted(y) = Counted(z) \cup {<<n, p>>}
    <3>1. Counted(y) \subseteq Counted(z) \cup {<<n, p>>}
      BY <1>1, <2>1, CountedPair, InCounted
    <3>2. Counted(z) \cup {<<n, p>>} \subseteq Counted(y)
      BY <1>1, <2>1, CountedPair, InCounted
    <3>3. QED
      BY <3>1, <3>2
  <2>3. <<n, p>> \notin Counted(z)
    BY <1>1, InCounted DEF Links, Counts1
  <2>4. QED
    BY <2>2, <2>3, CountedFinite, FS_AddElement
<1>5. ASSUME ~ RefNode(z, n), n \in Cluster, ~ Written(z, n)
      PROVE  Cardinality(Counted(y)) = Cardinality(Counted(z)) + 2
  <2>1. PICK k, r : Holds(z, k, r) /\ RefNode(z, k) /\ At(z, k, r) = n
    BY <1>1, <1>5, RefHeld, ClusterType DEF Links
  <2>2. k # -3
    BY <1>5, <2>1, AtInode DEF RefNode
  <2>3. \A m, q : Bare(z, m, q) /\ At(z, m, q) = n /\ m # -3 <=> m = k /\ q = r
    BY <1>5, <2>1, <2>2 DEF Bare, Sound
  <2>4. \A m, q : Counts1(y, m, q) <=> Counts1(z, m, q) \/ (m = n /\ q = p) \/ (m = k /\ q = r)
    BY <1>5, <2>3, LinkCounts1
  <2>5. Counted(y) = (Counted(z) \cup {<<n, p>>}) \cup {<<k, r>>}
    <3>1. Counted(y) \subseteq (Counted(z) \cup {<<n, p>>}) \cup {<<k, r>>}
      BY <1>1, <2>4, CountedPair, InCounted
    <3>2. (Counted(z) \cup {<<n, p>>}) \cup {<<k, r>>} \subseteq Counted(y)
      BY <1>1, <2>4, CountedPair, InCounted
    <3>3. QED
      BY <3>1, <3>2
  <2>6. <<n, p>> \notin Counted(z) /\ <<k, r>> \notin Counted(z)
    BY <1>1, <1>5, <2>1, InCounted DEF Links, Counts1, Bare
  <2>7. <<k, r>> # <<n, p>>
    BY <2>1 DEF Links
  <2>8. IsFiniteSet(Counted(z) \cup {<<n, p>>})
        /\ Cardinality(Counted(z) \cup {<<n, p>>}) = Cardinality(Counted(z)) + 1
    BY <2>6, CountedFinite, FS_AddElement
  <2>9. Cardinality(Counted(y)) = Cardinality(Counted(z) \cup {<<n, p>>}) + 1
    <3>1. <<k, r>> \notin Counted(z) \cup {<<n, p>>}
      BY <2>6, <2>7
    <3>2. Cardinality((Counted(z) \cup {<<n, p>>}) \cup {<<k, r>>})
            = Cardinality(Counted(z) \cup {<<n, p>>}) + 1
      BY <2>8, <3>1, FS_AddElement
    <3>3. QED
      BY <2>5, <3>2
  <2>10. QED
    BY <2>8, <2>9, CountedFinite
<1>6. QED
  BY <1>3, <1>4, <1>5

-----------------------------------------------------------------------------
(* The routines of soAllocFileCluster as links *)

Flags(z, y) == y.err = z.err /\ y.undefined = z.undefined /\ y.short = z.short

LEMMA AllocClusterIs ==
  ASSUME NEW z \in States, z.err = "OK", NEW y, y = AllocCluster(z)
  PROVE  /\ z.free = {} => y = [z EXCEPT !.err = "ENOSPC"] /\ Threw(y)
         /\ z.free # {} => /\ y = [z EXCEPT !.ret = y.ret, !.free = @ \ {y.ret}]
                           /\ y.ret \in z.free /\ y.ret \in Cluster
                           /\ y \in States /\ Flags(z, y) /\ ~ Threw(y)
<1>1. CASE z.free = {}
  BY <1>1 DEF AllocCluster, Threw, States
<1>2. CASE z.free # {}
  <2> DEFINE c == Min(z.free)
  <2>1. c \in z.free /\ c \in Cluster
    BY <1>2, MinFree, Fields
  <2> HIDE DEF c
  <2>2. y = [z EXCEPT !.ret = c, !.free = @ \ {c}]
    BY <1>2 DEF AllocCluster, c
  <2>3. y.ret = c
    BY <2>2 DEF States
  <2>4. c \in OptCluster /\ z.free \ {c} \in SUBSET Cluster
    BY <2>1, ClusterType DEF States
  <2>5. y \in States
    BY <2>2, <2>4 DEF States
  <2>6. Flags(z, y) /\ y.err = z.err
    BY <2>2 DEF States, Flags
  <2>7. ~ Threw(y)
    BY <2>6 DEF Threw
  <2>8. y = [z EXCEPT !.ret = y.ret, !.free = @ \ {y.ret}]
    BY <2>2, <2>3
  <2>9. QED
    BY <1>2, <2>1, <2>3, <2>5, <2>6, <2>7, <2>8
<1>3. QED
  BY <1>1, <1>2

PutDisk(z, c, a, k) == [[z EXCEPT !.disk[c] = a] EXCEPT !.csize = @ + k]
PutDirect(z, p, c, k) == [z EXCEPT !.d[p] = c, !.csize = @ + k]

LEMMA SetDisk ==
  ASSUME NEW z \in States, NEW c \in Cluster, NEW a \in Array, NEW k \in Int,
         NEW y, y = PutDisk(z, c, a, k)
  PROVE  /\ y \in States /\ y.disk = [z.disk EXCEPT ![c] = a] /\ y.csize = z.csize + k
         /\ y.free = z.free /\ y.d = z.d /\ y.i1 = z.i1 /\ y.i2 = z.i2
         /\ y.ret = z.ret /\ Flags(z, y)
<1> DEFINE b == [z.disk EXCEPT ![c] = a]
<1>1. b \in [Cluster -> Array]
  BY Fields
<1>2. y = [z EXCEPT !.disk = b, !.csize = @ + k]
  BY DEF States, PutDisk
<1>3. z.csize + k \in Int
  BY Fields
<1> HIDE DEF b
<1>4. y \in States /\ y.disk = b /\ y.csize = z.csize + k
      /\ y.free = z.free /\ y.d = z.d /\ y.i1 = z.i1 /\ y.i2 = z.i2
      /\ y.ret = z.ret /\ Flags(z, y)
  BY <1>1, <1>2, <1>3 DEF States, Flags
<1>5. QED
  BY <1>4 DEF b

LEMMA SetDirect ==
  ASSUME NEW z \in States, NEW p \in 0 .. N_DIRECT - 1, NEW c \in OptCluster, NEW k \in Int,
         NEW y, y = PutDirect(z, p, c, k)
  PROVE  /\ y \in States /\ y.d = [z.d EXCEPT ![p] = c] /\ y.csize = z.csize + k
         /\ y.free = z.free /\ y.disk = z.disk /\ y.i1 = z.i1 /\ y.i2 = z.i2
         /\ y.ret = z.ret /\ Flags(z, y)
<1> DEFINE b == [z.d EXCEPT ![p] = c]
<1>1. b \in [0 .. N_DIRECT - 1 -> OptCluster]
  BY Fields
<1>2. y = [z EXCEPT !.d = b, !.csize = @ + k]
  BY DEF States, PutDirect
<1>3. z.csize + k \in Int
  BY Fields
<1> HIDE DEF b
<1>4. y \in States /\ y.d = b /\ y.csize = z.csize + k
      /\ y.free = z.free /\ y.disk = z.disk /\ y.i1 = z.i1 /\ y.i2 = z.i2
      /\ y.ret = z.ret /\ Flags(z, y)
  BY <1>1, <1>2, <1>3 DEF States, Flags
<1>5. QED
  BY <1>4 DEF b

\* The references of the inode.
LEMMA AllocDirectLinks ==
  ASSUME NEW z \in States, z.err = "OK", z.free # {}, Sound(z),
         NEW p \in 0 .. N_DIRECT - 1, z.d[p] = NULL_CLUSTER, NEW y, y = AllocDirect(z, p)
  PROVE  Links(z, y, -1, p, y.ret) /\ y.csize = z.csize + 1 /\ Flags(z, y)
<1> DEFINE x == AllocCluster(z)
<1>1. /\ x = [z EXCEPT !.ret = x.ret, !.free = @ \ {x.ret}]
      /\ x.ret \in z.free /\ x.ret \in Cluster
      /\ x \in States /\ Flags(z, x) /\ ~ Threw(x)
  BY AllocClusterIs
<1>2. y = [x EXCEPT !.d[p] = x.ret, !.csize = @ + 1]
  BY <1>1 DEF AllocDirect
<1> HIDE DEF x
<1>3. x.ret \in OptCluster
  BY <1>1, ClusterType
<1>4. y = PutDirect(x, p, x.ret, 1)
  BY <1>2 DEF PutDirect
<1>5. y \in States /\ y.ret = x.ret /\ Flags(x, y)
      /\ y.d = [x.d EXCEPT ![p] = x.ret] /\ y.csize = x.csize + 1
      /\ y.free = x.free /\ y.i1 = x.i1 /\ y.i2 = x.i2 /\ y.disk = x.disk
  BY <1>1, <1>3, <1>4, SetDirect
<1>6. x.free = z.free \ {x.ret} /\ x.d = z.d /\ x.i1 = z.i1
      /\ x.i2 = z.i2 /\ x.disk = z.disk /\ x.csize = z.csize
  BY <1>1 DEF States
<1>7. p \in Index(-1) /\ ~ Holds(z, -1, p)
  BY HoldsDirect DEF Index
<1>8. Links(z, y, -1, p, x.ret)
  BY <1>1, <1>5, <1>6, <1>7, ClusterType DEF Links
<1>9. QED
  BY <1>1, <1>5, <1>6, <1>8 DEF Flags

\* A reference cluster that has been written.
LEMMA AllocInLinks ==
  ASSUME NEW z \in States, z.err = "OK", z.free # {}, Sound(z),
         NEW c \in Cluster, IsRef(z, c), Written(z, c),
         NEW p \in Position, z.disk[c][p] = NULL_CLUSTER, NEW y, y = AllocIn(z, c, p)
  PROVE  Links(z, y, c, p, y.ret) /\ y.csize = z.csize + 1 /\ Flags(z, y)
<1> DEFINE x == AllocCluster(z)
<1>1. /\ x = [z EXCEPT !.ret = x.ret, !.free = @ \ {x.ret}]
      /\ x.ret \in z.free /\ x.ret \in Cluster
      /\ x \in States /\ Flags(z, x) /\ ~ Threw(x)
  BY AllocClusterIs
<1>2. y = [Write(x, c, [z.disk[c] EXCEPT ![p] = x.ret]) EXCEPT !.csize = @ + 1]
  BY <1>1 DEF AllocIn, Checked, Written
<1> HIDE DEF x
<1>3. y = PutDisk(x, c, Added(z, c, p, x.ret), 1)
  BY <1>2, ClusterType DEF Write, Added, Fresh, PutDisk
<1>4. Added(z, c, p, x.ret) \in Array
  BY <1>1, FreshArray, ClusterType DEF Added, Array
<1>5. y \in States /\ y.ret = x.ret /\ Flags(x, y)
      /\ y.disk = [x.disk EXCEPT ![c] = Added(z, c, p, x.ret)] /\ y.csize = x.csize + 1
      /\ y.free = x.free /\ y.i1 = x.i1 /\ y.i2 = x.i2 /\ y.d = x.d
  BY <1>1, <1>3, <1>4, SetDisk
<1>6. x.free = z.free \ {x.ret} /\ x.d = z.d /\ x.i1 = z.i1
      /\ x.i2 = z.i2 /\ x.disk = z.disk /\ x.csize = z.csize
  BY <1>1 DEF States
<1>7. p \in Index(c) /\ ~ Holds(z, c, p)
  BY HoldsIn, ClusterType DEF Index
<1>8. Links(z, y, c, p, x.ret)
  BY <1>1, <1>5, <1>6, <1>7, ClusterType DEF Links
<1>9. QED
  BY <1>1, <1>5, <1>6, <1>8 DEF Flags

\* A new one.
LEMMA AllocInNewLinks ==
  ASSUME NEW z \in States, z.err = "OK", z.free # {}, Sound(z),
         NEW c \in Cluster, IsRef(z, c), ~ Written(z, c),
         NEW p \in Position, NEW more \in Int, NEW y, y = AllocInNew(z, c, p, more)
  PROVE  Links(z, y, c, p, y.ret) /\ y.csize = z.csize + more /\ Flags(z, y)
<1> DEFINE x == AllocCluster(z)
<1>1. /\ x = [z EXCEPT !.ret = x.ret, !.free = @ \ {x.ret}]
      /\ x.ret \in z.free /\ x.ret \in Cluster
      /\ x \in States /\ Flags(z, x) /\ ~ Threw(x)
  BY AllocClusterIs
<1>2. y = [Write(x, c, [NoRefs EXCEPT ![p] = x.ret]) EXCEPT !.csize = @ + more]
  BY <1>1 DEF AllocInNew
<1> HIDE DEF x
<1>3. y = PutDisk(x, c, Added(z, c, p, x.ret), more)
  BY <1>2, ClusterType DEF Write, Added, Fresh, PutDisk
<1>4. Added(z, c, p, x.ret) \in Array
  BY <1>1, FreshArray, ClusterType DEF Added, Array
<1>5. y \in States /\ y.ret = x.ret /\ Flags(x, y)
      /\ y.disk = [x.disk EXCEPT ![c] = Added(z, c, p, x.ret)] /\ y.csize = x.csize + more
      /\ y.free = x.free /\ y.i1 = x.i1 /\ y.i2 = x.i2 /\ y.d = x.d
  BY <1>1, <1>3, <1>4, SetDisk
<1>6. x.free = z.free \ {x.ret} /\ x.d = z.d /\ x.i1 = z.i1
      /\ x.i2 = z.i2 /\ x.disk = z.disk /\ x.csize = z.csize
  BY <1>1 DEF States
<1>7. p \in Index(c) /\ ~ Holds(z, c, p)
  BY HoldsIn, ClusterType DEF Index
<1>8. Links(z, y, c, p, x.ret)
  BY <1>1, <1>5, <1>6, <1>7, ClusterType DEF Links
<1>9. QED
  BY <1>1, <1>5, <1>6, <1>8 DEF Flags

NewSingle(w, k) == [w EXCEPT !.i1[k] = w.ret]
NewDouble(w) == [w EXCEPT !.i2 = w.ret]

LEMMA AllocSingleLinks ==
  ASSUME NEW z \in States, z.err = "OK", z.free # {}, Sound(z),
         NEW k \in 0 .. N_INDIRECT - 1, z.i1[k] = NULL_CLUSTER,
         NEW x, x = AllocCluster(z), NEW y, y = NewSingle(x, k)
  PROVE  /\ Links(z, y, -2, k, x.ret) /\ y.csize = z.csize /\ Flags(z, y)
         /\ y.i1[k] = x.ret /\ y.i2 = z.i2
<1>1. /\ x = [z EXCEPT !.ret = x.ret, !.free = @ \ {x.ret}]
      /\ x.ret \in z.free /\ x.ret \in Cluster
      /\ x \in States /\ Flags(z, x) /\ ~ Threw(x)
  BY AllocClusterIs
<1> DEFINE a == [x.i1 EXCEPT ![k] = x.ret]
<1>2. a \in [0 .. N_INDIRECT - 1 -> OptCluster] /\ a[k] = x.ret /\ y = [x EXCEPT !.i1 = a]
  BY <1>1, Fields, ClusterType DEF NewSingle
<1> HIDE DEF a
<1>3. y \in States /\ y.i1 = a /\ Flags(x, y) /\ y.csize = x.csize
      /\ y.d = x.d /\ y.i2 = x.i2 /\ y.disk = x.disk /\ y.free = x.free
  BY <1>1, <1>2 DEF States, Flags
<1>4. x.free = z.free \ {x.ret} /\ x.d = z.d /\ x.i1 = z.i1
      /\ x.i2 = z.i2 /\ x.disk = z.disk /\ x.csize = z.csize
  BY <1>1 DEF States
<1>5. k \in Index(-2) /\ ~ Holds(z, -2, k)
  BY HoldsSingle DEF Index
<1>6. Links(z, y, -2, k, x.ret)
  BY <1>1, <1>3, <1>4, <1>5, ClusterType DEF Links, a
<1>7. QED
  BY <1>1, <1>2, <1>3, <1>4, <1>6 DEF Flags

LEMMA AllocDoubleLinks ==
  ASSUME NEW z \in States, z.err = "OK", z.free # {}, Sound(z), z.i2 = NULL_CLUSTER,
         NEW x, x = AllocCluster(z), NEW y, y = NewDouble(x)
  PROVE  /\ Links(z, y, -3, 0, x.ret) /\ y.csize = z.csize /\ Flags(z, y)
         /\ y.i2 = x.ret
<1>1. /\ x = [z EXCEPT !.ret = x.ret, !.free = @ \ {x.ret}]
      /\ x.ret \in z.free /\ x.ret \in Cluster
      /\ x \in States /\ Flags(z, x) /\ ~ Threw(x)
  BY AllocClusterIs
<1>2. x.ret \in OptCluster
  BY <1>1, ClusterType
<1>3. y \in States /\ y.i2 = x.ret /\ Flags(x, y) /\ y.csize = x.csize
      /\ y.d = x.d /\ y.i1 = x.i1 /\ y.disk = x.disk /\ y.free = x.free
  BY <1>1, <1>2 DEF States, Flags, NewDouble
<1>4. x.free = z.free \ {x.ret} /\ x.d = z.d /\ x.i1 = z.i1
      /\ x.i2 = z.i2 /\ x.disk = z.disk /\ x.csize = z.csize
  BY <1>1 DEF States
<1>5. 0 \in Index(-3) /\ ~ Holds(z, -3, 0)
  BY HoldsDouble DEF Index
<1>6. Links(z, y, -3, 0, x.ret)
  BY <1>1, <1>3, <1>4, <1>5, ClusterType DEF Links
<1>7. QED
  BY <1>1, <1>3, <1>4, <1>6 DEF Flags

\* A reference in the cluster of f.i2, which may be new.
LEMMA AllocMiddleLinks ==
  ASSUME NEW z \in States, z.err = "OK", z.free # {}, Sound(z),
         NEW c \in Cluster, c = z.i2, NEW k \in Position, Fresh(z, c)[k] = NULL_CLUSTER,
         NEW x, x = AllocCluster(z), NEW y, y = Write(x, c, Added(z, c, k, x.ret))
  PROVE  /\ Links(z, y, c, k, x.ret) /\ y.csize = z.csize /\ Flags(z, y)
         /\ y.i2 = z.i2
<1>1. /\ x = [z EXCEPT !.ret = x.ret, !.free = @ \ {x.ret}]
      /\ x.ret \in z.free /\ x.ret \in Cluster
      /\ x \in States /\ Flags(z, x) /\ ~ Threw(x)
  BY AllocClusterIs
<1>2. Added(z, c, k, x.ret) \in Array
  BY <1>1, FreshArray, ClusterType DEF Added, Array
<1> DEFINE a == [x.disk EXCEPT ![c] = Added(z, c, k, x.ret)]
<1>3. a \in [Cluster -> Array] /\ y = [x EXCEPT !.disk = a]
  BY <1>1, <1>2, Fields, ClusterType DEF Write
<1> HIDE DEF a
<1>4. y \in States /\ y.disk = a /\ Flags(x, y) /\ y.csize = x.csize
      /\ y.d = x.d /\ y.i1 = x.i1 /\ y.i2 = x.i2 /\ y.free = x.free
  BY <1>1, <1>3 DEF States, Flags
<1>5. x.free = z.free \ {x.ret} /\ x.d = z.d /\ x.i1 = z.i1
      /\ x.i2 = z.i2 /\ x.disk = z.disk /\ x.csize = z.csize
  BY <1>1 DEF States
<1>6. k \in Index(c) /\ ~ Holds(z, c, k) /\ IsRef(z, c)
  BY HoldsIn, ClusterType DEF Index, Fresh, IsRef
<1>7. Links(z, y, c, k, x.ret)
  BY <1>1, <1>4, <1>5, <1>6, ClusterType DEF Links, a
<1>8. QED
  BY <1>1, <1>4, <1>5, <1>7 DEF Flags

-----------------------------------------------------------------------------
(* What a call of soAllocFileCluster may do to the tree *)

\* Nothing moves, and no cluster disappears.
Extends(z, y) ==
  /\ Sound(y) /\ y.free \subseteq z.free
  /\ \A m, q : Holds(z, m, q) => Holds(y, m, q) /\ At(y, m, q) = At(z, m, q)
  /\ Complete(z) => Complete(y)

SameTree(z, y) ==
  y.d = z.d /\ y.i1 = z.i1 /\ y.i2 = z.i2 /\ y.disk = z.disk /\ y.free = z.free

LEMMA SameTreeIs ==
  ASSUME NEW z, NEW y, SameTree(z, y)
  PROVE  /\ \A m, q : (Holds(y, m, q) <=> Holds(z, m, q)) /\ At(y, m, q) = At(z, m, q)
         /\ \A m, q : Bare(y, m, q) <=> Bare(z, m, q)
         /\ \A m : RefNode(y, m) <=> RefNode(z, m)
         /\ Counted(y) = Counted(z)
         /\ Sound(z) /\ y \in States => Sound(y)
         /\ y.csize = z.csize /\ Counts(z) => Counts(y)
         /\ Whole(z) => Whole(y)
         /\ Complete(z) => Complete(y)
<1>1. \A m, q : (Holds(y, m, q) <=> Holds(z, m, q)) /\ At(y, m, q) = At(z, m, q)
  BY DEF SameTree, Holds, Node, IsRef, Middle, Written, At
<1>2. \A m : RefNode(y, m) <=> RefNode(z, m)
  BY DEF SameTree, RefNode
<1>3. \A c : Written(y, c) <=> Written(z, c)
  BY DEF SameTree, Written
<1>4. \A m, q : Bare(y, m, q) <=> Bare(z, m, q)
  BY <1>1, <1>2, <1>3 DEF Bare
<1>5. \A m, q : Counts1(y, m, q) <=> Counts1(z, m, q)
  BY <1>1, <1>4 DEF Counts1
<1>6. Counted(y) = Counted(z)
  BY <1>5 DEF Counted
<1>7. Sound(z) /\ y \in States => Sound(y)
  BY <1>1, <1>3 DEF Sound, SameTree
<1>8. BareBelow(y) <=> BareBelow(z)
  BY <1>3, <1>4 DEF BareBelow, SameTree
<1>9. y.csize = z.csize /\ Counts(z) => Counts(y)
  BY <1>3, <1>6, <1>8 DEF Counts, Owed, SameTree
<1>10. QED
  BY <1>1, <1>2, <1>4, <1>6, <1>7, <1>9 DEF Whole, Complete, SameTree

LEMMA LinkExtends ==
  ASSUME NEW z, NEW y, NEW n, NEW p, NEW c, Sound(z), Links(z, y, n, p, c)
  PROVE  Extends(z, y)
<1>1. Sound(y)
  BY LinkSound
<1>2. y.free = z.free \ {c}
  BY DEF Links
<1>3. \A m, q : Holds(y, m, q) <=> Holds(z, m, q) \/ (m = n /\ q = p)
  BY LinkHolds
<1>4. (\A m, q : Holds(z, m, q) => At(y, m, q) = At(z, m, q)) /\ At(y, n, p) = c
  BY LinkHolds
<1>5. Complete(z) => Complete(y)
  BY <1>2, <1>3, <1>4 DEF Complete
<1>6. QED
  BY <1>1, <1>2, <1>3, <1>4, <1>5 DEF Extends

LEMMA ExtendsTrans ==
  ASSUME NEW z, NEW x, NEW y, Extends(z, x), Extends(x, y)
  PROVE  Extends(z, y)
  BY DEF Extends

\* The file cluster g is at place p of node n.
Locates(z, g, n, p) ==
  \/ n = -1 /\ p = g
  \/ \E i : /\ Holds(z, -2, i) /\ At(z, -2, i) = n
            /\ p \in Position /\ g = N_DIRECT + i * RPC + p
  \/ \E k : /\ Holds(z, z.i2, k) /\ At(z, z.i2, k) = n
            /\ p \in Position /\ g = FirstDouble + k * RPC + p

LEMMA LocatesLater ==
  ASSUME NEW z \in States, NEW y, Extends(z, y), NEW g, NEW n, NEW p, Locates(z, g, n, p)
  PROVE  Locates(y, g, n, p)
<1>1. ASSUME NEW k, Holds(z, z.i2, k) PROVE y.i2 = z.i2
  <2>1. z.i2 \in Cluster
    BY <1>1, NodeType, Fields, ClusterType DEF OptCluster, NULL_CLUSTER
  <2>2. Holds(z, -3, 0) /\ At(z, -3, 0) = z.i2
    BY <2>1, HoldsDouble, AtInode, ClusterType
  <2>3. At(y, -3, 0) = z.i2
    BY <2>2 DEF Extends
  <2>4. QED
    BY <2>3, AtInode
<1>2. QED
  BY <1>1 DEF Locates, Extends

\* After the call, done or thrown half way: what the tree has more than before is
\* at the position asked for, or a reference cluster on the way to it.
AllocGood(z, y, g) ==
  /\ Extends(z, y) /\ Counts(y)
  /\ y.undefined = z.undefined /\ y.short = z.short
  /\ (~ Threw(y) \/ y.free = z.free) /\ Whole(z) => Whole(y)
  /\ \A m, q : Holds(y, m, q) /\ ~ Holds(z, m, q) /\ ~ RefNode(y, m) => Locates(y, g, m, q)
  /\ ~ Threw(y) => \E m, q : Holds(y, m, q) /\ Locates(y, g, m, q) /\ At(y, m, q) \in z.free

\* When there was no cluster at all, nothing has changed.
LEMMA NoSpace ==
  ASSUME NEW z, Sound(z), Counts(z), z.err = "OK", z.free = {},
         NEW y, y = AllocCluster(z), NEW g
  PROVE  AllocGood(z, y, g)
<1>1. z \in States
  BY DEF Sound
<1>2. y = [z EXCEPT !.err = "ENOSPC"] /\ Threw(y)
  BY <1>1, AllocClusterIs
<1>3. y \in States /\ SameTree(z, y) /\ y.csize = z.csize
      /\ y.undefined = z.undefined /\ y.short = z.short
  BY <1>1, <1>2 DEF States, SameTree
<1>4. Sound(y) /\ Counts(y) /\ (Whole(z) => Whole(y)) /\ (Complete(z) => Complete(y))
  BY <1>3, SameTreeIs
<1>5. \A m, q : (Holds(y, m, q) <=> Holds(z, m, q)) /\ At(y, m, q) = At(z, m, q)
  BY <1>3, SameTreeIs
<1>6. y.free \subseteq z.free
  BY <1>3 DEF SameTree
<1>7. QED
  BY <1>2, <1>3, <1>4, <1>5, <1>6 DEF AllocGood, Extends

\* Links away from f.i2 and its cluster leave the balance of csize as it is.
LEMMA CountsKeep ==
  ASSUME NEW z, NEW y, NEW n, NEW p, NEW c, Sound(z), Links(z, y, n, p, c), Counts(z),
         n # -3, n # z.i2, Owed(y) = Owed(z),
         \A k : Bare(z, z.i2, k) => At(z, z.i2, k) # n
  PROVE  Counts(y)
<1>1. y.i2 = z.i2 /\ z.i2 \in OptCluster
  BY Fields DEF Links, Sound
<1>2. z.i2 # NULL_CLUSTER => (Written(y, z.i2) <=> Written(z, z.i2))
  <2>1. z.i2 # NULL_CLUSTER => z.i2 \in Cluster
    BY <1>1, ClusterType
  <2>2. QED
    BY <2>1, LinkWritten
<1>3. \A k : Bare(z, z.i2, k) => Bare(y, z.i2, k)
  BY LinkBare
<1>4. BareBelow(z) => BareBelow(y)
  BY <1>1, <1>2, <1>3 DEF BareBelow
<1>5. QED
  BY <1>1, <1>2, <1>4 DEF Counts

\* One cluster in a node that holds others.
LEMMA LeafGood ==
  ASSUME NEW z, NEW y, NEW n, NEW p, NEW c, Sound(z), Links(z, y, n, p, c), Counts(z),
         ~ RefNode(z, n), n \in Cluster => Written(z, n), z.err = "OK", Flags(z, y),
         y.csize = z.csize + 1, NEW g, Locates(z, g, n, p)
  PROVE  AllocGood(z, y, g)
<1>1. z \in States /\ y \in States
  BY DEF Sound, Links
<1>2. Extends(z, y)
  BY LinkExtends
<1>3. Cardinality(Counted(y)) = Cardinality(Counted(z)) + 1
  BY LinkCount
<1>4. Owed(y) = Owed(z)
  BY <1>1, <1>3, CountedFinite, Fields DEF Owed
<1>5. \A m, q : Bare(z, m, q) => At(z, m, q) # n
  BY <1>1, HoldsCluster DEF Bare
<1>6. Counts(y)
  BY <1>4, <1>5, CountsKeep DEF RefNode
<1>7. ASSUME NEW m, NEW q PROVE Bare(y, m, q) <=> Bare(z, m, q)
  BY <1>5, LinkBare
<1>8. \A m, q : Holds(y, m, q) <=> Holds(z, m, q) \/ (m = n /\ q = p)
  BY LinkHolds
<1>9. At(y, n, p) = c
  BY LinkHolds
<1>10. Locates(y, g, n, p)
  BY <1>1, <1>2, LocatesLater
<1>11. c \in z.free
  BY DEF Links
<1>12. QED
  BY <1>2, <1>6, <1>7, <1>8, <1>9, <1>10, <1>11 DEF AllocGood, Flags, Whole

LEMMA AllocDirectGood ==
  ASSUME NEW z, Sound(z), Counts(z), z.err = "OK", NEW p \in 0 .. N_DIRECT - 1,
         z.d[p] = NULL_CLUSTER, NEW y, y = AllocDirect(z, p)
  PROVE  AllocGood(z, y, p)
<1>1. z \in States
  BY DEF Sound
<1>2. CASE z.free = {}
  <2>1. y = AllocCluster(z)
    BY <1>1, <1>2, AllocClusterIs DEF AllocDirect
  <2>2. QED
    BY <1>2, <2>1, NoSpace
<1>3. CASE z.free # {}
  <2>1. Links(z, y, -1, p, y.ret) /\ y.csize = z.csize + 1 /\ Flags(z, y)
    BY <1>1, <1>3, AllocDirectLinks
  <2>2. ~ RefNode(z, -1)
    BY <1>1, Fields, ClusterType, Sizes DEF RefNode, NULL_CLUSTER
  <2>3. -1 \notin Cluster
    BY ClusterType
  <2>4. Locates(z, p, -1, p)
    BY DEF Locates
  <2>5. QED
    BY <2>1, <2>2, <2>3, <2>4, LeafGood
<1>4. QED
  BY <1>2, <1>3

LEMMA AllocInGood ==
  ASSUME NEW z, Sound(z), Counts(z), z.err = "OK", NEW c \in Cluster, IsRef(z, c),
         c # z.i2, NEW p \in Position, Written(z, c) => z.disk[c][p] = NULL_CLUSTER,
         NEW y, y = AllocIn(z, c, p), NEW g, Locates(z, g, c, p)
  PROVE  y = [z EXCEPT !.undefined = TRUE] \/ AllocGood(z, y, g)
<1>1. z \in States
  BY DEF Sound
<1>2. CASE z.free = {}
  <2>1. y = AllocCluster(z)
    BY <1>1, <1>2, AllocClusterIs DEF AllocIn
  <2>2. QED
    BY <1>2, <2>1, NoSpace
<1>3. CASE z.free # {} /\ Written(z, c)
  <2>1. Links(z, y, c, p, y.ret) /\ y.csize = z.csize + 1 /\ Flags(z, y)
    BY <1>1, <1>3, AllocInLinks
  <2>2. ~ RefNode(z, c)
    BY ClusterType DEF RefNode
  <2>3. QED
    BY <1>3, <2>1, <2>2, LeafGood
<1>4. CASE z.free # {} /\ ~ Written(z, c)
  <2>1. ~ Threw(AllocCluster(z))
    BY <1>1, <1>4, AllocClusterIs
  <2>2. QED
    BY <1>4, <2>1 DEF AllocIn, Checked, Written
<1>5. QED
  BY <1>2, <1>3, <1>4

\* soAllocCluster throws when reference clusters have been linked already.
LEMMA HalfWay ==
  ASSUME NEW z, NEW x, Extends(z, x), Counts(x), Flags(z, x), x.err = "OK", x.free = {},
         z.free # {}, \A m, q : Holds(x, m, q) /\ ~ Holds(z, m, q) => RefNode(x, m),
         NEW y, y = AllocCluster(x), NEW g
  PROVE  AllocGood(z, y, g)
<1>1. x \in States
  BY DEF Extends, Sound
<1>2. y = [x EXCEPT !.err = "ENOSPC"] /\ Threw(y)
  BY <1>1, AllocClusterIs
<1>3. y \in States /\ SameTree(x, y) /\ y.csize = x.csize
      /\ y.undefined = x.undefined /\ y.short = x.short /\ y.free = {}
  BY <1>1, <1>2 DEF States, SameTree
<1>4. Sound(y) /\ Counts(y) /\ (Complete(x) => Complete(y))
  BY <1>3, SameTreeIs DEF Extends
<1>5. \A m, q : (Holds(y, m, q) <=> Holds(x, m, q)) /\ At(y, m, q) = At(x, m, q)
                /\ (RefNode(y, m) <=> RefNode(x, m))
  BY <1>3, SameTreeIs
<1>6. Extends(z, y)
  BY <1>3, <1>4, <1>5 DEF Extends
<1>7. QED
  BY <1>2, <1>3, <1>4, <1>5, <1>6 DEF AllocGood, Flags

\* The first cluster of a new f.i1[k].
LEMMA AllocSingleNewGood ==
  ASSUME NEW z, Sound(z), Counts(z), z.err = "OK", z.free # {},
         NEW k \in 0 .. N_INDIRECT - 1, z.i1[k] = NULL_CLUSTER, NEW p \in Position,
         NEW w, w = AllocCluster(z), NEW x, x = NewSingle(w, k),
         NEW y, y = AllocInNew(x, w.ret, p, 2), NEW g, g = N_DIRECT + k * RPC + p
  PROVE  AllocGood(z, y, g)
<1> DEFINE c == w.ret
<1>1. z \in States /\ c \in z.free /\ c \in Cluster
  <2>1. z \in States
    BY DEF Sound
  <2>2. QED
    BY <2>1, AllocClusterIs
<1>2. Links(z, x, -2, k, c) /\ x.csize = z.csize /\ Flags(z, x) /\ x.i2 = z.i2
  BY <1>1, AllocSingleLinks
<1> HIDE DEF c
<1>3. Sound(x) /\ Extends(z, x) /\ x \in States /\ x.err = "OK"
  <2>1. Extends(z, x)
    BY <1>2, LinkExtends
  <2>2. QED
    BY <1>2, <2>1 DEF Extends, Sound, Flags
<1>4. RefNode(z, -2) /\ -2 # z.i2
  BY <1>1, Fields, ClusterType, Sizes DEF RefNode, NULL_CLUSTER
<1>5. Owed(x) = Owed(z)
  BY <1>2, <1>4, LinkCount DEF Owed
<1>6. \A m, q : Bare(z, m, q) => At(z, m, q) \in Cluster
  BY <1>1, HoldsCluster DEF Bare
<1>7. Counts(x)
  BY <1>2, <1>4, <1>5, <1>6, ClusterType, CountsKeep
<1>8. \A m, q : Holds(x, m, q) <=> Holds(z, m, q) \/ (m = -2 /\ q = k)
  BY <1>2, LinkHolds
<1>9. At(x, -2, k) = c
  BY <1>2, LinkHolds
<1>10. IsRef(x, c) /\ ~ Written(x, c)
  BY <1>1, <1>2, <1>4, LinkIsRef, LinkWritten, ClusterType DEF Sound
<1>11. y = AllocInNew(x, c, p, 2)
  BY DEF c
<1>12. CASE x.free = {}
  <2>1. y = AllocCluster(x)
    BY <1>3, <1>11, <1>12, AllocClusterIs DEF AllocInNew
  <2>2. \A m, q : Holds(x, m, q) /\ ~ Holds(z, m, q) => RefNode(x, m)
    BY <1>8 DEF RefNode
  <2>3. QED
    BY <1>2, <1>3, <1>7, <1>12, <2>1, <2>2, HalfWay
<1>13. CASE x.free # {}
  <2>1. Links(x, y, c, p, y.ret) /\ y.csize = x.csize + 2 /\ Flags(x, y)
    <3>1. 2 \in Int
      OBVIOUS
    <3>2. QED
      BY <1>1, <1>3, <1>10, <1>11, <1>13, <3>1, AllocInNewLinks
  <2>2. Extends(x, y) /\ Extends(z, y)
    BY <1>3, <2>1, LinkExtends, ExtendsTrans
  <2>3. c # x.i2 /\ ~ RefNode(x, c) /\ c # -3
    <3>1. ~ Holds(x, -3, 0) \/ At(x, -3, 0) # c
      BY <1>3, <1>8, <1>9 DEF Sound
    <3>2. c # x.i2
      BY <1>1, <3>1, HoldsDouble, AtInode, ClusterType
    <3>3. QED
      BY <1>1, <3>2, ClusterType DEF RefNode
  <2>4. Cardinality(Counted(y)) = Cardinality(Counted(x)) + 2
    BY <1>1, <1>3, <1>10, <2>1, <2>3, LinkCount
  <2>5. Owed(y) = Owed(x)
    <3>1. x.csize \in Int /\ y.csize \in Int
      BY <1>3, <2>2, Fields DEF Extends, Sound
    <3>2. QED
      BY <2>1, <2>4, <3>1, CountedFinite DEF Owed
  <2>6. \A q : Bare(x, x.i2, q) => At(x, x.i2, q) # c
    <3>1. \A q : Holds(x, x.i2, q) => At(x, x.i2, q) # c
      BY <1>2, <1>3, <1>4, <1>8, <1>9 DEF Sound
    <3>2. QED
      BY <3>1 DEF Bare
  <2>7. Counts(y)
    BY <1>3, <1>7, <2>1, <2>3, <2>5, <2>6, CountsKeep
  <2>8. \A m, q : Holds(y, m, q) <=> Holds(x, m, q) \/ (m = c /\ q = p)
    BY <1>3, <2>1, LinkHolds
  <2>9. At(y, c, p) = y.ret
    BY <1>3, <2>1, LinkHolds
  <2>10. y.ret \in z.free
    BY <1>3, <2>1 DEF Extends, Links
  <2>11. Locates(y, g, c, p)
    <3>1. Locates(x, g, c, p)
      BY <1>8, <1>9 DEF Locates
    <3>2. QED
      BY <1>3, <2>2, <3>1, LocatesLater
  <2>12. Whole(z) => Whole(y)
    <3>1. ASSUME Whole(z), NEW m, NEW q PROVE ~ Bare(y, m, q)
      <4>1. Bare(y, m, q) => Bare(x, m, q) /\ At(x, m, q) # c
        BY <1>3, <2>1, <2>3, LinkBare
      <4>2. Bare(x, m, q) => m = -2 /\ q = k
        BY <1>2, <3>1, LinkBare DEF Whole
      <4>3. QED
        BY <1>9, <4>1, <4>2
    <3>2. QED
      BY <3>1 DEF Whole
  <2>13. RefNode(y, -2)
    BY DEF RefNode
  <2>14. QED
    BY <1>2, <1>8, <2>1, <2>2, <2>7, <2>8, <2>9, <2>10, <2>11, <2>12, <2>13 DEF AllocGood, Flags
<1>14. QED
  BY <1>12, <1>13

\* The first cluster of a new reference cluster below f.i2.  w is the state with
\* f.i2, which may be new itself.
LEMMA AllocMiddleNewGood ==
  ASSUME NEW z, NEW w, Extends(z, w), Flags(z, w), Counts(w), w.err = "OK", w.free # {},
         z.free # {}, \A m, q : Holds(w, m, q) /\ ~ Holds(z, m, q) => RefNode(w, m),
         Whole(z) => \A m, q : Bare(w, m, q) => m = -3,
         NEW c \in Cluster, c = w.i2, NEW k \in Position, Fresh(w, c)[k] = NULL_CLUSTER,
         NEW v, v = AllocCluster(w), NEW x, x = Write(v, c, Added(w, c, k, v.ret)),
         NEW p \in Position, NEW more \in Int, more = IF Written(w, c) THEN 2 ELSE 3,
         NEW y, y = AllocInNew(x, v.ret, p, more),
         NEW g, g = FirstDouble + k * RPC + p
  PROVE  AllocGood(z, y, g)
<1> DEFINE b == v.ret
<1>1. w \in States /\ Sound(w) /\ b \in w.free /\ b \in Cluster /\ ~ Written(w, b)
  <2>1. w \in States /\ Sound(w)
    BY DEF Sound, Extends
  <2>2. b \in w.free /\ b \in Cluster
    BY <2>1, AllocClusterIs
  <2>3. QED
    BY <2>1, <2>2 DEF Sound
<1>2. Links(w, x, c, k, b) /\ x.csize = w.csize /\ Flags(w, x) /\ x.i2 = w.i2
  BY <1>1, AllocMiddleLinks
<1> HIDE DEF b
<1>3. Sound(x) /\ Extends(w, x) /\ Extends(z, x) /\ x \in States /\ x.err = "OK"
  <2>1. Extends(w, x) /\ Extends(z, x)
    BY <1>1, <1>2, LinkExtends, ExtendsTrans
  <2>2. QED
    BY <1>2, <2>1 DEF Extends, Sound, Flags
<1>4. RefNode(w, c) /\ RefNode(x, c)
  BY <1>2 DEF RefNode
<1>5. Cardinality(Counted(x)) = Cardinality(Counted(w)) /\ Owed(x) = Owed(w)
  BY <1>1, <1>2, <1>4, LinkCount DEF Owed
<1>6. \A m, q : Holds(x, m, q) <=> Holds(w, m, q) \/ (m = c /\ q = k)
  BY <1>1, <1>2, LinkHolds
<1>7. At(x, c, k) = b
  BY <1>1, <1>2, LinkHolds
<1>8. b # c /\ Written(x, c) /\ ~ Written(x, b) /\ IsRef(x, b)
  <2>1. b # c
    BY <1>1, RefNotFree DEF IsRef
  <2>2. QED
    BY <1>1, <1>2, <1>4, <2>1, LinkWritten, LinkIsRef
<1>9. Bare(x, c, k)
  BY <1>4, <1>6, <1>7, <1>8 DEF Bare
<1>10. c # NULL_CLUSTER
  BY ClusterType
<1>11. Counts(x)
  BY <1>2, <1>5, <1>8, <1>9, <1>10, Sizes DEF Counts, BareBelow, Bare, Holds, Index
<1>12. \A m, q : Holds(x, m, q) /\ ~ Holds(z, m, q) => RefNode(x, m)
  BY <1>2, <1>4, <1>6 DEF RefNode
<1>13. y = AllocInNew(x, b, p, more)
  BY DEF b
<1>14. Flags(z, x)
  BY <1>2 DEF Flags
<1>15. CASE x.free = {}
  <2>1. y = AllocCluster(x)
    BY <1>3, <1>13, <1>15, AllocClusterIs DEF AllocInNew
  <2>2. QED
    BY <1>3, <1>11, <1>12, <1>14, <1>15, <2>1, HalfWay
<1>16. CASE x.free # {}
  <2>1. Links(x, y, b, p, y.ret) /\ y.csize = x.csize + more /\ Flags(x, y)
    BY <1>1, <1>3, <1>8, <1>13, <1>16, AllocInNewLinks
  <2>2. Extends(x, y) /\ Extends(z, y)
    BY <1>3, <2>1, LinkExtends, ExtendsTrans
  <2>3. ~ RefNode(x, b)
    BY <1>1, <1>2, <1>8, ClusterType DEF RefNode
  <2>4. Cardinality(Counted(y)) = Cardinality(Counted(x)) + 2
    BY <1>1, <1>3, <1>8, <2>1, <2>3, LinkCount
  <2>5. Owed(y) = Owed(w) + more - 2
    <3>1. x.csize \in Int /\ y.csize \in Int
      BY <1>3, <2>2, Fields DEF Extends, Sound
    <3>2. QED
      BY <1>5, <2>1, <2>4, <3>1, CountedFinite DEF Owed
  <2>6. y.i2 = c /\ Written(y, c)
    <3>1. y.i2 = x.i2
      BY <1>1, <2>1, ClusterType DEF Links
    <3>2. QED
      BY <1>2, <1>3, <1>8, <2>1, <3>1, LinkWritten
  <2>7. Counts(y)
    <3>1. CASE Owed(y) = 1
      BY <1>10, <2>6, <3>1 DEF Counts
    <3>2. CASE Owed(y) # 1
      <4>1. Written(w, c) /\ Owed(w) = 0 /\ BareBelow(w) /\ Owed(y) = 0
        BY <1>10, <2>5, <3>2 DEF Counts
      <4>2. PICK q \in Position : Bare(w, c, q)
        BY <1>10, <4>1 DEF BareBelow
      <4>3. Holds(w, c, q) /\ At(w, c, q) # c
        <5>1. Holds(w, -3, 0) /\ At(w, -3, 0) = c
          BY <1>10, HoldsDouble, AtInode
        <5>2. QED
          BY <1>1, <4>2, <5>1, ClusterType DEF Bare, Sound
      <4>4. Bare(x, c, q)
        BY <1>1, <1>2, <4>2, <4>3, LinkBare
      <4>5. q # k
        <5>1. ~ Holds(w, c, k)
          BY <1>2 DEF Links
        <5>2. QED
          BY <4>3, <5>1
      <4>6. At(x, c, q) # b
        BY <1>3, <1>6, <1>7, <4>3, <4>5 DEF Sound
      <4>7. Bare(y, c, q)
        BY <1>3, <2>1, <4>4, <4>6, LinkBare
      <4>8. QED
        BY <1>10, <2>6, <4>1, <4>7 DEF Counts, BareBelow
    <3>3. QED
      BY <3>1, <3>2
  <2>8. \A m, q : Holds(y, m, q) <=> Holds(x, m, q) \/ (m = b /\ q = p)
    BY <1>3, <2>1, LinkHolds
  <2>9. At(y, b, p) = y.ret
    BY <1>3, <2>1, LinkHolds
  <2>10. y.ret \in z.free
    <3>1. y.ret \in x.free
      BY <2>1 DEF Links
    <3>2. QED
      BY <1>3, <3>1 DEF Extends
  <2>11. Locates(y, g, b, p)
    <3>1. Locates(x, g, b, p)
      BY <1>2, <1>6, <1>7 DEF Locates
    <3>2. QED
      BY <1>3, <2>2, <3>1, LocatesLater
  <2>12. Whole(z) => Whole(y)
    <3>1. ASSUME Whole(z), NEW m, NEW q PROVE ~ Bare(y, m, q)
      <4>1. Bare(y, m, q) => Bare(x, m, q) /\ At(x, m, q) # b
        BY <1>3, <2>1, <2>3, LinkBare
      <4>2. Bare(x, m, q) => (Bare(w, m, q) /\ At(w, m, q) # c) \/ (m = c /\ q = k)
        BY <1>1, <1>2, LinkBare
      <4>3. Bare(w, m, q) => At(w, m, q) = c
        BY <3>1, AtInode
      <4>4. QED
        BY <1>7, <4>1, <4>2, <4>3
    <3>2. QED
      BY <3>1 DEF Whole
  <2>13. \A m : RefNode(x, m) <=> RefNode(y, m)
    BY <1>2, <2>6 DEF RefNode
  <2>14. Flags(z, y)
    BY <1>14, <2>1 DEF Flags
  <2>15. QED
    BY <1>12, <2>2, <2>7, <2>8, <2>9, <2>10, <2>11, <2>12, <2>13, <2>14 DEF AllocGood, Flags
<1>17. QED
  BY <1>15, <1>16

-----------------------------------------------------------------------------
(* Positions of the file *)

\* A number is a row of RPC and a position in it.
LEMMA DivMod ==
  ASSUME NEW a \in Nat
  PROVE  /\ a \div RPC \in Nat /\ a % RPC \in Position
         /\ a = (a \div RPC) * RPC + (a % RPC)
  BY Sizes DEF Position

\* And the only ones.
LEMMA DivModUnique ==
  ASSUME NEW i \in Nat, NEW p \in Position
  PROVE  /\ i * RPC + p \in Nat
         /\ (i * RPC + p) \div RPC = i
         /\ (i * RPC + p) % RPC = p
  BY Sizes DEF Position

LEMMA Later ==
  ASSUME NEW i \in Nat, NEW j \in Nat, i < j
  PROVE  i * RPC + RPC <= j * RPC /\ i * RPC \in Nat /\ j * RPC \in Nat
<1>1. PICK k \in Nat : j = i + 1 + k
  BY j - i - 1 \in Nat
<1>2. /\ j * RPC = i * RPC + RPC + k * RPC
      /\ k * RPC \in Nat /\ i * RPC \in Nat /\ j * RPC \in Nat
  BY <1>1, Sizes
<1>3. QED
  BY <1>2, Sizes

\* A number below n rows is in one of them, and the other way.
LEMMA RowBelow ==
  ASSUME NEW n \in Nat, NEW a \in Nat, a < n * RPC
  PROVE  a \div RPC \in 0 .. n - 1
<1>1. a \div RPC \in Nat /\ a % RPC \in Position
      /\ a = (a \div RPC) * RPC + (a % RPC)
  BY DivMod
<1>2. CASE a \div RPC < n
  BY <1>1, <1>2
<1>3. CASE a \div RPC = n
  BY <1>1, <1>3, Sizes DEF Position
<1>4. CASE n < a \div RPC
  <2>1. n * RPC + RPC <= (a \div RPC) * RPC /\ n * RPC \in Nat /\ (a \div RPC) * RPC \in Nat
    BY <1>1, <1>4, Later
  <2>2. QED
    BY <1>1, <2>1, Sizes DEF Position
<1>5. QED
  BY <1>1, <1>2, <1>3, <1>4

LEMMA InRow ==
  ASSUME NEW n \in Nat, NEW i \in 0 .. n - 1, NEW p \in Position
  PROVE  i * RPC + p \in Nat /\ i * RPC + p < n * RPC /\ n * RPC \in Nat
<1>1. i \in Nat /\ i < n
  OBVIOUS
<1>2. i * RPC + RPC <= n * RPC /\ i * RPC \in Nat /\ n * RPC \in Nat
  BY <1>1, Later
<1>3. QED
  BY <1>2, Sizes DEF Position

LEMMA FirstDoubleIs == FirstDouble \in Nat /\ N_INDIRECT * RPC \in Nat /\ RPC * RPC \in Nat
                 /\ FirstDouble = N_DIRECT + N_INDIRECT * RPC
  BY Sizes DEF FirstDouble

LEMMA SinglePart ==
  ASSUME NEW g \in FileCluster, ~ (g < N_DIRECT), g < FirstDouble
  PROVE  /\ Ind(g) \div RPC \in 0 .. N_INDIRECT - 1 /\ Ind(g) % RPC \in Position
         /\ g = N_DIRECT + (Ind(g) \div RPC) * RPC + (Ind(g) % RPC)
<1>1. Ind(g) \in Nat /\ Ind(g) < N_INDIRECT * RPC /\ N_INDIRECT \in Nat /\ g = N_DIRECT + Ind(g)
  BY Sizes, FirstDoubleIs DEF Ind, FileCluster
<1>2. Ind(g) \div RPC \in 0 .. N_INDIRECT - 1
  BY <1>1, RowBelow
<1>3. Ind(g) % RPC \in Position /\ Ind(g) = (Ind(g) \div RPC) * RPC + (Ind(g) % RPC)
      /\ Ind(g) \div RPC \in Nat
  BY <1>1, DivMod
<1> DEFINE a == (Ind(g) \div RPC) * RPC
           b == Ind(g) % RPC
<1>4. a \in Nat /\ b \in Nat /\ Ind(g) = a + b
  BY <1>3, Sizes DEF Position
<1> HIDE DEF a, b
<1>5. g = N_DIRECT + a + b
  BY <1>1, <1>4, Sizes
<1>6. QED
  BY <1>2, <1>3, <1>5 DEF a, b

LEMMA DoublePart ==
  ASSUME NEW g \in FileCluster, ~ (g < FirstDouble)
  PROVE  /\ Dbl(g) \div RPC \in Position /\ Dbl(g) % RPC \in Position
         /\ g = FirstDouble + (Dbl(g) \div RPC) * RPC + (Dbl(g) % RPC)
<1>1. Dbl(g) \in Nat /\ Dbl(g) < RPC * RPC /\ RPC \in Nat /\ g = FirstDouble + Dbl(g)
  BY Sizes, FirstDoubleIs DEF Dbl, FileCluster
<1>2. Dbl(g) \div RPC \in Position
  BY <1>1, RowBelow DEF Position
<1>3. Dbl(g) % RPC \in Position /\ Dbl(g) = (Dbl(g) \div RPC) * RPC + (Dbl(g) % RPC)
      /\ Dbl(g) \div RPC \in Nat
  BY <1>1, DivMod
<1> DEFINE a == (Dbl(g) \div RPC) * RPC
           b == Dbl(g) % RPC
<1>4. a \in Nat /\ b \in Nat /\ Dbl(g) = a + b
  BY <1>3, Sizes DEF Position
<1> HIDE DEF a, b
<1>5. g = FirstDouble + a + b
  BY <1>1, <1>4, FirstDoubleIs
<1>6. QED
  BY <1>2, <1>3, <1>5 DEF a, b

\* What soGetFileCluster answers, part by part, and where it reads.
LEMMA GetDirect ==
  ASSUME NEW z, NEW g, g < N_DIRECT
  PROVE  Readable(z, g) /\ GetFileCluster(z, g) = z.d[g]
  BY DEF Readable, Path, GetFileCluster

LEMMA GetSingle ==
  ASSUME NEW z \in States, NEW g \in FileCluster, ~ (g < N_DIRECT), g < FirstDouble,
         NEW c, c = z.i1[Ind(g) \div RPC]
  PROVE  /\ c = NULL_CLUSTER => Readable(z, g) /\ GetFileCluster(z, g) = NULL_CLUSTER
         /\ c # NULL_CLUSTER => (Readable(z, g) <=> Written(z, c))
                                /\ GetFileCluster(z, g) = z.disk[c][Ind(g) % RPC]
  BY SinglePart DEF Readable, Path, GetFileCluster, Refs, NoRefs, Written

LEMMA GetDouble ==
  ASSUME NEW z \in States, NEW g \in FileCluster, ~ (g < FirstDouble)
  PROVE  /\ z.i2 = NULL_CLUSTER => Readable(z, g) /\ GetFileCluster(z, g) = NULL_CLUSTER
         /\ z.i2 # NULL_CLUSTER /\ ~ Written(z, z.i2) => ~ Readable(z, g)
         /\ z.i2 # NULL_CLUSTER /\ Written(z, z.i2) =>
              LET c == z.disk[z.i2][Dbl(g) \div RPC] IN
              /\ c = NULL_CLUSTER => Readable(z, g) /\ GetFileCluster(z, g) = NULL_CLUSTER
              /\ c # NULL_CLUSTER => (Readable(z, g) <=> Written(z, c))
                                     /\ GetFileCluster(z, g) = z.disk[c][Dbl(g) % RPC]
<1>1. Dbl(g) \div RPC \in Position /\ Dbl(g) % RPC \in Position /\ ~ (g < N_DIRECT)
  BY DoublePart, FirstDoubleIs, Sizes DEF FileCluster
<1>2. \A p \in Position : NoRefs[p] = NULL_CLUSTER
  BY DEF NoRefs
<1>3. GetFileCluster(z, g) = Refs(z, Refs(z, z.i2)[Dbl(g) \div RPC])[Dbl(g) % RPC]
  BY <1>1 DEF GetFileCluster
<1>4. Path(z, g) = ({z.i2} \cup IF z.i2 = NULL_CLUSTER \/ z.disk[z.i2] = Unwritten THEN {}
                                ELSE {z.disk[z.i2][Dbl(g) \div RPC]}) \ {NULL_CLUSTER}
  BY <1>1 DEF Path
<1>5. CASE z.i2 = NULL_CLUSTER
  BY <1>1, <1>2, <1>3, <1>4, <1>5 DEF Readable, Refs
<1>6. CASE z.i2 # NULL_CLUSTER /\ ~ Written(z, z.i2)
  BY <1>4, <1>6 DEF Readable, Written
<1>7. CASE z.i2 # NULL_CLUSTER /\ Written(z, z.i2)
  <2> DEFINE c == z.disk[z.i2][Dbl(g) \div RPC]
  <2>1. GetFileCluster(z, g) = Refs(z, c)[Dbl(g) % RPC]
    BY <1>3, <1>7 DEF Refs
  <2>2. Path(z, g) = {z.i2, c} \ {NULL_CLUSTER}
    BY <1>4, <1>7 DEF Written
  <2>3. Readable(z, g) <=> (c # NULL_CLUSTER => Written(z, c))
    BY <1>7, <2>2 DEF Readable, Written
  <2>4. QED
    BY <1>1, <1>2, <1>7, <2>1, <2>3 DEF Refs
<1>8. QED
  BY <1>5, <1>6, <1>7

-----------------------------------------------------------------------------
(* soAllocFileCluster *)

AllocDone(z, y, g) == y = [z EXCEPT !.undefined = TRUE] \/ AllocGood(z, y, g)

LEMMA AllocIndirectGood ==
  ASSUME NEW z, Sound(z), Counts(z), z.err = "OK", NEW g \in FileCluster,
         ~ (g < N_DIRECT), g < FirstDouble,
         Readable(z, g) => GetFileCluster(z, g) = NULL_CLUSTER,
         NEW y, y = AllocIndirect(z, Ind(g))
  PROVE  AllocDone(z, y, g)
<1> DEFINE k == Ind(g) \div RPC
           p == Ind(g) % RPC
           w == AllocCluster(z)
<1>1. z \in States
  BY DEF Sound
<1>2. k \in 0 .. N_INDIRECT - 1 /\ p \in Position /\ g = N_DIRECT + k * RPC + p
  BY SinglePart
<1>3. z.i1[k] \in OptCluster
  BY <1>1, <1>2, Fields
<1>4. CASE z.i1[k] # NULL_CLUSTER
  <2> DEFINE c == z.i1[k]
  <2>1. c \in Cluster /\ IsRef(z, c)
    BY <1>2, <1>3, <1>4, ClusterType DEF IsRef
  <2>2. Holds(z, -2, k) /\ At(z, -2, k) = c
    BY <1>2, <1>4, HoldsSingle, AtInode
  <2>3. ASSUME c = z.i2 PROVE FALSE
    <3>1. Holds(z, -3, 0) /\ At(z, -3, 0) = c
      BY <1>4, <2>3, HoldsDouble, AtInode
    <3>2. QED
      BY <2>2, <3>1 DEF Sound
  <2>4. Written(z, c) => z.disk[c][p] = NULL_CLUSTER
    BY <1>1, <1>4, GetSingle
  <2>5. Locates(z, g, c, p)
    BY <1>2, <2>2 DEF Locates
  <2>6. y = AllocIn(z, c, p)
    BY <1>4 DEF AllocIndirect
  <2> HIDE DEF c, p
  <2>7. QED
    BY <1>2, <2>1, <2>3, <2>4, <2>5, <2>6, AllocInGood DEF AllocDone
<1>5. CASE z.i1[k] = NULL_CLUSTER /\ z.free = {}
  <2>1. y = w
    BY <1>1, <1>5, AllocClusterIs DEF AllocIndirect
  <2>2. QED
    BY <1>5, <2>1, NoSpace DEF AllocDone
<1>6. CASE z.i1[k] = NULL_CLUSTER /\ z.free # {}
  <2>1. ~ Threw(w)
    BY <1>1, <1>6, AllocClusterIs
  <2>2. y = AllocInNew(NewSingle(w, k), w.ret, p, 2)
    BY <1>6, <2>1 DEF AllocIndirect, NewSingle
  <2> HIDE DEF k, p, w
  <2>3. w = AllocCluster(z)
    BY DEF w
  <2>4. QED
    BY <1>2, <1>6, <2>2, <2>3, AllocSingleNewGood DEF AllocDone
<1>7. QED
  BY <1>4, <1>5, <1>6

LEMMA AllocDoubleGood ==
  ASSUME NEW z, Sound(z), Counts(z), z.err = "OK", NEW g \in FileCluster,
         ~ (g < FirstDouble),
         Readable(z, g) => GetFileCluster(z, g) = NULL_CLUSTER,
         NEW y, y = AllocDoubleIndirect(z, Dbl(g))
  PROVE  AllocDone(z, y, g)
<1> DEFINE k == Dbl(g) \div RPC
           p == Dbl(g) % RPC
           top == AllocCluster(z)
<1>1. z \in States
  BY DEF Sound
<1>2. k \in Position /\ p \in Position /\ g = FirstDouble + k * RPC + p
  BY DoublePart
<1>3. z.i2 \in OptCluster
  BY <1>1, Fields
<1>4. Extends(z, z) /\ Flags(z, z)
  BY DEF Extends, Flags
<1>5. ~ Threw(z)
  BY DEF Threw
<1>6. CASE z.i2 # NULL_CLUSTER
  <2> DEFINE e == z.i2
  <2>1. e \in Cluster /\ IsRef(z, e)
    BY <1>3, <1>6, ClusterType DEF IsRef
  <2>2. CASE ~ Written(z, e)
    <3>1. y = [z EXCEPT !.undefined = TRUE]
      BY <1>5, <1>6, <2>2 DEF AllocDoubleIndirect, Written
    <3>2. QED
      BY <3>1 DEF AllocDone
  <2>3. CASE Written(z, e) /\ z.disk[e][k] # NULL_CLUSTER
    <3> DEFINE c == z.disk[e][k]
    <3>1. z.disk[e] \in [Position -> OptCluster]
      BY <1>1, <2>1, <2>3, Fields DEF Written, Array
    <3>2. c \in Cluster /\ Middle(z, c) /\ IsRef(z, c)
      BY <1>2, <1>6, <2>3, <3>1, ClusterType DEF Middle, IsRef
    <3>3. Holds(z, z.i2, k) /\ At(z, z.i2, k) = c
      BY <1>2, <2>1, <2>3, HoldsIn
    <3>4. c # z.i2
      <4>1. Holds(z, -3, 0) /\ At(z, -3, 0) = e
        BY <1>6, HoldsDouble, AtInode
      <4>2. QED
        BY <2>1, <3>3, <4>1, ClusterType DEF Sound
    <3>5. Written(z, c) => z.disk[c][p] = NULL_CLUSTER
      BY <1>1, <1>6, <2>3, GetDouble
    <3>6. Locates(z, g, c, p)
      BY <1>2, <3>3 DEF Locates
    <3>7. y = AllocIn(z, c, p)
      BY <1>5, <1>6, <2>3 DEF AllocDoubleIndirect, Written
    <3> HIDE DEF c, p
    <3>8. QED
      BY <1>2, <3>2, <3>4, <3>5, <3>6, <3>7, AllocInGood DEF AllocDone
  <2>4. CASE Written(z, e) /\ z.disk[e][k] = NULL_CLUSTER /\ z.free = {}
    <3>1. y = top
      BY <1>1, <1>5, <1>6, <2>4, AllocClusterIs DEF AllocDoubleIndirect, Written
    <3>2. QED
      BY <2>4, <3>1, NoSpace DEF AllocDone
  <2>5. CASE Written(z, e) /\ z.disk[e][k] = NULL_CLUSTER /\ z.free # {}
    <3>1. ~ Threw(top)
      BY <1>1, <2>5, AllocClusterIs
    <3>2. Fresh(z, e) = z.disk[e]
      BY <2>5 DEF Fresh
    <3>3. y = AllocInNew(Write(top, e, Added(z, e, k, top.ret)), top.ret, p, 2)
      BY <1>5, <1>6, <2>5, <3>1, <3>2 DEF AllocDoubleIndirect, Written, Added
    <3>4. Fresh(z, e)[k] = NULL_CLUSTER /\ 2 = (IF Written(z, e) THEN 2 ELSE 3) /\ 2 \in Int
      BY <2>5, <3>2
    <3>5. Whole(z) => \A m, q : Bare(z, m, q) => m = -3
      BY DEF Whole
    <3> DEFINE x == Write(top, e, Added(z, e, k, top.ret))
    <3>6. top = AllocCluster(z) /\ x = Write(top, e, Added(z, e, k, top.ret))
          /\ y = AllocInNew(x, top.ret, p, 2) /\ e = z.i2
      BY <3>3
    <3> HIDE DEF top, x, k, p, e
    <3>7. AllocGood(z, y, g)
      BY <1>2, <1>4, <2>1, <2>5, <3>4, <3>5, <3>6, AllocMiddleNewGood
    <3>8. QED
      BY <3>7 DEF AllocDone
  <2>6. QED
    BY <2>2, <2>3, <2>4, <2>5
<1>7. CASE z.i2 = NULL_CLUSTER /\ z.free = {}
  <2>1. Threw(top)
    BY <1>1, <1>7, AllocClusterIs
  <2>2. y = top
    BY <1>7, <2>1 DEF AllocDoubleIndirect
  <2>3. QED
    BY <1>7, <2>2, NoSpace DEF AllocDone
<1>8. CASE z.i2 = NULL_CLUSTER /\ z.free # {}
  <2> DEFINE w == NewDouble(top)
             e == top.ret
             v == AllocCluster(w)
             x == Write(v, e, Added(w, e, k, v.ret))
  <2>1. ~ Threw(top) /\ e \in Cluster /\ e \in z.free
    BY <1>1, <1>8, AllocClusterIs
  <2>2. Links(z, w, -3, 0, e) /\ w.csize = z.csize /\ Flags(z, w) /\ w.i2 = e
    BY <1>1, <1>8, AllocDoubleLinks
  <2>3. w.err = "OK" /\ ~ Threw(w)
    BY <2>2 DEF Flags, Threw
  <2>4. Extends(z, w)
    BY <2>2, LinkExtends
  <2>5. ~ Written(w, e) /\ Fresh(w, e) = NoRefs /\ NoRefs[k] = NULL_CLUSTER
    <3>1. ~ Written(w, e)
      BY <1>1, <2>1, <2>2, LinkWritten, ClusterType DEF Sound
    <3>2. QED
      BY <1>2, <3>1 DEF Fresh, NoRefs
  <2>6. Counts(w)
    <3>1. RefNode(z, -3)
      BY DEF RefNode
    <3>2. Owed(w) = Owed(z)
      BY <2>2, <3>1, LinkCount DEF Owed
    <3>3. BareBelow(w)
      BY <2>1, <2>2, <2>5, ClusterType DEF BareBelow
    <3>4. QED
      BY <1>8, <3>2, <3>3 DEF Counts
  <2>7. \A m, q : Holds(w, m, q) /\ ~ Holds(z, m, q) => RefNode(w, m)
    BY <2>2, LinkHolds DEF RefNode
  <2>8. Whole(z) => \A m, q : Bare(w, m, q) => m = -3
    BY <2>2, LinkBare DEF Whole
  <2>9. NoRefs # Unwritten
    BY NoRefsArray, ArrayWritten
  <2>10. CASE w.free = {}
    <3>1. Threw(v)
      BY <2>3, <2>4, <2>10, AllocClusterIs DEF Extends, Sound
    <3>2. y = v
      BY <1>8, <2>1, <2>3, <2>5, <2>9, <3>1 DEF AllocDoubleIndirect, NewDouble
    <3> HIDE DEF w, v
    <3>3. AllocGood(z, y, g)
      BY <1>8, <2>2, <2>3, <2>4, <2>6, <2>7, <2>10, <3>2, HalfWay DEF v
    <3>4. QED
      BY <3>3 DEF AllocDone
  <2>11. CASE w.free # {}
    <3>1. ~ Threw(v)
      BY <2>3, <2>4, <2>11, AllocClusterIs DEF Extends, Sound
    <3>2. y = AllocInNew(Write(v, w.i2, [NoRefs EXCEPT ![k] = v.ret]), v.ret, p, 3)
      BY <1>8, <2>1, <2>3, <2>5, <2>9, <3>1 DEF AllocDoubleIndirect, NewDouble
    <3>3. y = AllocInNew(x, v.ret, p, 3)
      BY <2>2, <2>5, <3>2 DEF Added
    <3>4. Fresh(w, e)[k] = NULL_CLUSTER /\ 3 = (IF Written(w, e) THEN 2 ELSE 3) /\ 3 \in Int
      BY <2>5
    <3>5. v = AllocCluster(w) /\ x = Write(v, e, Added(w, e, k, v.ret)) /\ e = w.i2
      BY <2>2
    <3> HIDE DEF w, v, x, e, k, p
    <3>6. AllocGood(z, y, g)
      BY <1>2, <1>8, <2>1, <2>2, <2>3, <2>4, <2>6, <2>7, <2>8, <2>11, <3>3, <3>4, <3>5,
         AllocMiddleNewGood
    <3>7. QED
      BY <3>6 DEF AllocDone
  <2>12. QED
    BY <2>10, <2>11
<1>9. QED
  BY <1>6, <1>7, <1>8

LEMMA AllocFileClusterGood ==
  ASSUME NEW z, Sound(z), Counts(z), z.err = "OK", NEW g \in FileCluster,
         Readable(z, g) => GetFileCluster(z, g) = NULL_CLUSTER,
         NEW y, y = AllocFileCluster(z, g)
  PROVE  AllocDone(z, y, g)
<1>1. CASE g < N_DIRECT
  <2>1. g \in 0 .. N_DIRECT - 1 /\ z.d[g] = NULL_CLUSTER /\ y = AllocDirect(z, g)
    BY <1>1, GetDirect, Sizes, FirstDoubleIs DEF FileCluster, AllocFileCluster
  <2>2. QED
    BY <2>1, AllocDirectGood DEF AllocDone
<1>2. CASE ~ (g < N_DIRECT) /\ g < FirstDouble
  BY <1>2, AllocIndirectGood DEF AllocFileCluster
<1>3. CASE ~ (g < N_DIRECT) /\ ~ (g < FirstDouble)
  BY <1>3, AllocDoubleGood DEF AllocFileCluster
<1>4. CASE g < N_DIRECT /\ ~ (g < FirstDouble)
  BY <1>4, Sizes, FirstDoubleIs DEF FileCluster
<1>5. QED
  BY <1>1, <1>2, <1>3, <1>4

-----------------------------------------------------------------------------
(* Cutting places off the tree *)

\* D: the places cut, with all that is below them; S: the clusters freed.
Without(z, c, D) == [p \in Position |-> IF <<c, p>> \in D THEN NULL_CLUSTER ELSE z.disk[c][p]]
Closed(z, D) ==
  /\ \A n, p : <<n, p>> \in D => Holds(z, n, p)
  /\ \A n, p, q : <<n, p>> \in D /\ RefNode(z, n) /\ Holds(z, At(z, n, p), q)
                    => <<At(z, n, p), q>> \in D
From(z, D, S) == \A c \in S : \E n, p : <<n, p>> \in D /\ At(z, n, p) = c
Cut(z, y, D, S) ==
  /\ y \in States /\ y.free = z.free \cup S
  /\ \A p \in 0 .. N_DIRECT - 1 : y.d[p] = IF <<-1, p>> \in D THEN NULL_CLUSTER ELSE z.d[p]
  /\ \A p \in 0 .. N_INDIRECT - 1 : y.i1[p] = IF <<-2, p>> \in D THEN NULL_CLUSTER ELSE z.i1[p]
  /\ y.i2 = IF <<-3, 0>> \in D THEN NULL_CLUSTER ELSE z.i2
  /\ \A c \in Cluster : y.disk[c] = IF c \in S \/ ~ Written(z, c) THEN Unwritten
                                    ELSE Without(z, c, D)

LEMMA CutWritten ==
  ASSUME NEW z, Sound(z), NEW y, NEW D, NEW S, Cut(z, y, D, S), NEW c \in Cluster
  PROVE  /\ Written(y, c) <=> Written(z, c) /\ c \notin S
         /\ Written(y, c) => \A p \in Position :
              y.disk[c][p] = IF <<c, p>> \in D THEN NULL_CLUSTER ELSE z.disk[c][p]
<1>1. z \in States
  BY DEF Sound
<1>2. y.disk[c] = IF c \in S \/ ~ Written(z, c) THEN Unwritten ELSE Without(z, c, D)
  BY DEF Cut
<1>3. Written(z, c) => z.disk[c] \in [Position -> OptCluster]
  BY <1>1, Fields DEF Written, Array
<1>4. Written(z, c) => Without(z, c, D) \in [Position -> OptCluster]
  BY <1>3 DEF Without, OptCluster
<1>5. Written(z, c) => Without(z, c, D) # Unwritten
  BY <1>4, ArrayWritten
<1>6. \A p \in Position : Without(z, c, D)[p] = IF <<c, p>> \in D THEN NULL_CLUSTER ELSE z.disk[c][p]
  BY DEF Without
<1>7. QED
  BY <1>2, <1>5, <1>6 DEF Written

\* What is freed was at a place cut.
LEMMA FreedCut ==
  ASSUME NEW z, Sound(z), NEW D, NEW S, Closed(z, D), From(z, D, S),
         NEW k, NEW r, Holds(z, k, r), At(z, k, r) \in S
  PROVE  <<k, r>> \in D
<1>1. PICK n, p : <<n, p>> \in D /\ At(z, n, p) = At(z, k, r)
  BY DEF From
<1>2. Holds(z, n, p)
  BY <1>1 DEF Closed
<1>3. n = k /\ p = r
  BY <1>1, <1>2 DEF Sound
<1>4. QED
  BY <1>1, <1>3

\* A reference cluster is one before, and one still unless its place was cut.
LEMMA CutIsRef ==
  ASSUME NEW z, Sound(z), NEW y, NEW D, NEW S, Cut(z, y, D, S), Closed(z, D), From(z, D, S),
         NEW m \in Cluster
  PROVE  /\ IsRef(y, m) => IsRef(z, m)
         /\ \A k, r : Holds(z, k, r) /\ RefNode(z, k) /\ At(z, k, r) = m /\ <<k, r>> \notin D
                        => IsRef(y, m)
<1>1. z \in States /\ y \in States
  BY DEF Sound, Cut
<1>2. m # NULL_CLUSTER
  BY ClusterType
<1>3. \A p \in 0 .. N_INDIRECT - 1 :
        y.i1[p] = IF <<-2, p>> \in D THEN NULL_CLUSTER ELSE z.i1[p]
  BY DEF Cut
<1>4. y.i2 = IF <<-3, 0>> \in D THEN NULL_CLUSTER ELSE z.i2
  BY DEF Cut
<1>5. z.i2 # NULL_CLUSTER => z.i2 \in Cluster /\ Holds(z, -3, 0) /\ At(z, -3, 0) = z.i2
  BY <1>1, Fields, ClusterType, HoldsDouble, AtInode
<1>6. ASSUME Middle(y, m) PROVE Middle(z, m)
  <2>1. y.i2 = z.i2 /\ z.i2 \in Cluster
    BY <1>4, <1>5, <1>6 DEF Middle
  <2>2. PICK k \in Position : y.disk[z.i2][k] = m
    BY <1>6, <2>1 DEF Middle
  <2>3. Written(y, z.i2)
    BY <1>6, <2>1 DEF Middle
  <2>4. Written(z, z.i2) /\ z.disk[z.i2][k] = m
    <3>1. /\ Written(y, z.i2) <=> Written(z, z.i2) /\ z.i2 \notin S
          /\ Written(y, z.i2) => \A p \in Position :
               y.disk[z.i2][p] = IF <<z.i2, p>> \in D THEN NULL_CLUSTER ELSE z.disk[z.i2][p]
      BY <2>1, CutWritten
    <3>2. QED
      BY <1>2, <2>2, <2>3, <3>1
  <2>5. QED
    BY <2>1, <2>4, ClusterType DEF Middle
<1>7. IsRef(y, m) => IsRef(z, m)
  BY <1>2, <1>3, <1>4, <1>6 DEF IsRef
<1>8. ASSUME NEW k, NEW r, Holds(z, k, r), RefNode(z, k), At(z, k, r) = m, <<k, r>> \notin D
      PROVE  IsRef(y, m)
  <2>1. CASE k = -2
    BY <1>3, <1>8, <2>1, HoldsSingle, AtInode DEF IsRef
  <2>2. CASE k = -3
    BY <1>4, <1>8, <2>2, HoldsDouble, AtInode DEF IsRef
  <2>3. CASE k = z.i2
    <3>1. k \in Cluster
      BY <1>1, <1>8, <2>3, NodeType, Fields, ClusterType, Sizes DEF NULL_CLUSTER
    <3>2. z.i2 # NULL_CLUSTER
      BY <2>3, <3>1, ClusterType
    <3>3. <<-3, 0>> \notin D
      BY <1>5, <1>8, <2>3, <3>2, Zenon DEF Closed, RefNode
    <3>4. y.i2 = z.i2 /\ z.i2 \notin S
      <4>1. z.i2 \notin S
        BY <1>5, <3>2, <3>3, FreedCut
      <4>2. QED
        BY <1>4, <3>3, <4>1
    <3>5. Written(z, k) /\ r \in Position /\ z.disk[k][r] = m
      BY <1>8, <3>1, HoldsIn
    <3>6. Written(y, k) /\ y.disk[k][r] = m
      BY <1>8, <2>3, <3>1, <3>4, <3>5, CutWritten
    <3>7. QED
      BY <2>3, <3>2, <3>4, <3>5, <3>6 DEF IsRef, Middle
  <2>4. QED
    BY <1>8, <2>1, <2>2, <2>3 DEF RefNode
<1>9. QED
  BY <1>7, <1>8

\* The tree after a cut: without the places cut.
LEMMA CutHolds ==
  ASSUME NEW z, Sound(z), NEW y, NEW D, NEW S, Cut(z, y, D, S), Closed(z, D), From(z, D, S)
  PROVE  \A m, q : /\ Holds(y, m, q) <=> Holds(z, m, q) /\ <<m, q>> \notin D
                   /\ Holds(y, m, q) => At(y, m, q) = At(z, m, q)
<1>1. z \in States /\ y \in States
  BY DEF Sound, Cut
<1>2. ASSUME NEW q PROVE /\ Holds(y, -1, q) <=> Holds(z, -1, q) /\ <<-1, q>> \notin D
                         /\ Holds(y, -1, q) => At(y, -1, q) = At(z, -1, q)
  <2>1. q \in 0 .. N_DIRECT - 1 => y.d[q] = IF <<-1, q>> \in D THEN NULL_CLUSTER ELSE z.d[q]
    BY DEF Cut
  <2>2. QED
    BY <2>1, HoldsDirect, AtInode
<1>3. ASSUME NEW q PROVE /\ Holds(y, -2, q) <=> Holds(z, -2, q) /\ <<-2, q>> \notin D
                         /\ Holds(y, -2, q) => At(y, -2, q) = At(z, -2, q)
  <2>1. q \in 0 .. N_INDIRECT - 1 => y.i1[q] = IF <<-2, q>> \in D THEN NULL_CLUSTER ELSE z.i1[q]
    BY DEF Cut
  <2>2. QED
    BY <2>1, HoldsSingle, AtInode
<1>4. ASSUME NEW q PROVE /\ Holds(y, -3, q) <=> Holds(z, -3, q) /\ <<-3, q>> \notin D
                         /\ Holds(y, -3, q) => At(y, -3, q) = At(z, -3, q)
  <2>1. y.i2 = IF <<-3, 0>> \in D THEN NULL_CLUSTER ELSE z.i2
    BY DEF Cut
  <2>2. QED
    BY <2>1, HoldsDouble, AtInode
<1>5. ASSUME NEW m \in Cluster, NEW q
      PROVE /\ Holds(y, m, q) <=> Holds(z, m, q) /\ <<m, q>> \notin D
            /\ Holds(y, m, q) => At(y, m, q) = At(z, m, q)
  <2>1. /\ Written(y, m) <=> Written(z, m) /\ m \notin S
        /\ Written(y, m) => \A p \in Position :
             y.disk[m][p] = IF <<m, p>> \in D THEN NULL_CLUSTER ELSE z.disk[m][p]
    BY CutWritten
  <2>2. IsRef(y, m) => IsRef(z, m)
    BY CutIsRef
  <2>3. Holds(y, m, q) => Holds(z, m, q) /\ <<m, q>> \notin D /\ At(y, m, q) = At(z, m, q)
    BY <2>1, <2>2, HoldsIn
  <2>4. ASSUME Holds(z, m, q), <<m, q>> \notin D PROVE Holds(y, m, q)
    <3>1. IsRef(z, m) /\ Written(z, m) /\ q \in Position /\ z.disk[m][q] # NULL_CLUSTER
      BY <2>4, HoldsIn
    <3>2. PICK k, r : Holds(z, k, r) /\ RefNode(z, k) /\ At(z, k, r) = m
      BY <1>1, <3>1, RefHeld
    <3>3. <<k, r>> \notin D
      BY <2>4, <3>2 DEF Closed
    <3>4. m \notin S
      BY <3>2, <3>3, FreedCut
    <3>5. IsRef(y, m)
      BY <3>2, <3>3, CutIsRef
    <3>6. QED
      BY <2>1, <2>4, <3>1, <3>4, <3>5, HoldsIn
  <2>5. QED
    BY <2>3, <2>4
<1>6. ASSUME NEW m, NEW q
      PROVE /\ Holds(y, m, q) <=> Holds(z, m, q) /\ <<m, q>> \notin D
            /\ Holds(y, m, q) => At(y, m, q) = At(z, m, q)
  <2>1. CASE m \in {-1, -2, -3} \/ m \in Cluster
    BY <1>2, <1>3, <1>4, <1>5, <2>1
  <2>2. CASE ~ (m \in {-1, -2, -3} \/ m \in Cluster)
    BY <2>2, NodeType
  <2>3. QED
    BY <2>1, <2>2
<1>7. QED
  BY <1>6

LEMMA CutSound ==
  ASSUME NEW z, Sound(z), NEW y, NEW D, NEW S, Cut(z, y, D, S), Closed(z, D), From(z, D, S)
  PROVE  Sound(y)
<1>1. y \in States /\ y.free = z.free \cup S /\ y.free \in SUBSET Cluster
  BY Fields DEF Cut
<1>2. ASSUME NEW c \in y.free PROVE ~ Written(y, c)
  <2>1. c \in Cluster /\ (Written(y, c) => Written(z, c) /\ c \notin S)
    BY <1>1, CutWritten
  <2>2. QED
    BY <1>1, <2>1 DEF Sound
<1>3. \A m, q : Holds(y, m, q) => Holds(z, m, q) /\ <<m, q>> \notin D /\ At(y, m, q) = At(z, m, q)
  BY CutHolds
<1>4. ASSUME NEW m, NEW q, Holds(y, m, q) PROVE At(y, m, q) \notin y.free
  <2>1. Holds(z, m, q) /\ At(z, m, q) \notin S /\ At(y, m, q) = At(z, m, q)
    BY <1>3, <1>4, FreedCut
  <2>2. QED
    BY <1>1, <2>1 DEF Sound
<1>5. ASSUME NEW n, NEW p, NEW m, NEW q, Holds(y, n, p), Holds(y, m, q), At(y, n, p) = At(y, m, q)
      PROVE  n = m /\ p = q
  <2>1. Holds(z, n, p) /\ Holds(z, m, q) /\ At(z, n, p) = At(z, m, q)
    BY <1>3, <1>5
  <2>2. QED
    BY <2>1 DEF Sound
<1>6. QED
  BY <1>1, <1>2, <1>4, <1>5 DEF Sound

LEMMA CutRefNode ==
  ASSUME NEW z, Sound(z), NEW y, NEW D, NEW S, Cut(z, y, D, S), Closed(z, D), From(z, D, S),
         NEW m, NEW q, Holds(y, m, q)
  PROVE  RefNode(y, m) <=> RefNode(z, m)
<1>1. y.i2 = IF <<-3, 0>> \in D THEN NULL_CLUSTER ELSE z.i2
  BY DEF Cut
<1>2. m # NULL_CLUSTER
  BY NodeType, ClusterType, Sizes DEF NULL_CLUSTER
<1>3. Holds(z, m, q) /\ <<m, q>> \notin D
  BY CutHolds
<1>4. <<-3, 0>> \in D => m # z.i2
  <2>1. SUFFICES ASSUME <<-3, 0>> \in D, m = z.i2 PROVE FALSE
    OBVIOUS
  <2>2. At(z, -3, 0) = m /\ RefNode(z, -3)
    BY <2>1, AtInode DEF RefNode
  <2>3. QED
    BY <1>3, <2>1, <2>2 DEF Closed
<1>5. QED
  BY <1>1, <1>2, <1>4 DEF RefNode

LEMMA CutBare ==
  ASSUME NEW z, Sound(z), NEW y, NEW D, NEW S, Cut(z, y, D, S), Closed(z, D), From(z, D, S),
         NEW m, NEW q
  PROVE  /\ Bare(y, m, q) <=> Bare(z, m, q) /\ <<m, q>> \notin D
         /\ Counts1(y, m, q) <=> Counts1(z, m, q) /\ <<m, q>> \notin D
<1>1. z \in States
  BY DEF Sound
<1>2. /\ Holds(y, m, q) <=> Holds(z, m, q) /\ <<m, q>> \notin D
      /\ Holds(y, m, q) => At(y, m, q) = At(z, m, q)
  BY CutHolds
<1>3. Holds(y, m, q) => (RefNode(y, m) <=> RefNode(z, m))
  BY CutRefNode
<1>4. Holds(y, m, q) => (Written(y, At(z, m, q)) <=> Written(z, At(z, m, q)))
  <2>1. SUFFICES ASSUME Holds(y, m, q)
                 PROVE  Written(y, At(z, m, q)) <=> Written(z, At(z, m, q))
    OBVIOUS
  <2>2. At(z, m, q) \in Cluster /\ At(z, m, q) \notin S
    BY <1>1, <1>2, <2>1, HoldsCluster, FreedCut
  <2>3. QED
    BY <2>2, CutWritten
<1>5. Bare(y, m, q) <=> Bare(z, m, q) /\ <<m, q>> \notin D
  BY <1>2, <1>3, <1>4 DEF Bare
<1>6. QED
  BY <1>2, <1>5 DEF Counts1

LEMMA CutCount ==
  ASSUME NEW z, Sound(z), NEW y, NEW D, NEW S, Cut(z, y, D, S), Closed(z, D), From(z, D, S)
  PROVE  /\ Counted(y) = Counted(z) \ D
         /\ Cardinality(Counted(y)) = Cardinality(Counted(z)) - Cardinality(Counted(z) \cap D)
<1>1. z \in States /\ y \in States
  BY DEF Sound, Cut
<1>2. \A m, q : Counts1(y, m, q) <=> Counts1(z, m, q) /\ <<m, q>> \notin D
  BY CutBare
<1>3. Counted(y) \subseteq Counted(z) \ D
  BY <1>1, <1>2, CountedPair, InCounted
<1>4. Counted(z) \ D \subseteq Counted(y)
  BY <1>1, <1>2, CountedPair, InCounted
<1>5. Counted(y) = Counted(z) \ D
  BY <1>3, <1>4
<1>6. QED
  BY <1>5, CountedFinite, FS_Difference

-----------------------------------------------------------------------------
(* What a call of soFreeFileClusters may do to the tree *)

\* Places are cut, and as long as no allocation has run out of space half way no
\* cluster is lost, and none before file cluster ffcn is cut.
Trims(z, y, ffcn) ==
  /\ Sound(y)
  /\ \A m, q : Holds(y, m, q) => Holds(z, m, q) /\ At(y, m, q) = At(z, m, q)
  /\ Whole(z) => /\ Whole(y) /\ (Complete(z) => Complete(y))
                 /\ \A g, m, q : g < ffcn /\ Holds(z, m, q) /\ Locates(z, g, m, q)
                                   => Holds(y, m, q)

\* What is cut is freed, and is of no file cluster before ffcn.
Spares(z, D, S, ffcn) ==
  \A n, p : <<n, p>> \in D => /\ At(z, n, p) \in S
                              /\ \A g : Locates(z, g, n, p) => ~ (g < ffcn)

LEMMA CutTrims ==
  ASSUME NEW z, Sound(z), NEW y, NEW D, NEW S, Cut(z, y, D, S), Closed(z, D), From(z, D, S),
         NEW ffcn, Whole(z) => Spares(z, D, S, ffcn)
  PROVE  Trims(z, y, ffcn)
<1>1. Sound(y)
  BY CutSound
<1>2. \A m, q : /\ Holds(y, m, q) <=> Holds(z, m, q) /\ <<m, q>> \notin D
                /\ Holds(y, m, q) => At(y, m, q) = At(z, m, q)
  BY CutHolds, Zenon
<1>3. Whole(z) => Whole(y)
  <2>1. ASSUME NEW m, NEW q PROVE Bare(y, m, q) => Bare(z, m, q)
    BY CutBare
  <2>2. QED
    BY <2>1 DEF Whole
<1>4. ASSUME Whole(z), Complete(z) PROVE Complete(y)
  <2>1. SUFFICES ASSUME NEW c \in Cluster, c \notin y.free
                 PROVE  \E n, p : Holds(y, n, p) /\ At(y, n, p) = c
    BY DEF Complete
  <2>2. c \notin z.free /\ c \notin S
    BY <2>1 DEF Cut
  <2>3. PICK n, p : Holds(z, n, p) /\ At(z, n, p) = c
    BY <1>4, <2>2 DEF Complete
  <2>4. <<n, p>> \notin D
    BY <1>4, <2>2, <2>3 DEF Spares
  <2>5. QED
    BY <1>2, <2>3, <2>4
<1>5. ASSUME Whole(z), NEW g, NEW m, NEW q, g < ffcn, Holds(z, m, q), Locates(z, g, m, q)
      PROVE  Holds(y, m, q)
  BY <1>2, <1>5 DEF Spares
<1>6. QED
  BY <1>1, <1>2, <1>3, <1>4, <1>5 DEF Trims

\* A place that is left is of the file cluster it was of.
LEMMA LocatesEarlier ==
  ASSUME NEW z, Sound(z), NEW y, NEW ffcn, Trims(z, y, ffcn), NEW m, NEW q, Holds(y, m, q),
         NEW g, Locates(z, g, m, q)
  PROVE  Locates(y, g, m, q)
<1>1. z \in States /\ y \in States
  BY DEF Sound, Trims
<1>2. CASE m = -1
  <2>1. \A k, r : Holds(z, k, r) => At(z, k, r) # -1
    BY <1>1, HoldsCluster, ClusterType
  <2>2. q = g
    BY <1>2, <2>1 DEF Locates
  <2>3. QED
    BY <1>2, <2>2 DEF Locates
<1>3. CASE m # -1
  <2>1. PICK k, r : Holds(z, k, r) /\ At(z, k, r) = m
    BY <1>3 DEF Locates
  <2>2. m \in Cluster
    BY <1>1, <2>1, HoldsCluster
  <2>3. IsRef(y, m)
    BY <2>2, HoldsIn
  <2>4. PICK n, p : Holds(y, n, p) /\ RefNode(y, n) /\ At(y, n, p) = m
    BY <1>1, <2>2, <2>3, RefHeld
  <2>5. Holds(z, n, p) /\ At(z, n, p) = m
    BY <2>4 DEF Trims
  <2>6. \A i, j : Holds(z, i, j) /\ At(z, i, j) = m => i = n /\ j = p
    BY <2>5 DEF Sound
  <2>7. ASSUME n = z.i2 PROVE n = y.i2
    <3>1. n # -2 /\ n # -3
      BY <1>1, <2>7, Fields, ClusterType, Sizes DEF OptCluster, NULL_CLUSTER
    <3>2. QED
      BY <2>4, <3>1 DEF RefNode
  <2>8. QED
    BY <1>3, <2>4, <2>6, <2>7 DEF Locates
<1>4. QED
  BY <1>2, <1>3

LEMMA TrimsTrans ==
  ASSUME NEW z, Sound(z), NEW x, NEW y, NEW ffcn, Trims(z, x, ffcn), Trims(x, y, ffcn)
  PROVE  Trims(z, y, ffcn)
<1>1. ASSUME Whole(z), NEW g, NEW m, NEW q, g < ffcn, Holds(z, m, q), Locates(z, g, m, q)
      PROVE  Holds(y, m, q)
  <2>1. Holds(x, m, q) /\ Whole(x)
    BY <1>1 DEF Trims
  <2>2. Locates(x, g, m, q)
    BY <1>1, <2>1, LocatesEarlier
  <2>3. QED
    BY <1>1, <2>1, <2>2 DEF Trims
<1>2. QED
  BY <1>1 DEF Trims

-----------------------------------------------------------------------------
(* What the routines of soFreeFileClusters write *)

SameInode(z, y) == y.d = z.d /\ y.i1 = z.i1 /\ y.i2 = z.i2
Quiet(z, y) == y.ret = z.ret /\ Flags(z, y)
Freed(z, S, k) == [FreeSet(z, S) EXCEPT !.csize = @ - k]
After(z, S, b) == IF b \in S THEN Unwritten ELSE z.disk[b]

FreedTo(z, S, k, y) ==
  /\ y \in States /\ y.free = z.free \cup S /\ y.csize = z.csize - k
  /\ SameInode(z, y) /\ Quiet(z, y)
  /\ \A b \in Cluster : y.disk[b] = After(z, S, b)

LEMMA FreedIs ==
  ASSUME NEW z \in States, NEW S \in SUBSET Cluster, NEW k \in Int, NEW y, y = Freed(z, S, k)
  PROVE  FreedTo(z, S, k, y)
<1> DEFINE a == [b \in Cluster |-> After(z, S, b)]
<1>1. a \in [Cluster -> Array]
  BY Fields DEF After, Array
<1>2. y = [z EXCEPT !.free = @ \cup S, !.disk = a, !.csize = @ - k]
  BY DEF Freed, FreeSet, States, After
<1>3. z.csize - k \in Int /\ z.free \cup S \in SUBSET Cluster
  BY Fields
<1>4. \A b \in Cluster : a[b] = After(z, S, b)
  OBVIOUS
<1> HIDE DEF a
<1>5. y \in States /\ y.free = z.free \cup S /\ y.csize = z.csize - k /\ y.disk = a
      /\ SameInode(z, y) /\ Quiet(z, y)
  BY <1>1, <1>2, <1>3 DEF States, SameInode, Quiet, Flags
<1>6. QED
  BY <1>4, <1>5 DEF FreedTo

WroteTo(z, c, a, y) ==
  /\ y \in States /\ y.free = z.free /\ y.csize = z.csize
  /\ SameInode(z, y) /\ Quiet(z, y)
  /\ \A b \in Cluster : y.disk[b] = IF b = c THEN a ELSE z.disk[b]

LEMMA WriteIs ==
  ASSUME NEW z \in States, NEW c \in Cluster, NEW a \in Array, NEW y, y = Write(z, c, a)
  PROVE  WroteTo(z, c, a, y)
<1> DEFINE e == [z.disk EXCEPT ![c] = a]
<1>1. e \in [Cluster -> Array] /\ \A b \in Cluster : e[b] = IF b = c THEN a ELSE z.disk[b]
  BY Fields
<1>2. y = [z EXCEPT !.disk = e]
  BY ClusterType DEF Write
<1> HIDE DEF e
<1>3. y \in States /\ y.free = z.free /\ y.csize = z.csize /\ y.disk = e
      /\ SameInode(z, y) /\ Quiet(z, y)
  BY <1>1, <1>2 DEF States, SameInode, Quiet, Flags
<1>4. QED
  BY <1>1, <1>3 DEF WroteTo

\* Written to cluster NULL_CLUSTER, the inode table is hit and the file is not.
LEMMA WriteNullIs ==
  ASSUME NEW z \in States, NEW a, NEW y, y = Write(z, NULL_CLUSTER, a)
  PROVE  /\ y \in States /\ y.free = z.free /\ y.csize = z.csize
         /\ SameInode(z, y) /\ Quiet(z, y) /\ y.disk = z.disk
  BY DEF Write, States, SameInode, Quiet, Flags

SetD(z, a) == [z EXCEPT !.d = a]
SetI1(z, i) == [z EXCEPT !.i1[i] = NULL_CLUSTER]
SetI2(z) == [z EXCEPT !.i2 = NULL_CLUSTER]

LEMMA SetDIs ==
  ASSUME NEW z \in States, NEW a \in [0 .. N_DIRECT - 1 -> OptCluster], NEW y, y = SetD(z, a)
  PROVE  /\ y \in States /\ y.free = z.free /\ y.csize = z.csize /\ Quiet(z, y)
         /\ y.disk = z.disk /\ y.d = a /\ y.i1 = z.i1 /\ y.i2 = z.i2
  BY DEF SetD, States, Quiet, Flags

LEMMA SetI1Is ==
  ASSUME NEW z \in States, NEW i \in 0 .. N_INDIRECT - 1, NEW y, y = SetI1(z, i)
  PROVE  /\ y \in States /\ y.free = z.free /\ y.csize = z.csize /\ Quiet(z, y)
         /\ y.disk = z.disk /\ y.d = z.d /\ y.i1 = [z.i1 EXCEPT ![i] = NULL_CLUSTER]
         /\ y.i2 = z.i2
<1> DEFINE a == [z.i1 EXCEPT ![i] = NULL_CLUSTER]
<1>1. a \in [0 .. N_INDIRECT - 1 -> OptCluster]
  BY Fields DEF OptCluster
<1>2. y = [z EXCEPT !.i1 = a]
  BY DEF SetI1
<1> HIDE DEF a
<1>3. /\ y \in States /\ y.free = z.free /\ y.csize = z.csize /\ Quiet(z, y)
      /\ y.disk = z.disk /\ y.d = z.d /\ y.i1 = a /\ y.i2 = z.i2
  BY <1>1, <1>2 DEF States, Quiet, Flags
<1>4. QED
  BY <1>3 DEF a

LEMMA SetI2Is ==
  ASSUME NEW z \in States, NEW y, y = SetI2(z)
  PROVE  /\ y \in States /\ y.free = z.free /\ y.csize = z.csize /\ Quiet(z, y)
         /\ y.disk = z.disk /\ y.d = z.d /\ y.i1 = z.i1 /\ y.i2 = NULL_CLUSTER
  BY DEF SetI2, States, Quiet, Flags, OptCluster

-----------------------------------------------------------------------------
(* Their cuts *)

LEMMA WithoutNone ==
  ASSUME NEW z \in States, NEW b \in Cluster, Written(z, b), NEW D,
         \A p \in Position : <<b, p>> \notin D
  PROVE  Without(z, b, D) = z.disk[b]
  BY Fields DEF Without, Written, Array

\* An array of references, and one below a node.
LEMMA HeldIs ==
  ASSUME NEW z \in States, NEW c \in Cluster, Written(z, c)
  PROVE  /\ z.disk[c] \in [Position -> OptCluster]
         /\ \A p : p \in Held(z.disk[c]) <=> p \in Position /\ z.disk[c][p] # NULL_CLUSTER
         /\ Held(z.disk[c]) \subseteq Position
         /\ \A p \in Held(z.disk[c]) : z.disk[c][p] \in Cluster
         /\ IsRef(z, c) => \A p : p \in Held(z.disk[c]) <=> Holds(z, c, p)
<1>1. z.disk[c] \in [Position -> OptCluster]
  BY Fields DEF Written, Array
<1>2. \A p : p \in Held(z.disk[c]) <=> p \in Position /\ z.disk[c][p] # NULL_CLUSTER
  BY <1>1 DEF Held
<1>3. IsRef(z, c) => \A p : p \in Held(z.disk[c]) <=> Holds(z, c, p)
  BY <1>2, HoldsIn
<1>4. QED
  BY <1>1, <1>2, <1>3, ClusterType

Freeing(a, P) == {a[p] : p \in P}
RefFreeing(z, c, P) == {c} \cup Freeing(z.disk[c], P)
Cells(n, P) == {n} \X P
RefCells(z, n, p, c) == {<<n, p>>} \cup Cells(c, Held(z.disk[c]))

LEMMA DirectCut ==
  ASSUME NEW z, Sound(z), NEW P \in SUBSET Held(z.d), NEW S, S = Freeing(z.d, P),
         NEW k \in Int, NEW y, y = SetD(Freed(z, S, k), Clear(z.d, P)),
         NEW D, D = Cells(-1, P)
  PROVE  /\ Cut(z, y, D, S) /\ Closed(z, D) /\ From(z, D, S)
         /\ y.csize = z.csize - k /\ Quiet(z, y) /\ y.i1 = z.i1 /\ y.i2 = z.i2
<1>1. z \in States /\ z.d \in [0 .. N_DIRECT - 1 -> OptCluster]
  BY Fields DEF Sound
<1>2. \A p : p \in Held(z.d) <=> Holds(z, -1, p)
  BY <1>1, HoldsDirect DEF Held
<1>3. \A n, p : <<n, p>> \in D <=> n = -1 /\ p \in P
  BY DEF Cells
<1>4. \A p \in P : p \in 0 .. N_DIRECT - 1 /\ z.d[p] \in Cluster
  BY <1>1, ClusterType DEF Held
<1>5. S \in SUBSET Cluster
  BY <1>4 DEF Freeing
<1>6. Clear(z.d, P) \in [0 .. N_DIRECT - 1 -> OptCluster]
      /\ \A p \in 0 .. N_DIRECT - 1 : Clear(z.d, P)[p] = IF p \in P THEN NULL_CLUSTER ELSE z.d[p]
  BY <1>1 DEF Clear, OptCluster
<1> DEFINE x == Freed(z, S, k)
           a == Clear(z.d, P)
<1>7. a \in [0 .. N_DIRECT - 1 -> OptCluster] /\ y = SetD(x, a) /\ x = Freed(z, S, k)
  BY <1>6
<1> HIDE DEF x, a
<1>8. FreedTo(z, S, k, x)
  BY <1>1, <1>5, <1>7, FreedIs
<1>9. /\ x \in States /\ x.free = z.free \cup S /\ x.csize = z.csize - k
      /\ SameInode(z, x) /\ Quiet(z, x)
      /\ \A b \in Cluster : x.disk[b] = After(z, S, b)
  BY <1>8 DEF FreedTo
<1>10. /\ y \in States /\ y.free = x.free /\ y.csize = x.csize /\ Quiet(x, y)
      /\ y.disk = x.disk /\ y.d = a /\ y.i1 = x.i1 /\ y.i2 = x.i2
  BY <1>7, <1>9, SetDIs
<1>11. Closed(z, D)
  <2>1. ~ RefNode(z, -1)
    BY <1>1, Fields, ClusterType, Sizes DEF RefNode, OptCluster, NULL_CLUSTER
  <2>2. QED
    BY <1>2, <1>3, <2>1 DEF Closed
<1>12. From(z, D, S)
  BY <1>3, AtInode DEF From, Freeing
<1>13. ASSUME NEW b \in Cluster
       PROVE  y.disk[b] = IF b \in S \/ ~ Written(z, b) THEN Unwritten ELSE Without(z, b, D)
  <2>1. Written(z, b) => Without(z, b, D) = z.disk[b]
    BY <1>1, <1>3, WithoutNone, ClusterType
  <2>2. y.disk[b] = After(z, S, b)
    BY <1>9, <1>10
  <2>3. QED
    BY <2>1, <2>2 DEF After, Written
<1>14. \A p \in 0 .. N_DIRECT - 1 : y.d[p] = IF <<-1, p>> \in D THEN NULL_CLUSTER ELSE z.d[p]
  BY <1>3, <1>6, <1>10 DEF a
<1>15. y.i1 = z.i1 /\ y.i2 = z.i2 /\ y.free = z.free \cup S /\ y.csize = z.csize - k /\ Quiet(z, y)
  BY <1>9, <1>10 DEF SameInode, Quiet, Flags
<1>16. <<-3, 0>> \notin D /\ \A p : <<-2, p>> \notin D
  BY <1>3
<1>17. \A p \in 0 .. N_INDIRECT - 1 : y.i1[p] = IF <<-2, p>> \in D THEN NULL_CLUSTER ELSE z.i1[p]
  BY <1>15, <1>16
<1>18. y.i2 = IF <<-3, 0>> \in D THEN NULL_CLUSTER ELSE z.i2
  BY <1>15, <1>16
<1>19. Cut(z, y, D, S)
  BY <1>10, <1>13, <1>14, <1>15, <1>17, <1>18, Zenon DEF Cut
<1>20. QED
  BY <1>11, <1>12, <1>15, <1>19

\* References freed in a reference cluster with no reference clusters below it.
LeafFreed(z, c, P, S, y) ==
  /\ y \in States /\ y.free = z.free \cup S /\ SameInode(z, y)
  /\ \A b \in Cluster : y.disk[b] = IF b = c THEN Clear(z.disk[c], P) ELSE After(z, S, b)

LEMMA LeafCut ==
  ASSUME NEW z, Sound(z), NEW c \in Cluster, IsRef(z, c), Written(z, c), c # z.i2,
         NEW P \in SUBSET Held(z.disk[c]), NEW S, S = Freeing(z.disk[c], P),
         NEW y, LeafFreed(z, c, P, S, y), NEW D, D = Cells(c, P)
  PROVE  Cut(z, y, D, S) /\ Closed(z, D) /\ From(z, D, S)
<1>1. z \in States
  BY DEF Sound
<1>2. /\ z.disk[c] \in [Position -> OptCluster] /\ P \subseteq Position
      /\ \A p : p \in Held(z.disk[c]) <=> Holds(z, c, p)
  BY <1>1, HeldIs
<1>3. \A n, p : <<n, p>> \in D <=> n = c /\ p \in P
  BY DEF Cells
<1>4. c \notin {-1, -2, -3}
  BY ClusterType
<1>5. ~ RefNode(z, c)
  BY <1>4 DEF RefNode
<1>6. Closed(z, D)
  BY <1>2, <1>3, <1>5 DEF Closed
<1>7. From(z, D, S)
  <2>1. ASSUME NEW b \in S PROVE \E p \in P : At(z, c, p) = b
    BY HoldsIn DEF Freeing
  <2>2. QED
    BY <1>3, <2>1 DEF From
<1>8. c \notin S
  <2>1. PICK k, r : Holds(z, k, r) /\ RefNode(z, k) /\ At(z, k, r) = c
    BY <1>1, RefHeld
  <2>2. c \in S => <<k, r>> \in D
    BY <1>6, <1>7, <2>1, FreedCut
  <2>3. QED
    BY <1>3, <1>5, <2>1, <2>2
<1>9. ASSUME NEW b \in Cluster
      PROVE  y.disk[b] = IF b \in S \/ ~ Written(z, b) THEN Unwritten ELSE Without(z, b, D)
  <2>1. CASE b = c
    <3>1. y.disk[b] = Clear(z.disk[c], P)
      BY <2>1 DEF LeafFreed
    <3>2. Clear(z.disk[c], P) = [p \in Position |-> IF p \in P THEN NULL_CLUSTER ELSE z.disk[c][p]]
      BY <1>2 DEF Clear
    <3>3. Without(z, c, D) = [p \in Position |-> IF p \in P THEN NULL_CLUSTER ELSE z.disk[c][p]]
      BY <1>3 DEF Without
    <3>4. QED
      BY <1>8, <2>1, <3>1, <3>2, <3>3
  <2>2. CASE b # c
    <3>1. y.disk[b] = After(z, S, b)
      BY <2>2 DEF LeafFreed
    <3>2. Written(z, b) => Without(z, b, D) = z.disk[b]
      BY <1>1, <1>3, <2>2, WithoutNone
    <3>3. QED
      BY <3>1, <3>2 DEF After, Written
  <2>3. QED
    BY <2>1, <2>2
<1>10. <<-3, 0>> \notin D /\ (\A p : <<-2, p>> \notin D) /\ \A p : <<-1, p>> \notin D
  BY <1>3, <1>4
<1>11. y.d = z.d /\ y.i1 = z.i1 /\ y.i2 = z.i2 /\ y \in States /\ y.free = z.free \cup S
  BY DEF LeafFreed, SameInode
<1>12. /\ \A p \in 0 .. N_DIRECT - 1 : y.d[p] = IF <<-1, p>> \in D THEN NULL_CLUSTER ELSE z.d[p]
       /\ \A p \in 0 .. N_INDIRECT - 1 :
            y.i1[p] = IF <<-2, p>> \in D THEN NULL_CLUSTER ELSE z.i1[p]
       /\ y.i2 = IF <<-3, 0>> \in D THEN NULL_CLUSTER ELSE z.i2
  BY <1>10, <1>11
<1>13. Cut(z, y, D, S)
  BY <1>9, <1>11, <1>12, Zenon DEF Cut
<1>14. QED
  BY <1>6, <1>7, <1>13

\* A reference cluster c freed at place p of node n, and its references P.
RefFreed(z, n, p, c, P, S, y) ==
  /\ y \in States /\ y.free = z.free \cup S
  /\ y.d = z.d /\ y.i2 = z.i2
  /\ \A i \in 0 .. N_INDIRECT - 1 : y.i1[i] = IF n = -2 /\ i = p THEN NULL_CLUSTER ELSE z.i1[i]
  /\ \A b \in Cluster : y.disk[b] = IF b = n THEN Clear(z.disk[b], {p}) ELSE After(z, S, b)

LEMMA RefCut ==
  ASSUME NEW z, Sound(z), NEW n, n = -2 \/ n = z.i2, NEW p, Holds(z, n, p),
         NEW c, c = At(z, n, p), Written(z, c), NEW P \in SUBSET Held(z.disk[c]),
         NEW S, S = RefFreeing(z, c, P),
         NEW y, RefFreed(z, n, p, c, P, S, y), NEW D, D = RefCells(z, n, p, c)
  PROVE  Cut(z, y, D, S) /\ Closed(z, D) /\ From(z, D, S)
<1>1. z \in States
  BY DEF Sound
<1>2. RefNode(z, n) /\ n # -3 /\ n # -1
  BY <1>1, Fields, ClusterType, Sizes DEF RefNode, OptCluster, NULL_CLUSTER
<1>3. c \in Cluster /\ IsRef(z, c)
  BY <1>1, <1>2, HoldsCluster, HeldRef
<1>4. /\ z.disk[c] \in [Position -> OptCluster]
      /\ \A q : q \in Held(z.disk[c]) <=> Holds(z, c, q)
  BY <1>1, <1>3, HeldIs
<1>5. \A m, q : <<m, q>> \in D <=> (m = n /\ q = p) \/ (m = c /\ Holds(z, c, q))
  BY <1>4 DEF RefCells, Cells
<1>6. c \notin {-1, -2, -3}
  BY <1>3, ClusterType
<1>7. c # n /\ c # z.i2
  <2>1. z.i2 # NULL_CLUSTER => Holds(z, -3, 0) /\ At(z, -3, 0) = z.i2
    BY HoldsDouble, AtInode
  <2>2. c # z.i2
    <3>1. c # NULL_CLUSTER
      BY <1>3, ClusterType
    <3>2. QED
      BY <1>2, <2>1, <3>1 DEF Sound
  <2>3. QED
    BY <1>6, <2>2
<1>8. ~ RefNode(z, c)
  BY <1>6, <1>7 DEF RefNode
<1>9. Closed(z, D)
  <2>1. \A m, q : <<m, q>> \in D => Holds(z, m, q)
    BY <1>5
  <2>2. \A m, q, r : <<m, q>> \in D /\ RefNode(z, m) /\ Holds(z, At(z, m, q), r)
                       => <<At(z, m, q), r>> \in D
    BY <1>5, <1>8
  <2>3. QED
    BY <2>1, <2>2 DEF Closed
<1>10. From(z, D, S)
  <2>1. ASSUME NEW b \in S, b # c PROVE \E q \in P : At(z, c, q) = b
    BY <1>3, <2>1, HoldsIn DEF RefFreeing, Freeing
  <2>2. \A q \in P : <<c, q>> \in D
    BY <1>4, <1>5
  <2>3. <<n, p>> \in D
    BY <1>5
  <2>4. QED
    BY <2>1, <2>2, <2>3 DEF From
<1>11. n \in Cluster => n \notin S
  <2>1. SUFFICES ASSUME n \in Cluster, n \in S PROVE FALSE
    OBVIOUS
  <2>2. n = z.i2 /\ n # NULL_CLUSTER
    BY <2>1, ClusterType
  <2>3. Holds(z, -3, 0) /\ At(z, -3, 0) = n
    BY <2>2, HoldsDouble, AtInode
  <2>4. <<-3, 0>> \in D
    BY <1>9, <1>10, <2>1, <2>3, FreedCut
  <2>5. QED
    BY <1>2, <1>5, <1>6, <2>4
<1>12. ASSUME NEW b \in Cluster
       PROVE  y.disk[b] = IF b \in S \/ ~ Written(z, b) THEN Unwritten ELSE Without(z, b, D)
  <2>1. CASE b = n
    <3>1. y.disk[b] = Clear(z.disk[b], {p})
      BY <2>1 DEF RefFreed
    <3>2. Written(z, b)
      BY <2>1, HoldsIn
    <3>3. z.disk[b] \in [Position -> OptCluster]
      BY <1>1, <3>2, HeldIs
    <3>4. Clear(z.disk[b], {p}) = [q \in Position |-> IF q = p THEN NULL_CLUSTER ELSE z.disk[b][q]]
      BY <3>3 DEF Clear
    <3>5. \A q : <<b, q>> \in D <=> q = p
      BY <1>5, <1>7, <2>1
    <3>6. Without(z, b, D) = [q \in Position |-> IF q = p THEN NULL_CLUSTER ELSE z.disk[b][q]]
      BY <3>5 DEF Without
    <3>7. QED
      BY <1>11, <2>1, <3>1, <3>2, <3>4, <3>6
  <2>2. CASE b # n
    <3>1. y.disk[b] = After(z, S, b)
      BY <2>2 DEF RefFreed
    <3>2. Written(z, b) /\ b # c => Without(z, b, D) = z.disk[b]
      <4>1. b # c => \A q \in Position : <<b, q>> \notin D
        BY <1>5, <2>2
      <4>2. QED
        BY <1>1, <4>1, WithoutNone
    <3>3. c \in S
      BY DEF RefFreeing
    <3>4. QED
      BY <3>1, <3>2, <3>3 DEF After, Written
  <2>3. QED
    BY <2>1, <2>2
<1>13. <<-3, 0>> \notin D /\ (\A q : <<-2, q>> \in D <=> n = -2 /\ q = p) /\ \A q : <<-1, q>> \notin D
  BY <1>2, <1>5, <1>6
<1>14. y.d = z.d /\ y.i2 = z.i2 /\ y \in States /\ y.free = z.free \cup S
  BY DEF RefFreed
<1>15. /\ \A q \in 0 .. N_DIRECT - 1 : y.d[q] = IF <<-1, q>> \in D THEN NULL_CLUSTER ELSE z.d[q]
       /\ \A q \in 0 .. N_INDIRECT - 1 :
            y.i1[q] = IF <<-2, q>> \in D THEN NULL_CLUSTER ELSE z.i1[q]
       /\ y.i2 = IF <<-3, 0>> \in D THEN NULL_CLUSTER ELSE z.i2
  BY <1>13, <1>14 DEF RefFreed
<1>16. Cut(z, y, D, S)
  BY <1>12, <1>14, <1>15, Zenon DEF Cut
<1>17. QED
  BY <1>9, <1>10, <1>16

\* The whole tree of f.i2 given up, and the clusters S of it freed.
Top(z) == {q \in Place : Holds(z, q[1], q[2]) /\ (q[1] = -3 \/ q[1] = z.i2 \/ Middle(z, q[1]))}
TopFreed(z, S, y) ==
  /\ y \in States /\ y.free = z.free \cup S
  /\ y.d = z.d /\ y.i1 = z.i1 /\ y.i2 = NULL_CLUSTER
  /\ \A b \in Cluster : y.disk[b] = After(z, S, b)

LEMMA InTop ==
  ASSUME NEW z \in States, NEW m, NEW q
  PROVE  <<m, q>> \in Top(z) <=> Holds(z, m, q) /\ (m = -3 \/ m = z.i2 \/ Middle(z, m))
<1>1. Holds(z, m, q) => <<m, q>> \in Place
  BY HoldsCluster
<1>2. <<m, q>>[1] = m /\ <<m, q>>[2] = q
  OBVIOUS
<1>3. QED
  BY <1>1, <1>2 DEF Top

LEMMA TopCut ==
  ASSUME NEW z, Sound(z), z.i2 # NULL_CLUSTER, NEW S, z.i2 \in S,
         \A c \in Cluster : Middle(z, c) /\ Written(z, c) => c \in S,
         From(z, Top(z), S), NEW y, TopFreed(z, S, y)
  PROVE  Cut(z, y, Top(z), S) /\ Closed(z, Top(z))
<1> DEFINE D == Top(z)
<1>1. z \in States /\ z.i2 \in Cluster
  BY Fields, ClusterType DEF Sound
<1>2. \A m, q : <<m, q>> \in D <=> Holds(z, m, q) /\ (m = -3 \/ m = z.i2 \/ Middle(z, m))
  BY <1>1, InTop
<1> HIDE DEF D
<1>3. \A m : Middle(z, m) => m \in OptCluster
  <2>1. Written(z, z.i2) => z.disk[z.i2] \in [Position -> OptCluster]
    BY <1>1, HeldIs
  <2>2. QED
    BY <2>1 DEF Middle
<1>4. \A m : Middle(z, m) => m \notin {-1, -2, -3}
  BY <1>3, Sizes DEF OptCluster, Cluster, NULL_CLUSTER
<1>5. z.i2 \notin {-1, -2, -3}
  BY <1>1, ClusterType
<1>6. Closed(z, D)
  <2>1. \A m, q : <<m, q>> \in D => Holds(z, m, q)
    BY <1>2
  <2>2. ASSUME NEW m, NEW q, NEW r, <<m, q>> \in D, RefNode(z, m), Holds(z, At(z, m, q), r)
        PROVE  <<At(z, m, q), r>> \in D
    <3>1. CASE m = -3
      BY <1>2, <2>2, <3>1, AtInode
    <3>2. CASE m = z.i2
      <4>1. Holds(z, m, q)
        BY <1>2, <2>2
      <4>2. Written(z, z.i2) /\ q \in Position /\ z.disk[z.i2][q] = At(z, m, q)
        BY <1>1, <3>2, <4>1, HoldsIn
      <4>3. Middle(z, At(z, m, q))
        BY <4>2 DEF Middle
      <4>4. QED
        BY <1>2, <2>2, <4>3
    <3>3. CASE m = -2
      BY <1>2, <1>4, <1>5, <2>2, <3>3
    <3>4. QED
      BY <2>2, <3>1, <3>2, <3>3 DEF RefNode
  <2>3. QED
    BY <2>1, <2>2 DEF Closed
<1>7. ASSUME NEW b \in Cluster
      PROVE  y.disk[b] = IF b \in S \/ ~ Written(z, b) THEN Unwritten ELSE Without(z, b, D)
  <2>1. y.disk[b] = After(z, S, b)
    BY DEF TopFreed
  <2>2. ASSUME b \notin S, Written(z, b) PROVE Without(z, b, D) = z.disk[b]
    <3>1. b # z.i2 /\ ~ Middle(z, b) /\ b # -3
      BY <2>2, ClusterType
    <3>2. \A q \in Position : <<b, q>> \notin D
      BY <1>2, <3>1
    <3>3. QED
      BY <1>1, <2>2, <3>2, WithoutNone
  <2>3. QED
    BY <2>1, <2>2 DEF After, Written
<1>8. <<-3, 0>> \in D /\ (\A q : <<-2, q>> \notin D) /\ \A q : <<-1, q>> \notin D
  <2>1. Holds(z, -3, 0)
    BY HoldsDouble
  <2>2. QED
    BY <1>2, <1>4, <1>5, <2>1
<1>9. y.d = z.d /\ y.i1 = z.i1 /\ y.i2 = NULL_CLUSTER /\ y \in States /\ y.free = z.free \cup S
  BY DEF TopFreed
<1>10. /\ \A q \in 0 .. N_DIRECT - 1 : y.d[q] = IF <<-1, q>> \in D THEN NULL_CLUSTER ELSE z.d[q]
       /\ \A q \in 0 .. N_INDIRECT - 1 :
            y.i1[q] = IF <<-2, q>> \in D THEN NULL_CLUSTER ELSE z.i1[q]
       /\ y.i2 = IF <<-3, 0>> \in D THEN NULL_CLUSTER ELSE z.i2
  BY <1>8, <1>9
<1>11. Cut(z, y, D, S)
  BY <1>7, <1>9, <1>10, Zenon DEF Cut
<1>12. QED
  BY <1>6, <1>11 DEF D

-----------------------------------------------------------------------------
(* What a cut takes from the count *)

LEMMA HeldFinite ==
  ASSUME NEW n \in Nat, NEW a, DOMAIN a = 0 .. n - 1
  PROVE  /\ IsFiniteSet(Held(a)) /\ Cardinality(Held(a)) \in Nat
         /\ \A P \in SUBSET Held(a) : IsFiniteSet(P) /\ Cardinality(P) \in Nat
                                      /\ Cardinality(P) <= Cardinality(Held(a))
<1>1. IsFiniteSet(0 .. n - 1)
  BY FS_Interval
<1>2. IsFiniteSet(Held(a))
  BY <1>1, FS_Subset DEF Held
<1>3. QED
  BY <1>2, FS_Subset, FS_CardinalityType

LEMMA RowFinite ==
  ASSUME NEW z \in States, NEW c \in Cluster, Written(z, c)
  PROVE  /\ IsFiniteSet(Held(z.disk[c])) /\ Cardinality(Held(z.disk[c])) \in Nat
         /\ \A P \in SUBSET Held(z.disk[c]) : IsFiniteSet(P) /\ Cardinality(P) \in Nat
                                              /\ Cardinality(P) <= Cardinality(Held(z.disk[c]))
<1>1. DOMAIN z.disk[c] = 0 .. RPC - 1 /\ RPC \in Nat
  BY HeldIs, Sizes DEF Position
<1>2. QED
  BY <1>1, HeldFinite

\* As many places as positions.
LEMMA PlacesOf ==
  ASSUME NEW n, NEW P, IsFiniteSet(P)
  PROVE  IsFiniteSet(Cells(n, P)) /\ Cardinality(Cells(n, P)) = Cardinality(P)
<1>1. IsFiniteSet({n}) /\ Cardinality({n}) = 1
  BY FS_Singleton
<1>2. IsFiniteSet({n} \X P) /\ Cardinality({n} \X P) = 1 * Cardinality(P)
  BY <1>1, FS_Product
<1>3. Cardinality(P) \in Nat
  BY FS_CardinalityType
<1>4. QED
  BY <1>2, <1>3 DEF Cells

LEMMA LeafPlaces ==
  ASSUME NEW z \in States, NEW n, ~ RefNode(z, n), NEW P, IsFiniteSet(P),
         \A p \in P : Holds(z, n, p), NEW D, D = Cells(n, P)
  PROVE  D \subseteq Counted(z) /\ IsFiniteSet(D) /\ Cardinality(D) = Cardinality(P)
<1>1. \A p \in P : Counts1(z, n, p)
  BY DEF Counts1, Bare, RefNode
<1>2. \A p \in P : <<n, p>> \in Counted(z)
  BY <1>1, InCounted
<1>3. D \subseteq Counted(z)
  BY <1>2 DEF Cells
<1>4. IsFiniteSet(D) /\ Cardinality(D) = Cardinality(P)
  BY PlacesOf
<1>5. QED
  BY <1>3, <1>4

LEMMA RefPlaces ==
  ASSUME NEW z, Sound(z), NEW n, n = -2 \/ n = z.i2, NEW p, Holds(z, n, p),
         NEW c, c = At(z, n, p), Written(z, c), NEW D, D = RefCells(z, n, p, c)
  PROVE  /\ D \subseteq Counted(z) /\ IsFiniteSet(D)
         /\ Cardinality(D) = Cardinality(Held(z.disk[c])) + 1
         /\ c \in Cluster /\ IsRef(z, c) /\ ~ RefNode(z, c) /\ c # n
<1>1. z \in States
  BY DEF Sound
<1>2. RefNode(z, n) /\ n # -3
  BY <1>1, Fields, ClusterType, Sizes DEF RefNode, OptCluster, NULL_CLUSTER
<1>3. c \in Cluster /\ IsRef(z, c)
  BY <1>1, <1>2, HoldsCluster, HeldRef
<1>4. c \notin {-1, -2, -3}
  BY <1>3, ClusterType
<1>5. c # z.i2
  <2>1. SUFFICES ASSUME c = z.i2 PROVE FALSE
    OBVIOUS
  <2>2. Holds(z, -3, 0) /\ At(z, -3, 0) = c
    BY <1>3, <2>1, HoldsDouble, AtInode, ClusterType
  <2>3. QED
    BY <1>2, <2>2 DEF Sound
<1>6. ~ RefNode(z, c) /\ c # n
  BY <1>4, <1>5 DEF RefNode
<1>7. IsFiniteSet(Held(z.disk[c])) /\ \A q \in Held(z.disk[c]) : Holds(z, c, q)
  BY <1>1, <1>3, RowFinite, HeldIs
<1> DEFINE E == Cells(c, Held(z.disk[c]))
<1>8. E \subseteq Counted(z) /\ IsFiniteSet(E) /\ Cardinality(E) = Cardinality(Held(z.disk[c]))
  BY <1>1, <1>6, <1>7, LeafPlaces
<1>9. <<n, p>> \notin E
  BY <1>6 DEF Cells
<1>10. <<n, p>> \in Counted(z)
  BY <1>1, <1>2, InCounted DEF Counts1, Bare
<1>11. D = E \cup {<<n, p>>}
  BY DEF RefCells
<1> HIDE DEF E
<1>12. IsFiniteSet(D) /\ Cardinality(D) = Cardinality(E) + 1
  BY <1>8, <1>9, <1>11, FS_AddElement
<1>13. QED
  BY <1>3, <1>6, <1>8, <1>10, <1>11, <1>12

\* A cut of counted places away from f.i2 leaves the balance of csize as it is.
LEMMA CutCounts ==
  ASSUME NEW z, Sound(z), Counts(z), NEW y, NEW D, NEW S, Cut(z, y, D, S), Closed(z, D),
         From(z, D, S), D \subseteq Counted(z), NEW k \in Int, k = Cardinality(D),
         y.csize = z.csize - k
  PROVE  Counts(y) /\ Owed(y) = Owed(z) /\ y.i2 = z.i2
<1>1. z \in States /\ z.csize \in Int /\ z.i2 \in OptCluster
  BY Fields DEF Sound
<1>2. Cardinality(Counted(y)) = Cardinality(Counted(z)) - k
  <2>1. Counted(z) \cap D = D
    OBVIOUS
  <2>2. QED
    BY <2>1, CutCount
<1>3. Owed(y) = Owed(z)
  BY <1>1, <1>2, CountedFinite DEF Owed
<1>4. \A n, p : <<n, p>> \in D => Counts1(z, n, p)
  BY <1>1, InCounted
<1>5. <<-3, 0>> \notin D
  BY <1>4 DEF Counts1
<1>6. y.i2 = z.i2
  BY <1>5 DEF Cut
<1>7. z.i2 # NULL_CLUSTER => (Written(y, z.i2) <=> Written(z, z.i2))
  <2>1. SUFFICES ASSUME z.i2 # NULL_CLUSTER PROVE Written(y, z.i2) <=> Written(z, z.i2)
    OBVIOUS
  <2>2. z.i2 \in Cluster /\ Holds(z, -3, 0) /\ At(z, -3, 0) = z.i2
    BY <1>1, <2>1, ClusterType, HoldsDouble, AtInode
  <2>3. z.i2 \notin S
    BY <1>5, <2>2, FreedCut
  <2>4. QED
    BY <2>2, <2>3, CutWritten
<1>8. ASSUME NEW p, Bare(z, z.i2, p) PROVE Bare(y, z.i2, p)
  <2>1. <<z.i2, p>> \notin D
    BY <1>4, <1>8 DEF Counts1
  <2>2. QED
    BY <1>8, <2>1, CutBare
<1>9. BareBelow(z) => BareBelow(y)
  BY <1>6, <1>7, <1>8 DEF BareBelow
<1>10. Counts(y)
  BY <1>3, <1>6, <1>7, <1>9 DEF Counts
<1>11. QED
  BY <1>3, <1>6, <1>10

-----------------------------------------------------------------------------
(* The references a loop comes across before its count runs out *)

\* A set of numbers below n that is not empty has a largest one.
LEMMA LargestOf ==
  ASSUME NEW n \in Nat, NEW T \in SUBSET (0 .. n - 1), T # {}
  PROVE  \E m \in T : \A k \in T : k <= m
<1> DEFINE R == {n - 1 - k : k \in T}
<1>1. R \in SUBSET Nat /\ R # {}
  <2>1. PICK t \in T : TRUE
    OBVIOUS
  <2>2. n - 1 - t \in R
    BY <2>1
  <2>3. \A k \in T : n - 1 - k \in Nat
    OBVIOUS
  <2>4. QED
    BY <2>2, <2>3
<1>2. PICK r \in R : \A s \in R : r <= s
  BY <1>1, SmallestOf
<1>3. PICK m \in T : r = n - 1 - m
  OBVIOUS
<1>4. ASSUME NEW k \in T PROVE k <= m
  <2>1. r <= n - 1 - k
    BY <1>2
  <2>2. QED
    BY <1>3, <2>1
<1>5. QED
  BY <1>4

\* All of them, or all but the last when the count is short by one.
LEMMA FirstsIs ==
  ASSUME NEW n \in Nat, NEW a, DOMAIN a = 0 .. n - 1, NEW t \in Int,
         Cardinality(Held(a)) - 1 <= t
  PROVE  /\ Firsts(a, t) \subseteq Held(a)
         /\ Cardinality(Held(a)) <= t => Firsts(a, t) = Held(a)
         /\ Firsts(a, t) # Held(a) => /\ t = Cardinality(Held(a)) - 1
                                      /\ Cardinality(Firsts(a, t)) = Cardinality(Held(a)) - 1
<1> DEFINE H == Held(a)
           Below(p) == {q \in H : q <= p}
<1>1. IsFiniteSet(H) /\ Cardinality(H) \in Nat
      /\ \A P \in SUBSET H : IsFiniteSet(P) /\ Cardinality(P) \in Nat
                             /\ Cardinality(P) <= Cardinality(H)
  BY HeldFinite
<1>2. H \in SUBSET (0 .. n - 1)
  BY DEF Held
<1>3. Firsts(a, t) = {p \in H : Cardinality(Below(p)) <= t}
  BY DEF Firsts
<1>4. \A p : Below(p) \in SUBSET H
  OBVIOUS
<1>5. \A p : Cardinality(Below(p)) \in Nat /\ Cardinality(Below(p)) <= Cardinality(H)
  BY <1>1, <1>4
<1>6. ASSUME Cardinality(H) <= t PROVE Firsts(a, t) = H
  <2>1. \A p \in H : Cardinality(Below(p)) <= t
    BY <1>1, <1>5, <1>6
  <2>2. QED
    BY <1>3, <2>1
<1>7. ASSUME Firsts(a, t) # H
      PROVE  t = Cardinality(H) - 1 /\ Cardinality(Firsts(a, t)) = Cardinality(H) - 1
  <2>1. t = Cardinality(H) - 1
    BY <1>1, <1>6, <1>7
  <2>2. H # {}
    BY <1>3, <1>7
  <2>3. PICK m \in H : \A k \in H : k <= m
    BY <1>2, <2>2, LargestOf
  <2>4. Below(m) = H
    BY <2>3
  <2>5. ASSUME NEW p \in H, p # m PROVE Cardinality(Below(p)) <= t
    <3>1. IsFiniteSet(H \ {m}) /\ Cardinality(H \ {m}) = Cardinality(H) - 1
      BY <1>1, FS_RemoveElement
    <3>2. Below(p) \subseteq H \ {m}
      <4>1. p \in Int /\ m \in Int /\ p <= m
        BY <1>2, <2>3
      <4>2. ~ (m <= p)
        BY <2>5, <4>1
      <4>3. QED
        BY <4>2
    <3>3. Cardinality(Below(p)) <= Cardinality(H \ {m})
      BY <3>1, <3>2, FS_Subset
    <3>4. QED
      BY <2>1, <3>1, <3>3
  <2>6. Firsts(a, t) = H \ {m}
    <3>1. ~ (Cardinality(Below(m)) <= t)
      BY <1>1, <2>1, <2>4
    <3>2. QED
      BY <1>3, <2>5, <3>1
  <2>7. QED
    BY <1>1, <2>1, <2>6, FS_RemoveElement
<1>8. Firsts(a, t) \subseteq H
  BY <1>3
<1>9. QED
  BY <1>6, <1>7, <1>8

-----------------------------------------------------------------------------
(* File clusters of places *)

LEMMA LocatesDirect ==
  ASSUME NEW z, Sound(z), NEW g, NEW p, Locates(z, g, -1, p)
  PROVE  g = p
<1>1. \A k, r : Holds(z, k, r) => At(z, k, r) # -1
  BY HoldsCluster, ClusterType DEF Sound
<1>2. QED
  BY <1>1 DEF Locates

LEMMA LocatesSingle ==
  ASSUME NEW z, Sound(z), NEW i, Holds(z, -2, i), NEW g, NEW p, Locates(z, g, At(z, -2, i), p)
  PROVE  g = N_DIRECT + i * RPC + p
<1>1. \A k, r : Holds(z, k, r) /\ At(z, k, r) = At(z, -2, i) => k = -2 /\ r = i
  BY DEF Sound
<1>2. At(z, -2, i) # -1 /\ z.i2 # -2
  <2>1. z \in States
    BY DEF Sound
  <2>2. At(z, -2, i) \in Cluster /\ z.i2 \in OptCluster
    BY <2>1, HoldsCluster, Fields
  <2>3. QED
    BY <2>2, ClusterType, Sizes DEF OptCluster, NULL_CLUSTER
<1>3. ~ \E j : Holds(z, z.i2, j) /\ At(z, z.i2, j) = At(z, -2, i)
  BY <1>1, <1>2
<1>4. PICK j : /\ Holds(z, -2, j) /\ At(z, -2, j) = At(z, -2, i)
               /\ g = N_DIRECT + j * RPC + p
  BY <1>2, <1>3 DEF Locates
<1>5. QED
  BY <1>1, <1>4

LEMMA LocatesDouble ==
  ASSUME NEW z, Sound(z), NEW k, Holds(z, z.i2, k), NEW g, NEW p,
         Locates(z, g, At(z, z.i2, k), p)
  PROVE  g = FirstDouble + k * RPC + p
<1>1. \A n, r : Holds(z, n, r) /\ At(z, n, r) = At(z, z.i2, k) => n = z.i2 /\ r = k
  BY DEF Sound
<1>2. At(z, z.i2, k) # -1 /\ z.i2 # -2
  <2>1. z \in States
    BY DEF Sound
  <2>2. At(z, z.i2, k) \in Cluster /\ z.i2 \in OptCluster
    BY <2>1, HoldsCluster, Fields
  <2>3. QED
    BY <2>2, ClusterType, Sizes DEF OptCluster, NULL_CLUSTER
<1>3. ~ \E j : Holds(z, -2, j) /\ At(z, -2, j) = At(z, z.i2, k)
  BY <1>1, <1>2
<1>4. PICK j : /\ Holds(z, z.i2, j) /\ At(z, z.i2, j) = At(z, z.i2, k)
               /\ g = FirstDouble + j * RPC + p
  BY <1>2, <1>3 DEF Locates
<1>5. QED
  BY <1>1, <1>4

\* A place of a reference cluster is of no file cluster.
LEMMA LocatesNone ==
  ASSUME NEW z, Sound(z), NEW n, NEW p, Holds(z, n, p), RefNode(z, n), NEW g
  PROVE  ~ Locates(z, g, n, p)
<1>1. z \in States /\ n # -1
  BY Fields, ClusterType, Sizes DEF Sound, RefNode, OptCluster, NULL_CLUSTER
<1>2. ASSUME NEW k, NEW r, Holds(z, k, r), At(z, k, r) = n PROVE k = -3
  <2>1. n \in Cluster
    BY <1>1, <1>2, HoldsCluster
  <2>2. n = z.i2 /\ n # NULL_CLUSTER
    BY <2>1, ClusterType DEF RefNode
  <2>3. Holds(z, -3, 0) /\ At(z, -3, 0) = n
    BY <2>2, HoldsDouble, AtInode
  <2>4. QED
    BY <1>2, <2>3 DEF Sound
<1>3. z.i2 # -3
  BY <1>1, Fields, ClusterType, Sizes DEF OptCluster, NULL_CLUSTER
<1>4. QED
  BY <1>1, <1>2, <1>3 DEF Locates

-----------------------------------------------------------------------------
(* csize has its range *)

Places(z) == {q \in Place : Holds(z, q[1], q[2])}

LEMMA InPlaces ==
  ASSUME NEW z \in States
  PROVE  /\ \A n, p : <<n, p>> \in Places(z) <=> Holds(z, n, p)
         /\ \A q \in Places(z) : q = <<q[1], q[2]>> /\ Holds(z, q[1], q[2])
<1>1. \A n, p : Holds(z, n, p) => <<n, p>> \in Place
  BY HoldsCluster
<1>2. \A n, p : <<n, p>>[1] = n /\ <<n, p>>[2] = p
  OBVIOUS
<1>3. QED
  BY <1>1, <1>2 DEF Places, Place

\* One cluster to a place.
LEMMA PlacesInjective ==
  ASSUME NEW z, Sound(z), NEW T, \A q \in Places(z) : At(z, q[1], q[2]) \in T
  PROVE  [q \in Places(z) |-> At(z, q[1], q[2])] \in Injection(Places(z), T)
<1>1. z \in States
  BY DEF Sound
<1> DEFINE h == [q \in Places(z) |-> At(z, q[1], q[2])]
<1>2. ASSUME NEW q \in Places(z), NEW r \in Places(z), h[q] = h[r] PROVE q = r
  <2>1. /\ q = <<q[1], q[2]>> /\ Holds(z, q[1], q[2])
        /\ r = <<r[1], r[2]>> /\ Holds(z, r[1], r[2])
    BY <1>1, InPlaces
  <2>2. At(z, q[1], q[2]) = At(z, r[1], r[2])
    BY <1>2
  <2>3. q[1] = r[1] /\ q[2] = r[2]
    BY <2>1, <2>2 DEF Sound
  <2>4. QED
    BY <2>1, <2>3
<1>3. h \in [Places(z) -> T]
  OBVIOUS
<1>4. QED
  BY <1>2, <1>3 DEF Injection, IsInjective

LEMMA CountedPlaces ==
  ASSUME NEW z, Sound(z)
  PROVE  /\ Counted(z) \subseteq Places(z) /\ <<-3, 0>> \notin Counted(z)
         /\ z.i2 # NULL_CLUSTER => <<-3, 0>> \in Places(z)
         /\ Cardinality(Places(z)) <= CTotal
         /\ IsFiniteSet(Places(z)) /\ Cardinality(Places(z)) \in Nat
<1>1. z \in States
  BY DEF Sound
<1>2. Counted(z) \subseteq Places(z)
  BY DEF Counted, Places, Counts1
<1>3. <<-3, 0>> \notin Counted(z)
  BY <1>1, InCounted DEF Counts1
<1>4. z.i2 # NULL_CLUSTER => <<-3, 0>> \in Places(z)
  BY <1>1, InPlaces, HoldsDouble
<1>5. \A q \in Places(z) : At(z, q[1], q[2]) \in Cluster
  BY <1>1, InPlaces, HoldsCluster
<1>6. [q \in Places(z) |-> At(z, q[1], q[2])] \in Injection(Places(z), Cluster)
  BY <1>5, PlacesInjective
<1>7. IsFiniteSet(Cluster) /\ Cardinality(Cluster) = CTotal
  BY Sizes, FS_Interval DEF Cluster
<1>8. IsFiniteSet(Places(z)) /\ Cardinality(Places(z)) <= CTotal
  BY <1>6, <1>7, FS_Injection
<1>9. QED
  BY <1>2, <1>3, <1>4, <1>8, FS_CardinalityType

LEMMA SizeRange ==
  ASSUME NEW z, Sound(z), Counts(z)
  PROVE  z.csize \in 0 .. CTotal
<1>1. z.csize \in Int /\ CTotal \in Nat
  BY Fields, Sizes DEF Sound
<1>2. Cardinality(Counted(z)) \in Nat
  BY CountedFinite
<1>3. z.csize = Cardinality(Counted(z)) + Owed(z)
  BY <1>1, <1>2 DEF Owed
<1>4. Counted(z) \subseteq Places(z) /\ IsFiniteSet(Places(z))
      /\ Cardinality(Places(z)) \in Nat /\ Cardinality(Places(z)) <= CTotal
  BY CountedPlaces
<1>5. CASE Owed(z) = 0
  <2>1. Cardinality(Counted(z)) <= Cardinality(Places(z))
    BY <1>4, FS_Subset
  <2>2. QED
    BY <1>1, <1>2, <1>3, <1>4, <1>5, <2>1
<1>6. CASE Owed(z) = 1
  <2>1. z.i2 # NULL_CLUSTER
    BY <1>6 DEF Counts
  <2>2. <<-3, 0>> \in Places(z) /\ <<-3, 0>> \notin Counted(z)
    BY <2>1, CountedPlaces
  <2>3. Counted(z) \cup {<<-3, 0>>} \subseteq Places(z)
    BY <1>4, <2>2
  <2>4. Cardinality(Counted(z) \cup {<<-3, 0>>}) = Cardinality(Counted(z)) + 1
    BY <2>2, CountedFinite, FS_AddElement
  <2>5. Cardinality(Counted(z)) + 1 <= Cardinality(Places(z))
    BY <1>4, <2>3, <2>4, FS_Subset
  <2>6. QED
    BY <1>1, <1>2, <1>3, <1>4, <1>6, <2>5
<1>7. QED
  BY <1>5, <1>6 DEF Counts

-----------------------------------------------------------------------------
(* soFreeFileClusters: the references of the inode *)

LEMMA Less ==
  ASSUME NEW X, IsFiniteSet(X), NEW D \in SUBSET X, NEW Y \in SUBSET (X \ D)
  PROVE  /\ Cardinality(Y) \in Nat /\ Cardinality(D) \in Nat /\ Cardinality(X) \in Nat
         /\ Cardinality(Y) + Cardinality(D) <= Cardinality(X)
<1>1. IsFiniteSet(X \ D) /\ IsFiniteSet(D) /\ IsFiniteSet(Y)
  BY FS_Subset
<1>2. Cardinality(X \ D) = Cardinality(X) - Cardinality(X \cap D)
  BY FS_Difference
<1>3. X \cap D = D
  OBVIOUS
<1>4. Cardinality(Y) <= Cardinality(X \ D)
  BY <1>1, FS_Subset
<1>5. /\ Cardinality(Y) \in Nat /\ Cardinality(D) \in Nat /\ Cardinality(X) \in Nat
      /\ Cardinality(X \ D) \in Nat
  BY <1>1, FS_CardinalityType
<1>6. Cardinality(X \ D) = Cardinality(X) - Cardinality(D)
  <2>1. \A T : T = D => Cardinality(T) = Cardinality(D)
    OBVIOUS
  <2>2. Cardinality(X \cap D) = Cardinality(D)
    BY <1>3, <2>1
  <2>3. QED
    BY <1>2, <2>2
<1>7. QED
  BY <1>4, <1>5, <1>6

\* After a routine has returned, and where it goes by data nobody wrote.
Going(z, y, ffcn) == Trims(z, y, ffcn) /\ Counts(y) /\ Quiet(z, y)
Stuck(z, y) == /\ y \in States /\ y.undefined /\ y.csize \in 0 .. CTotal
               /\ y.ret = z.ret /\ y.err = z.err /\ y.short = z.short

\* The places not yet come to when the loop is at f.i1[i].
Rest1(z, i) == {q \in Counted(z) : /\ q[1] # -1 /\ ~ (q[1] = -2 /\ q[2] < i)
                                   /\ \A j \in 0 .. i - 1 : q[1] # z.i1[j]}
Enough1(w, i) == w.total \in Int /\ Cardinality(Rest1(w.z, i)) + Owed(w.z) <= w.total

LEMMA GoingCut ==
  ASSUME NEW z, Sound(z), NEW x, NEW ffcn, Going(z, x, ffcn), NEW y, NEW D, NEW S,
         Cut(x, y, D, S), Closed(x, D), From(x, D, S), D \subseteq Counted(x),
         NEW k \in Int, k = Cardinality(D), y.csize = x.csize - k, Quiet(x, y),
         Whole(x) => Spares(x, D, S, ffcn)
  PROVE  Going(z, y, ffcn) /\ Owed(y) = Owed(x) /\ Counted(y) = Counted(x) \ D
         /\ y.i2 = x.i2
<1>1. Sound(x) /\ Counts(x) /\ Trims(z, x, ffcn) /\ Quiet(z, x)
  BY DEF Going, Trims
<1>2. Trims(x, y, ffcn)
  BY <1>1, CutTrims
<1>3. Trims(z, y, ffcn)
  BY <1>1, <1>2, TrimsTrans
<1>4. Counts(y) /\ Owed(y) = Owed(x) /\ y.i2 = x.i2
  BY <1>1, CutCounts
<1>5. Counted(y) = Counted(x) \ D
  BY <1>1, CutCount
<1>6. Quiet(z, y)
  BY <1>1 DEF Quiet, Flags
<1>7. QED
  BY <1>3, <1>4, <1>5, <1>6 DEF Going

LEMMA GoingSelf ==
  ASSUME NEW z, Sound(z), Counts(z), NEW ffcn
  PROVE  Going(z, z, ffcn)
  BY DEF Going, Trims, Quiet, Flags

LEMMA FreeDirectGood ==
  ASSUME NEW z, Sound(z), Counts(z), NEW ffcn \in Nat,
         NEW w, w = [z |-> z, total |-> z.csize, return |-> FALSE],
         NEW x, x = FreeDirect(w, ffcn)
  PROVE  Going(z, x.z, ffcn) /\ Enough1(x, 0) /\ x.return = FALSE
<1> DEFINE H == Held(z.d)
           P == {p \in H : ffcn <= p}
           S == Freeing(z.d, P)
           D == Cells(-1, P)
           k == Cardinality(P)
           y == SetD(Freed(z, S, k), Clear(z.d, P))
<1>1. z \in States /\ z.csize \in Int /\ z.d \in [0 .. N_DIRECT - 1 -> OptCluster]
  BY Fields DEF Sound
<1>2. /\ IsFiniteSet(H) /\ Cardinality(H) \in Nat
      /\ \A T \in SUBSET H : IsFiniteSet(T) /\ Cardinality(T) \in Nat
  BY <1>1, HeldFinite, Sizes
<1>3. ~ RefNode(z, -1)
  BY <1>1, Fields, ClusterType, Sizes DEF RefNode, OptCluster, NULL_CLUSTER
<1>4. \A p \in H : Holds(z, -1, p) /\ p \in Nat
  <2>1. \A p \in H : p \in 0 .. N_DIRECT - 1 /\ z.d[p] # NULL_CLUSTER
    BY <1>1 DEF Held
  <2>2. QED
    BY <2>1, HoldsDirect
<1>5. Cells(-1, H) \subseteq Counted(z) /\ Cardinality(Cells(-1, H)) = Cardinality(H)
  BY <1>1, <1>2, <1>3, <1>4, LeafPlaces
<1>6. Owed(z) \in Int /\ z.csize = Cardinality(Counted(z)) + Owed(z)
      /\ IsFiniteSet(Counted(z)) /\ Cardinality(Counted(z)) \in Nat /\ 0 <= Owed(z)
  BY <1>1, CountedFinite DEF Owed, Counts
<1>7. Cardinality(H) <= z.csize
  <2>1. Cardinality(Cells(-1, H)) <= Cardinality(Counted(z))
    BY <1>5, <1>6, FS_Subset
  <2>2. QED
    BY <1>2, <1>5, <1>6, <2>1
<1>8. Firsts(z.d, z.csize) = H
  <2>1. DOMAIN z.d = 0 .. N_DIRECT - 1 /\ N_DIRECT \in Nat /\ Cardinality(H) - 1 <= z.csize
    BY <1>1, <1>2, <1>7, Sizes
  <2>2. QED
    BY <1>1, <1>7, <2>1, FirstsIs
<1>9. x.z = y /\ x.total = z.csize - Cardinality(H) /\ x.return = FALSE
  <2>1. P = {p \in Firsts(w.z.d, w.total) : p >= ffcn}
    BY <1>4, <1>8
  <2>2. y = [FreeAll(z, z.d, P) EXCEPT !.d = Clear(z.d, P)]
    BY DEF FreeAll, Freed, SetD, Freeing
  <2>3. FreeAll(z, z.d, P).d = z.d
    BY <1>1 DEF FreeAll, FreeSet, States
  <2>4. x = [w EXCEPT !.z = [FreeAll(w.z, w.z.d, P) EXCEPT !.d = Clear(@, P)],
                      !.total = @ - Cardinality(Firsts(w.z.d, w.total))]
    BY <2>1 DEF FreeDirect
  <2>5. x.z = y
    BY <2>2, <2>3, <2>4
  <2>6. x.total = z.csize - Cardinality(H)
    BY <1>8, <2>4
  <2>7. x.return = FALSE
    BY <2>4
  <2>8. QED
    BY <2>5, <2>6, <2>7
<1>10. P \in SUBSET H /\ k \in Int /\ k = Cardinality(D) /\ IsFiniteSet(P) /\ D \subseteq Counted(z)
       /\ y = SetD(Freed(z, S, k), Clear(z.d, P)) /\ S = Freeing(z.d, P) /\ D = Cells(-1, P)
  <2>1. P \in SUBSET H
    OBVIOUS
  <2>2. IsFiniteSet(P) /\ k \in Int /\ \A p \in P : Holds(z, -1, p)
    BY <1>2, <1>4, <2>1
  <2> HIDE DEF P
  <2>3. D \subseteq Counted(z) /\ Cardinality(D) = k
    BY <1>1, <1>3, <2>2, LeafPlaces
  <2>4. QED
    BY <2>1, <2>2, <2>3
<1>11. Spares(z, D, S, ffcn)
  <2>1. ASSUME NEW n, NEW p, <<n, p>> \in D
        PROVE  At(z, n, p) \in S /\ \A g : Locates(z, g, n, p) => ~ (g < ffcn)
    <3>1. n = -1 /\ p \in P /\ p \in Nat /\ ffcn <= p
      BY <1>4, <2>1 DEF Cells
    <3>2. At(z, n, p) \in S
      BY <3>1, AtInode DEF Freeing
    <3>3. \A g : Locates(z, g, n, p) => g = p
      BY <3>1, LocatesDirect
    <3>4. QED
      BY <3>1, <3>2, <3>3
  <2>2. QED
    BY <2>1 DEF Spares
<1> HIDE DEF P, S, D, k, y
<1>12. /\ Cut(z, y, D, S) /\ Closed(z, D) /\ From(z, D, S)
       /\ y.csize = z.csize - k /\ Quiet(z, y)
  BY <1>10, DirectCut
<1>13. Going(z, y, ffcn) /\ Owed(y) = Owed(z) /\ Counted(y) = Counted(z) \ D
  BY <1>10, <1>11, <1>12, GoingSelf, GoingCut
<1>14. Rest1(y, 0) \subseteq Counted(z) \ Cells(-1, H)
  BY <1>13 DEF Rest1, Cells
<1>15. Cardinality(Rest1(y, 0)) \in Nat
       /\ Cardinality(Rest1(y, 0)) + Cardinality(Cells(-1, H)) <= Cardinality(Counted(z))
  BY <1>5, <1>6, <1>14, Less
<1>16. Enough1(x, 0)
  BY <1>1, <1>2, <1>5, <1>6, <1>9, <1>13, <1>15 DEF Enough1
<1>17. QED
  BY <1>9, <1>13, <1>16

-----------------------------------------------------------------------------
(* soFreeFileClusters: the single indirection *)

LEMMA LeafGone ==
  ASSUME NEW z \in States, NEW c \in Cluster, Written(z, c), NEW P \in SUBSET Held(z.disk[c]),
         NEW y, y = FreeAll(z, z.disk[c], P)
  PROVE  FreedTo(z, Freeing(z.disk[c], P), Cardinality(P), y)
<1>1. Freeing(z.disk[c], P) \in SUBSET Cluster
  BY HeldIs DEF Freeing
<1>2. Cardinality(P) \in Int
  BY RowFinite
<1>3. y = Freed(z, Freeing(z.disk[c], P), Cardinality(P))
  BY DEF FreeAll, Freed, Freeing
<1>4. QED
  BY <1>1, <1>2, <1>3, FreedIs

LEMMA RefGone ==
  ASSUME NEW z \in States, NEW c \in Cluster, Written(z, c), NEW P \in SUBSET Held(z.disk[c]),
         NEW y, y = FreeOne(FreeAll(z, z.disk[c], P), c)
  PROVE  FreedTo(z, RefFreeing(z, c, P), Cardinality(P) + 1, y)
<1> DEFINE x == FreeAll(z, z.disk[c], P)
           S == Freeing(z.disk[c], P)
           k == Cardinality(P)
<1>1. FreedTo(z, S, k, x)
  BY LeafGone
<1>2. k \in Int
  BY RowFinite
<1>3. y = Freed(x, {c}, 1) /\ {c} \in SUBSET Cluster /\ 1 \in Int
  BY DEF FreeOne, Freed
<1> HIDE DEF x, S, k
<1>4. x \in States
  BY <1>1 DEF FreedTo
<1>5. FreedTo(x, {c}, 1, y)
  BY <1>3, <1>4, FreedIs
<1>6. RefFreeing(z, c, P) = {c} \cup S
  BY DEF RefFreeing, S
<1>7. y.csize = z.csize - (k + 1)
  BY <1>1, <1>2, <1>5, Fields DEF FreedTo
<1>8. \A b \in Cluster : y.disk[b] = After(z, RefFreeing(z, c, P), b)
  BY <1>1, <1>5, <1>6 DEF FreedTo, After
<1>9. /\ y \in States /\ y.free = z.free \cup RefFreeing(z, c, P)
      /\ SameInode(z, y) /\ Quiet(z, y)
  BY <1>1, <1>5, <1>6 DEF FreedTo, SameInode, Quiet, Flags
<1>10. QED
  BY <1>7, <1>8, <1>9 DEF FreedTo, k

Loop1(z, w, i, ffcn) ==
  \/ Going(z, w.z, ffcn) /\ Enough1(w, i)
  \/ Stuck(z, w.z) /\ w.return

\* Where the loop goes on.
LEMMA Rest1Later ==
  ASSUME NEW z \in States, NEW i \in Nat
  PROVE  Rest1(z, i + 1) \subseteq Rest1(z, i) /\ IsFiniteSet(Rest1(z, i))
         /\ Cardinality(Rest1(z, i)) \in Nat /\ Cardinality(Rest1(z, i + 1)) \in Nat
         /\ Cardinality(Rest1(z, i + 1)) <= Cardinality(Rest1(z, i))
<1>1. \A q \in Counted(z) : q[1] = -2 => q[2] \in Int
  BY CountedPair, HoldsSingle DEF Counts1
<1>2. Rest1(z, i + 1) \subseteq Rest1(z, i)
  BY <1>1 DEF Rest1
<1>3. Rest1(z, i) \subseteq Counted(z) /\ Rest1(z, i + 1) \subseteq Counted(z)
  BY DEF Rest1
<1>4. IsFiniteSet(Rest1(z, i)) /\ IsFiniteSet(Rest1(z, i + 1))
  BY <1>3, CountedFinite, FS_Subset
<1>5. QED
  BY <1>2, <1>4, FS_Subset, FS_CardinalityType

\* f.i1[i] and what is below it are places not yet come to.
LEMMA Rest1Here ==
  ASSUME NEW z, Sound(z), NEW i \in 0 .. N_INDIRECT - 1, NEW c, c = z.i1[i], c # NULL_CLUSTER,
         Written(z, c), NEW C, C = RefCells(z, -2, i, c)
  PROVE  /\ C \subseteq Rest1(z, i) /\ Cardinality(C) = Cardinality(Held(z.disk[c])) + 1
         /\ c \in Cluster /\ IsRef(z, c) /\ c # z.i2 /\ Holds(z, -2, i) /\ At(z, -2, i) = c
<1>1. z \in States
  BY DEF Sound
<1>2. Holds(z, -2, i) /\ At(z, -2, i) = c
  BY HoldsSingle, AtInode
<1>3. /\ C \subseteq Counted(z) /\ Cardinality(C) = Cardinality(Held(z.disk[c])) + 1
      /\ c \in Cluster /\ IsRef(z, c) /\ ~ RefNode(z, c)
  BY <1>2, RefPlaces
<1>4. c \notin {-1, -2, -3}
  BY <1>3, ClusterType
<1>5. \A j \in 0 .. i - 1 : c # z.i1[j]
  <2>1. SUFFICES ASSUME NEW j \in 0 .. i - 1, c = z.i1[j] PROVE FALSE
    OBVIOUS
  <2>2. j \in 0 .. N_INDIRECT - 1 /\ j # i
    BY Sizes
  <2>3. Holds(z, -2, j) /\ At(z, -2, j) = c
    BY <2>1, <2>2, HoldsSingle, AtInode
  <2>4. QED
    BY <1>2, <2>2, <2>3 DEF Sound
<1>6. \A j \in 0 .. i - 1 : -2 # z.i1[j]
  <2>1. \A j \in 0 .. i - 1 : j \in 0 .. N_INDIRECT - 1
    BY Sizes
  <2>2. \A j \in 0 .. i - 1 : z.i1[j] \in OptCluster
    BY <1>1, <2>1, Fields
  <2>3. QED
    BY <2>2, Sizes DEF OptCluster, Cluster, NULL_CLUSTER
<1>7. \A q \in C : (q[1] = -2 /\ q[2] = i) \/ q[1] = c
  BY DEF RefCells, Cells
<1>8. C \subseteq Rest1(z, i)
  BY <1>3, <1>4, <1>5, <1>6, <1>7 DEF Rest1
<1>9. QED
  BY <1>2, <1>3, <1>8 DEF RefNode

\* The position is ffcn or later.
Late1(i, p, ffcn) == N_DIRECT >= ffcn \/ i * RPC + p >= ffcn - N_DIRECT

LEMMA SpareSingle ==
  ASSUME NEW z, Sound(z), NEW i \in 0 .. N_INDIRECT - 1, NEW c, Holds(z, -2, i), c = At(z, -2, i),
         NEW ffcn \in Nat, NEW p \in Position, Late1(i, p, ffcn), NEW g, Locates(z, g, c, p)
  PROVE  ~ (g < ffcn)
<1>1. g = N_DIRECT + i * RPC + p
  BY LocatesSingle
<1>2. i * RPC \in Nat /\ p \in Nat /\ N_DIRECT \in Nat
  BY Sizes DEF Position
<1>3. N_DIRECT >= ffcn \/ i * RPC + p >= ffcn - N_DIRECT
  BY DEF Late1
<1>4. QED
  BY <1>1, <1>2, <1>3

\* Some of the references of f.i1[i] freed.
LEMMA SingleKept ==
  ASSUME NEW z, Sound(z), NEW v, NEW ffcn \in Nat, Going(z, v, ffcn),
         NEW i \in 0 .. N_INDIRECT - 1, NEW c, c = v.i1[i], c # NULL_CLUSTER, Written(v, c),
         NEW P \in SUBSET Held(v.disk[c]), \A p \in P : Late1(i, p, ffcn),
         NEW y, y = Write(FreeAll(v, v.disk[c], P), c, Clear(v.disk[c], P))
  PROVE  /\ Going(z, y, ffcn) /\ Owed(y) = Owed(v)
         /\ Rest1(y, i + 1) \subseteq Rest1(v, i) \ RefCells(v, -2, i, c)
<1>1. Sound(v) /\ v \in States
  BY DEF Going, Trims, Sound
<1>2. c \in Cluster /\ IsRef(v, c) /\ c # v.i2 /\ Holds(v, -2, i) /\ At(v, -2, i) = c
  BY <1>1, Rest1Here
<1>3. P \subseteq Position /\ v.disk[c] \in [Position -> OptCluster]
      /\ \A p \in P : Holds(v, c, p)
  BY <1>1, <1>2, HeldIs
<1> DEFINE x == FreeAll(v, v.disk[c], P)
           S == Freeing(v.disk[c], P)
           D == Cells(c, P)
           k == Cardinality(P)
           a == Clear(v.disk[c], P)
<1>4. FreedTo(v, S, k, x)
  BY <1>1, <1>2, LeafGone
<1>5. a \in Array
  BY <1>3 DEF Clear, Array, OptCluster
<1>6. y = Write(x, c, a) /\ S = Freeing(v.disk[c], P) /\ D = Cells(c, P) /\ k = Cardinality(P)
  OBVIOUS
<1> HIDE DEF x, a, S, D, k
<1>7. x \in States
  BY <1>4 DEF FreedTo
<1>8. WroteTo(x, c, a, y)
  BY <1>2, <1>5, <1>6, <1>7, WriteIs
<1>9. LeafFreed(v, c, P, S, y)
  BY <1>4, <1>8, Zenon DEF FreedTo, WroteTo, LeafFreed, SameInode, a
<1>10. Cut(v, y, D, S) /\ Closed(v, D) /\ From(v, D, S)
  BY <1>1, <1>2, <1>6, <1>9, LeafCut
<1>11. ~ RefNode(v, c) /\ c # -2
  BY <1>2, ClusterType DEF RefNode
<1>12. IsFiniteSet(P) /\ k \in Int
  BY <1>1, <1>2, <1>6, RowFinite
<1>13. D \subseteq Counted(v) /\ Cardinality(D) = k
  BY <1>1, <1>3, <1>6, <1>11, <1>12, LeafPlaces
<1>14. y.csize = v.csize - k /\ Quiet(v, y) /\ y.i1 = v.i1
  BY <1>4, <1>8, Zenon DEF FreedTo, WroteTo, Quiet, Flags, SameInode
<1>15. Spares(v, D, S, ffcn)
  <2>1. ASSUME NEW n, NEW p, <<n, p>> \in D
        PROVE  At(v, n, p) \in S /\ \A g : Locates(v, g, n, p) => ~ (g < ffcn)
    <3>1. n = c /\ p \in P
      BY <2>1 DEF D, Cells
    <3>2. At(v, n, p) \in S
      BY <1>2, <3>1, HoldsIn DEF S, Freeing
    <3>3. \A g : Locates(v, g, n, p) => ~ (g < ffcn)
      BY <1>1, <1>2, <1>3, <3>1, SpareSingle
    <3>4. QED
      BY <3>2, <3>3
  <2>2. QED
    BY <2>1 DEF Spares
<1>16. Going(z, y, ffcn) /\ Owed(y) = Owed(v) /\ Counted(y) = Counted(v) \ D
  BY <1>10, <1>12, <1>13, <1>14, <1>15, GoingCut
<1>17. \A q \in RefCells(v, -2, i, c) : (q[1] = -2 /\ q[2] = i) \/ q[1] = c
  BY DEF RefCells, Cells
<1>18. \A q \in Counted(v) : q[1] = -2 => q[2] \in Int
  BY CountedPair, HoldsSingle DEF Counts1
<1>19. ASSUME NEW q \in Rest1(y, i + 1) PROVE q \in Rest1(v, i) \ RefCells(v, -2, i, c)
  <2>1. /\ q \in Counted(v) /\ q[1] # -1 /\ ~ (q[1] = -2 /\ q[2] < i + 1)
        /\ \A j \in 0 .. i : q[1] # v.i1[j]
    BY <1>14, <1>16 DEF Rest1
  <2>2. q[1] # c
    BY <2>1
  <2>3. ~ (q[1] = -2 /\ q[2] < i) /\ ~ (q[1] = -2 /\ q[2] = i)
    BY <1>18, <2>1
  <2>4. \A j \in 0 .. i - 1 : q[1] # v.i1[j]
    BY <2>1
  <2>5. QED
    BY <1>17, <2>1, <2>2, <2>3, <2>4 DEF Rest1
<1>20. QED
  BY <1>16, <1>19

\* All of them, and f.i1[i] with them.
LEMMA SingleErased ==
  ASSUME NEW z, Sound(z), NEW v, NEW ffcn \in Nat, Going(z, v, ffcn),
         NEW i \in 0 .. N_INDIRECT - 1, NEW c, c = v.i1[i], c # NULL_CLUSTER, Written(v, c),
         NEW P, P = Held(v.disk[c]), \A p \in P : Late1(i, p, ffcn),
         NEW y, y = SetI1(FreeOne(FreeAll(v, v.disk[c], P), c), i)
  PROVE  /\ Going(z, y, ffcn) /\ Owed(y) = Owed(v)
         /\ Rest1(y, i + 1) \subseteq Rest1(v, i) \ RefCells(v, -2, i, c)
<1>1. Sound(v) /\ v \in States
  BY DEF Going, Trims, Sound
<1>2. /\ c \in Cluster /\ IsRef(v, c) /\ Holds(v, -2, i) /\ At(v, -2, i) = c
      /\ Cardinality(RefCells(v, -2, i, c)) = Cardinality(P) + 1
      /\ RefCells(v, -2, i, c) \subseteq Rest1(v, i)
  BY <1>1, Rest1Here
<1>3. P \subseteq Position /\ P \in SUBSET Held(v.disk[c])
  BY <1>1, <1>2, HeldIs
<1> DEFINE x == FreeOne(FreeAll(v, v.disk[c], P), c)
           S == RefFreeing(v, c, P)
           D == RefCells(v, -2, i, c)
           k == Cardinality(P) + 1
<1>4. FreedTo(v, S, k, x)
  BY <1>1, <1>2, <1>3, RefGone
<1>5. y = SetI1(x, i) /\ S = RefFreeing(v, c, P) /\ D = RefCells(v, -2, i, c)
      /\ k = Cardinality(P) + 1
  OBVIOUS
<1> HIDE DEF x, S, D, k
<1>6. x \in States
  BY <1>4 DEF FreedTo
<1>7. /\ y \in States /\ y.free = x.free /\ y.csize = x.csize /\ Quiet(x, y)
      /\ y.disk = x.disk /\ y.d = x.d /\ y.i1 = [x.i1 EXCEPT ![i] = NULL_CLUSTER]
      /\ y.i2 = x.i2
  BY <1>5, <1>6, SetI1Is
<1>8. \A j \in 0 .. N_INDIRECT - 1 : y.i1[j] = IF j = i THEN NULL_CLUSTER ELSE v.i1[j]
  <2>1. x.i1 = v.i1 /\ v.i1 \in [0 .. N_INDIRECT - 1 -> OptCluster]
    BY <1>1, <1>4, Fields DEF FreedTo, SameInode
  <2>2. y.i1 = [v.i1 EXCEPT ![i] = NULL_CLUSTER]
    BY <1>7, <2>1
  <2>3. QED
    BY <2>1, <2>2
<1>9. RefFreed(v, -2, i, c, P, S, y)
  <2>1. \A b \in Cluster : b # -2
    BY ClusterType
  <2>2. QED
    BY <1>4, <1>7, <1>8, <2>1 DEF FreedTo, RefFreed, SameInode
<1>10. Cut(v, y, D, S) /\ Closed(v, D) /\ From(v, D, S)
  BY <1>1, <1>2, <1>3, <1>5, <1>9, RefCut
<1>11. D \subseteq Counted(v) /\ k \in Int /\ Cardinality(D) = k
  <2>1. Cardinality(P) \in Nat
    BY <1>1, <1>2, RowFinite
  <2>2. D \subseteq Counted(v)
    BY <1>2, <1>5 DEF Rest1
  <2>3. QED
    BY <1>2, <1>5, <2>1, <2>2
<1>12. y.csize = v.csize - k /\ Quiet(v, y)
  BY <1>4, <1>7 DEF FreedTo, Quiet, Flags
<1>13. Spares(v, D, S, ffcn)
  <2>1. ASSUME NEW n, NEW p, <<n, p>> \in D
        PROVE  At(v, n, p) \in S /\ \A g : Locates(v, g, n, p) => ~ (g < ffcn)
    <3>1. CASE n = c /\ p \in P
      <4>1. At(v, n, p) \in S
        BY <1>2, <3>1, HoldsIn DEF S, RefFreeing, Freeing
      <4>2. \A g : Locates(v, g, n, p) => ~ (g < ffcn)
        BY <1>1, <1>2, <1>3, <3>1, SpareSingle
      <4>3. QED
        BY <4>1, <4>2
    <3>2. CASE n = -2 /\ p = i
      <4>1. At(v, n, p) \in S
        BY <1>2, <3>2 DEF S, RefFreeing
      <4>2. RefNode(v, -2)
        BY DEF RefNode
      <4>3. \A g : ~ Locates(v, g, n, p)
        BY <1>1, <1>2, <3>2, <4>2, LocatesNone
      <4>4. QED
        BY <4>1, <4>3
    <3>3. QED
      BY <2>1, <3>1, <3>2 DEF D, RefCells, Cells
  <2>2. QED
    BY <2>1 DEF Spares
<1>14. Going(z, y, ffcn) /\ Owed(y) = Owed(v) /\ Counted(y) = Counted(v) \ D
  BY <1>10, <1>11, <1>12, <1>13, GoingCut
<1>15. \A q \in Counted(v) : q[1] = -2 => q[2] \in Int
  BY CountedPair, HoldsSingle DEF Counts1
<1>16. ASSUME NEW q \in Rest1(y, i + 1) PROVE q \in Rest1(v, i) \ D
  <2>1. /\ q \in Counted(v) /\ q \notin D /\ q[1] # -1 /\ ~ (q[1] = -2 /\ q[2] < i + 1)
        /\ \A j \in 0 .. i : q[1] # y.i1[j]
    BY <1>14 DEF Rest1
  <2>2. ~ (q[1] = -2 /\ q[2] < i)
    BY <1>15, <2>1
  <2>3. \A j \in 0 .. i - 1 : j \in 0 .. N_INDIRECT - 1 /\ j # i /\ j \in 0 .. i
    BY Sizes
  <2>4. \A j \in 0 .. i - 1 : q[1] # v.i1[j]
    BY <1>8, <2>1, <2>3
  <2>5. QED
    BY <2>1, <2>2, <2>4 DEF Rest1
<1>17. QED
  BY <1>5, <1>14, <1>16

\* Cluster NULL_CLUSTER written, or a flag set.
LEMMA GoingSame ==
  ASSUME NEW z, NEW x, NEW ffcn, Going(z, x, ffcn), NEW y \in States, SameTree(x, y),
         y.csize = x.csize, Quiet(x, y)
  PROVE  Going(z, y, ffcn) /\ Owed(y) = Owed(x) /\ Counted(y) = Counted(x)
<1>1. Sound(x) /\ Counts(x) /\ Trims(z, x, ffcn) /\ Quiet(z, x)
  BY DEF Going, Trims
<1>2. /\ \A m, q : (Holds(y, m, q) <=> Holds(x, m, q)) /\ At(y, m, q) = At(x, m, q)
      /\ Counted(y) = Counted(x) /\ Sound(y) /\ Counts(y)
      /\ (Whole(x) => Whole(y)) /\ (Complete(x) => Complete(y))
  BY <1>1, SameTreeIs
<1>3. Trims(z, y, ffcn)
  BY <1>1, <1>2 DEF Trims
<1>4. Quiet(z, y)
  BY <1>1 DEF Quiet, Flags
<1>5. Owed(y) = Owed(x)
  BY <1>2 DEF Owed
<1>6. QED
  BY <1>1, <1>2, <1>3, <1>4, <1>5 DEF Going

LEMMA StuckIs ==
  ASSUME NEW z, NEW v, NEW ffcn, Going(z, v, ffcn), NEW y, y = [v EXCEPT !.undefined = TRUE]
  PROVE  Stuck(z, y)
<1>1. Sound(v) /\ Counts(v) /\ v \in States /\ Quiet(z, v)
  BY DEF Going, Trims, Sound
<1>2. v.csize \in 0 .. CTotal
  BY <1>1, SizeRange
<1>3. QED
  BY <1>1, <1>2 DEF Stuck, States, Quiet, Flags

LEMMA SingleStep ==
  ASSUME NEW z, Sound(z), NEW ffcn \in Nat, NEW i \in 0 .. N_INDIRECT - 1, NEW w,
         Loop1(z, w, i, ffcn), NEW x, x = FreeIndirectOne(w, i, ffcn)
  PROVE  Loop1(z, x, i + 1, ffcn)
<1> DEFINE v == w.z
           c == v.i1[i]
           ref == v.disk[c]
           H == Held(ref)
           P == {p \in H : Late1(i, p, ffcn)}
           left == w.total - Cardinality(H)
           kept == Write(FreeAll(v, ref, P), c, Clear(ref, P))
           erased == SetI1(FreeOne(FreeAll(v, ref, H), c), i)
<1>1. CASE c = NULL_CLUSTER \/ w.return
  <2>1. x = w
    BY <1>1, Zenon DEF FreeIndirectOne
  <2>2. CASE Stuck(z, v) /\ w.return
    BY <2>1, <2>2 DEF Loop1
  <2>3. CASE Going(z, v, ffcn) /\ Enough1(w, i)
    <3>1. v \in States
      BY <2>3 DEF Going, Trims, Sound
    <3>2. /\ Cardinality(Rest1(v, i)) \in Nat /\ Cardinality(Rest1(v, i + 1)) \in Nat
          /\ Cardinality(Rest1(v, i + 1)) <= Cardinality(Rest1(v, i))
      BY <3>1, Rest1Later
    <3>3. Owed(v) \in Int
      BY <3>1, Fields, CountedFinite DEF Owed
    <3>4. Enough1(x, i + 1)
      BY <2>1, <2>3, <3>2, <3>3 DEF Enough1
    <3>5. QED
      BY <2>1, <2>3, <3>4 DEF Loop1
  <2>4. QED
    BY <2>2, <2>3 DEF Loop1
<1>2. CASE c # NULL_CLUSTER /\ ~ w.return
  <2>1. Going(z, v, ffcn) /\ Enough1(w, i)
    BY <1>2 DEF Loop1
  <2>2. Sound(v) /\ v \in States /\ Counts(v)
    BY <2>1 DEF Going, Trims, Sound
  <2>3. CASE ~ Written(v, c)
    <3>1. x.z = [v EXCEPT !.undefined = TRUE] /\ x.return
      BY <1>2, <2>3, Zenon DEF FreeIndirectOne, Checked, Written
    <3>2. QED
      BY <2>1, <3>1, StuckIs DEF Loop1
  <2>4. CASE Written(v, c)
    <3> DEFINE C == RefCells(v, -2, i, c)
    <3>1. C \subseteq Rest1(v, i) /\ Cardinality(C) = Cardinality(H) + 1 /\ c \in Cluster
      BY <1>2, <2>2, <2>4, Rest1Here
    <3>2. IsFiniteSet(Rest1(v, i)) /\ Cardinality(Rest1(v, i)) \in Nat
      BY <2>2, Rest1Later
    <3>3. Cardinality(H) \in Nat /\ DOMAIN ref = 0 .. RPC - 1 /\ RPC \in Nat
      BY <2>2, <2>4, <3>1, RowFinite, HeldIs, Sizes DEF Position
    <3>4. Owed(v) \in Int /\ 0 <= Owed(v)
      BY <2>2, Fields, CountedFinite DEF Owed, Counts
    <3>5. w.total \in Int /\ Cardinality(H) + 1 <= w.total
      <4>1. Cardinality(C) <= Cardinality(Rest1(v, i))
        BY <3>1, <3>2, FS_Subset
      <4>2. QED
        BY <2>1, <3>1, <3>2, <3>3, <3>4, <4>1 DEF Enough1
    <3>6. Firsts(ref, w.total - 1) = H
      BY <3>3, <3>5, FirstsIs
    <3>7. P = {p \in Firsts(ref, w.total - 1) : N_DIRECT >= ffcn \/ i * RPC + p >= ffcn - N_DIRECT}
      BY <3>6 DEF Late1
    <3>8. /\ P = H => x.z = erased \/ x.z = Write(erased, NULL_CLUSTER, ref)
          /\ P # H => x.z = kept
          /\ x.total = IF P = H THEN left - 1 ELSE left
      BY <1>2, <2>4, <3>6, <3>7, Zenon DEF FreeIndirectOne, Checked, Written, SetI1
    <3>9. /\ P \in SUBSET H /\ (\A p \in P : Late1(i, p, ffcn))
          /\ (P = H => \A p \in H : Late1(i, p, ffcn))
          /\ c = v.i1[i] /\ ref = v.disk[c] /\ H = Held(v.disk[c])
          /\ kept = Write(FreeAll(v, v.disk[c], P), c, Clear(v.disk[c], P))
          /\ erased = SetI1(FreeOne(FreeAll(v, v.disk[c], H), c), i)
          /\ C = RefCells(v, -2, i, c) /\ v = w.z
          /\ left = w.total - Cardinality(H)
      OBVIOUS
    <3> HIDE DEF v, c, ref, H, P, left, kept, erased, C
    <3>10. Going(z, x.z, ffcn) /\ Owed(x.z) = Owed(v) /\ Rest1(x.z, i + 1) \subseteq Rest1(v, i) \ C
      <4>1. CASE P # H
        <5>1. P \in SUBSET Held(v.disk[c]) /\ (\A p \in P : Late1(i, p, ffcn))
              /\ x.z = Write(FreeAll(v, v.disk[c], P), c, Clear(v.disk[c], P))
          BY <3>8, <3>9, <4>1
        <5>2. Going(z, v, ffcn) /\ c = v.i1[i] /\ c # NULL_CLUSTER /\ Written(v, c)
          BY <1>2, <2>1, <2>4, <3>9
        <5>3. C = RefCells(v, -2, i, c)
          BY <3>9
        <5>4. QED
          BY <5>1, <5>2, <5>3, SingleKept
      <4>2. CASE P = H
        <5>1. Going(z, erased, ffcn) /\ Owed(erased) = Owed(v)
              /\ Rest1(erased, i + 1) \subseteq Rest1(v, i) \ C
          <6>1. (\A p \in Held(v.disk[c]) : Late1(i, p, ffcn)) /\ C = RefCells(v, -2, i, c)
                /\ erased = SetI1(FreeOne(FreeAll(v, v.disk[c], Held(v.disk[c])), c), i)
            BY <3>9, <4>2
          <6>2. Going(z, v, ffcn) /\ c = v.i1[i] /\ c # NULL_CLUSTER /\ Written(v, c)
            BY <1>2, <2>1, <2>4, <3>9
          <6>3. QED
            BY <6>1, <6>2, SingleErased
        <5>2. CASE x.z = Write(erased, NULL_CLUSTER, ref)
          <6>1. erased \in States
            BY <5>1 DEF Going, Trims, Sound
          <6>2. x.z \in States /\ SameTree(erased, x.z) /\ x.z.csize = erased.csize
                /\ Quiet(erased, x.z)
            BY <5>2, <6>1, WriteNullIs DEF SameTree, SameInode
          <6>3. Going(z, x.z, ffcn) /\ Owed(x.z) = Owed(erased) /\ Counted(x.z) = Counted(erased)
            BY <5>1, <6>2, GoingSame
          <6>4. Rest1(x.z, i + 1) = Rest1(erased, i + 1)
            BY <6>2, <6>3 DEF Rest1, SameTree
          <6>5. QED
            BY <5>1, <6>3, <6>4
        <5>3. QED
          BY <3>8, <4>2, <5>1, <5>2
      <4>3. QED
        BY <4>1, <4>2
    <3>11. /\ Cardinality(Rest1(x.z, i + 1)) \in Nat
           /\ Cardinality(Rest1(x.z, i + 1)) + Cardinality(C) <= Cardinality(Rest1(v, i))
      BY <3>1, <3>2, <3>10, Less
    <3>12. Enough1(x, i + 1)
      <4>1. Cardinality(Rest1(v, i)) + Owed(v) <= w.total
        BY <2>1, <3>9 DEF Enough1
      <4>2. left = w.total - Cardinality(H) /\ Cardinality(C) = Cardinality(H) + 1
        BY <3>1, <3>9
      <4>3. x.total \in Int /\ left - 1 <= x.total
        BY <3>3, <3>5, <3>8, <4>2
      <4>4. Cardinality(Rest1(x.z, i + 1)) + Owed(x.z) <= left - 1
        BY <3>2, <3>3, <3>4, <3>5, <3>10, <3>11, <4>1, <4>2
      <4>5. Owed(x.z) \in Int
        BY <3>4, <3>10
      <4>6. QED
        BY <3>3, <3>5, <3>11, <4>2, <4>3, <4>4, <4>5 DEF Enough1
    <3>13. QED
      BY <3>10, <3>12 DEF Loop1
  <2>5. QED
    BY <2>3, <2>4
<1>3. QED
  BY <1>1, <1>2

\* The loop of FreeIndirect, its first n rounds: g[i] is what i rounds leave.
Rounds1(w, ffcn, n, g) ==
  g = [i \in 0 .. n |-> IF i = 0 THEN w ELSE FreeIndirectOne(g[i - 1], i - 1, ffcn)]

LEMMA Rounds1Next ==
  ASSUME NEW w, NEW ffcn, NEW n \in Nat, NEW g, Rounds1(w, ffcn, n, g)
  PROVE  \E h : Rounds1(w, ffcn, n + 1, h)
<1> DEFINE h == [i \in 0 .. n + 1 |-> IF i = 0 THEN w ELSE FreeIndirectOne(g[i - 1], i - 1, ffcn)]
<1>1. \A i \in 0 .. n : g[i] = IF i = 0 THEN w ELSE FreeIndirectOne(g[i - 1], i - 1, ffcn)
  BY DEF Rounds1
<1>2. \A i \in 0 .. n : h[i] = g[i]
  BY <1>1
<1>3. ASSUME NEW i \in 0 .. n + 1, i # 0 PROVE h[i - 1] = g[i - 1]
  <2> HIDE DEF h
  <2>1. i - 1 \in 0 .. n
    BY <1>3
  <2>2. QED
    BY <1>2, <2>1
<1>4. h = [i \in 0 .. n + 1 |-> IF i = 0 THEN w ELSE FreeIndirectOne(h[i - 1], i - 1, ffcn)]
  <2>1. \A i \in 0 .. n + 1 : (IF i = 0 THEN w ELSE FreeIndirectOne(g[i - 1], i - 1, ffcn))
                              = (IF i = 0 THEN w ELSE FreeIndirectOne(h[i - 1], i - 1, ffcn))
    BY <1>3
  <2>2. QED
    BY <2>1
<1>5. QED
  BY <1>4 DEF Rounds1

LEMMA Rounds1All ==
  ASSUME NEW w, NEW ffcn, NEW n \in Nat
  PROVE  \E g : Rounds1(w, ffcn, n, g)
<1> DEFINE T == {k \in Nat : ~ \E g : Rounds1(w, ffcn, k, g)}
<1>1. SUFFICES ASSUME T # {} PROVE FALSE
  OBVIOUS
<1>2. PICK m \in T : \A k \in T : m <= k
  BY <1>1, SmallestOf
<1>3. Rounds1(w, ffcn, 0, [i \in 0 .. 0 |-> w])
  <2>1. \A i \in 0 .. 0 : i = 0
    OBVIOUS
  <2>2. QED
    BY <2>1 DEF Rounds1
<1>4. m # 0
  BY <1>3
<1>5. m - 1 \in Nat /\ m - 1 \notin T /\ m = (m - 1) + 1
  BY <1>2, <1>4
<1>6. PICK g : Rounds1(w, ffcn, m - 1, g)
  BY <1>5
<1>7. \E h : Rounds1(w, ffcn, m, h)
  BY <1>5, <1>6, Rounds1Next
<1>8. QED
  BY <1>7

LEMMA SingleLoop ==
  ASSUME NEW z, Sound(z), NEW ffcn \in Nat, NEW w, Loop1(z, w, 0, ffcn)
  PROVE  Loop1(z, FreeIndirect(w, ffcn), N_INDIRECT, ffcn)
<1>1. \E g : g = [i \in 0 .. N_INDIRECT |->
                    IF i = 0 THEN w ELSE FreeIndirectOne(g[i - 1], i - 1, ffcn)]
  <2>1. N_INDIRECT \in Nat
    BY Sizes
  <2>2. PICK g : Rounds1(w, ffcn, N_INDIRECT, g)
    BY <2>1, Rounds1All
  <2>3. QED
    BY <2>2 DEF Rounds1
<1>2. \E h : /\ h = [i \in 0 .. N_INDIRECT |->
                       IF i = 0 THEN w ELSE FreeIndirectOne(h[i - 1], i - 1, ffcn)]
             /\ FreeIndirect(w, ffcn) = h[N_INDIRECT]
  BY <1>1, Zenon DEF FreeIndirect
<1>3. PICK h : /\ h = [i \in 0 .. N_INDIRECT |->
                         IF i = 0 THEN w ELSE FreeIndirectOne(h[i - 1], i - 1, ffcn)]
               /\ FreeIndirect(w, ffcn) = h[N_INDIRECT]
  BY <1>2
<1>4. N_INDIRECT \in Nat /\ N_INDIRECT # 0
  BY Sizes
<1>5. h[0] = w /\ \A i \in 0 .. N_INDIRECT - 1 : h[i + 1] = FreeIndirectOne(h[i], i, ffcn)
  BY <1>3, <1>4
<1> DEFINE T == {i \in 0 .. N_INDIRECT : ~ Loop1(z, h[i], i, ffcn)}
<1>6. T \in SUBSET Nat /\ (T = {} => Loop1(z, h[N_INDIRECT], N_INDIRECT, ffcn))
      /\ \A i : i \in T <=> i \in 0 .. N_INDIRECT /\ ~ Loop1(z, h[i], i, ffcn)
  BY <1>4
<1> HIDE DEF T
<1>7. SUFFICES ASSUME T # {} PROVE FALSE
  BY <1>3, <1>6
<1>8. PICK m \in T : \A k \in T : m <= k
  BY <1>7, <1>6, SmallestOf
<1>9. m # 0 /\ m \in 0 .. N_INDIRECT
  BY <1>5, <1>6
<1>10. m - 1 \in 0 .. N_INDIRECT - 1 /\ m = (m - 1) + 1 /\ ~ (m <= m - 1)
  BY <1>4, <1>9
<1>11. Loop1(z, h[m - 1], m - 1, ffcn)
  <2>1. m - 1 \notin T
    BY <1>8, <1>10
  <2>2. m - 1 \in 0 .. N_INDIRECT
    BY <1>4, <1>10
  <2>3. QED
    BY <1>6, <2>1, <2>2
<1>12. h[m] = FreeIndirectOne(h[m - 1], m - 1, ffcn)
  BY <1>5, <1>10
<1>13. Loop1(z, h[m], m, ffcn)
  BY <1>10, <1>11, <1>12, SingleStep
<1>14. QED
  BY <1>6, <1>8, <1>13

-----------------------------------------------------------------------------
(* soFreeFileClusters: the double indirection *)

\* u is the state the routine works on, a its copy of f.i2, and v the tree they
\* are: the state once the copy is written.
Copied(u, a, v) ==
  u \in States /\ u.i2 \in Cluster /\ a \in [Position -> OptCluster] /\ v = Write(u, u.i2, a)

LEMMA CopiedIs ==
  ASSUME NEW u, NEW a, NEW v, Copied(u, a, v)
  PROVE  /\ v \in States /\ v.free = u.free /\ v.csize = u.csize
         /\ SameInode(u, v) /\ Quiet(u, v) /\ v.i2 = u.i2 /\ v.i2 # NULL_CLUSTER
         /\ v.disk[v.i2] = a /\ Written(v, v.i2) /\ IsRef(v, v.i2)
         /\ \A b \in Cluster : b # u.i2 => v.disk[b] = u.disk[b]
<1>1. u \in States /\ u.i2 \in Cluster /\ a \in [Position -> OptCluster] /\ v = Write(u, u.i2, a)
  BY DEF Copied
<1>2. a \in Array
  BY <1>1 DEF Array
<1>3. WroteTo(u, u.i2, a, v)
  BY <1>1, <1>2, WriteIs
<1>4. v \in States /\ v.free = u.free /\ v.csize = u.csize /\ SameInode(u, v) /\ Quiet(u, v)
      /\ \A b \in Cluster : v.disk[b] = IF b = u.i2 THEN a ELSE u.disk[b]
  BY <1>3 DEF WroteTo
<1>5. v.i2 = u.i2
  BY <1>4 DEF SameInode
<1>6. v.disk[v.i2] = a
  BY <1>1, <1>4, <1>5
<1>7. Written(v, v.i2)
  BY <1>1, <1>6, ArrayWritten DEF Written
<1>8. v.i2 # NULL_CLUSTER /\ IsRef(v, v.i2)
  BY <1>1, <1>5, ClusterType DEF IsRef
<1>9. QED
  BY <1>4, <1>5, <1>6, <1>7, <1>8

\* What is freed of u is freed of v, f.i2 aside.
Aside(v, S, k, x) ==
  /\ x \in States /\ x.free = v.free \cup S /\ x.csize = v.csize - k
  /\ SameInode(v, x) /\ Quiet(v, x)
  /\ \A b \in Cluster : b # v.i2 => x.disk[b] = After(v, S, b)

LEMMA CopiedFreed ==
  ASSUME NEW u, NEW a, NEW v, Copied(u, a, v), NEW S, NEW k, NEW x, FreedTo(u, S, k, x)
  PROVE  Aside(v, S, k, x)
<1>1. /\ v.free = u.free /\ v.csize = u.csize /\ SameInode(u, v) /\ Quiet(u, v) /\ v.i2 = u.i2
      /\ \A b \in Cluster : b # u.i2 => v.disk[b] = u.disk[b]
  BY CopiedIs
<1>2. /\ x \in States /\ x.free = u.free \cup S /\ x.csize = u.csize - k
      /\ SameInode(u, x) /\ Quiet(u, x)
      /\ \A b \in Cluster : x.disk[b] = After(u, S, b)
  BY DEF FreedTo
<1>3. SameInode(v, x) /\ Quiet(v, x)
  BY <1>1, <1>2 DEF SameInode, Quiet, Flags
<1>4. \A b \in Cluster : b # v.i2 => x.disk[b] = After(v, S, b)
  BY <1>1, <1>2 DEF After
<1>5. QED
  BY <1>1, <1>2, <1>3, <1>4 DEF Aside

LEMMA AsideNull ==
  ASSUME NEW v, NEW S, NEW k, NEW x, Aside(v, S, k, x), NEW a, NEW y, y = Write(x, NULL_CLUSTER, a)
  PROVE  Aside(v, S, k, y)
<1>1. /\ y \in States /\ y.free = x.free /\ y.csize = x.csize
      /\ SameInode(x, y) /\ Quiet(x, y) /\ y.disk = x.disk
  BY WriteNullIs DEF Aside
<1>2. QED
  BY <1>1 DEF Aside, SameInode, Quiet, Flags

\* Every place below f.i2's cluster from position i on.
Rest2(z, i) == {q \in Counted(z) : \/ q[1] = z.i2 /\ q[2] >= i
                                   \/ \E k \in i .. RPC - 1 : q[1] = z.disk[z.i2][k]}

LEMMA Rest2Later ==
  ASSUME NEW z \in States, NEW i \in Nat
  PROVE  Rest2(z, i + 1) \subseteq Rest2(z, i) /\ IsFiniteSet(Rest2(z, i))
         /\ Cardinality(Rest2(z, i)) \in Nat /\ Cardinality(Rest2(z, i + 1)) \in Nat
         /\ Cardinality(Rest2(z, i + 1)) <= Cardinality(Rest2(z, i))
<1>1. ASSUME NEW q \in Rest2(z, i + 1) PROVE q \in Rest2(z, i)
  <2>1. q \in Counted(z) /\ q[2] \in Int
    <3>1. q \in Counted(z)
      BY DEF Rest2
    <3>2. q[2] \in Int
      BY <3>1 DEF Counted, Place
    <3>3. QED
      BY <3>1, <3>2
  <2>2. q[1] = z.i2 /\ q[2] >= i + 1 => q[2] >= i
    BY <2>1
  <2>3. \A k \in i + 1 .. RPC - 1 : k \in i .. RPC - 1
    BY Sizes
  <2>4. \/ q[1] = z.i2 /\ q[2] >= i + 1
        \/ \E k \in i + 1 .. RPC - 1 : q[1] = z.disk[z.i2][k]
    BY DEF Rest2
  <2>5. QED
    BY <2>1, <2>2, <2>3, <2>4 DEF Rest2
<1>2. Rest2(z, i) \subseteq Counted(z) /\ Rest2(z, i + 1) \subseteq Counted(z)
  BY DEF Rest2
<1>3. IsFiniteSet(Rest2(z, i)) /\ IsFiniteSet(Rest2(z, i + 1))
  BY <1>2, CountedFinite, FS_Subset
<1>4. QED
  BY <1>1, <1>3, FS_Subset, FS_CardinalityType

\* Before the loop, they are among those the single indirection has not come to.
LEMMA Rest2First ==
  ASSUME NEW z, Sound(z), z.i2 # NULL_CLUSTER, Written(z, z.i2),
         NEW i \in Nat, i <= N_INDIRECT
  PROVE  Rest2(z, 0) \subseteq Rest1(z, i)
<1>1. z \in States /\ z.i2 \in Cluster
  BY Fields, ClusterType DEF Sound
<1>2. ASSUME NEW q \in Rest2(z, 0) PROVE q \in Rest1(z, i)
  <2>1. q \in Counted(z) /\ Holds(z, q[1], q[2])
    <3>1. q \in Counted(z)
      BY DEF Rest2
    <3>2. QED
      BY <3>1, CountedPair DEF Counts1
  <2>2. q[1] = z.i2 \/ \E k \in Position : q[1] = z.disk[z.i2][k]
    BY DEF Rest2, Position
  <2>3. q[1] \in Cluster
    <3>1. CASE q[1] = z.i2
      BY <1>1, <3>1
    <3>2. CASE \E k \in Position : q[1] = z.disk[z.i2][k]
      <4>1. z.disk[z.i2] \in [Position -> OptCluster]
        BY <1>1, HeldIs
      <4>2. q[1] \in OptCluster
        BY <3>2, <4>1
      <4>3. q[1] \in {-1, -2, -3} \/ q[1] \in Cluster
        BY <2>1, NodeType
      <4>4. QED
        BY <4>2, <4>3, Sizes DEF OptCluster, NULL_CLUSTER, Cluster
    <3>3. QED
      BY <2>2, <3>1, <3>2
  <2>4. PICK n, p : Holds(z, n, p) /\ At(z, n, p) = q[1] /\ n # -2
    <3>1. CASE q[1] = z.i2
      <4>1. Holds(z, -3, 0) /\ At(z, -3, 0) = z.i2
        BY HoldsDouble, AtInode
      <4>2. QED
        BY <3>1, <4>1
    <3>2. CASE \E k \in Position : q[1] = z.disk[z.i2][k]
      <4>1. PICK k \in Position : q[1] = z.disk[z.i2][k]
        BY <3>2
      <4>2. Holds(z, z.i2, k) /\ At(z, z.i2, k) = q[1] /\ z.i2 # -2
        BY <1>1, <2>3, <4>1, HoldsIn, ClusterType DEF IsRef
      <4>3. QED
        BY <4>2
    <3>3. QED
      BY <2>2, <3>1, <3>2
  <2>5. ASSUME NEW j \in 0 .. i - 1 PROVE q[1] # z.i1[j]
    <3>1. SUFFICES ASSUME q[1] = z.i1[j] PROVE FALSE
      OBVIOUS
    <3>2. j \in 0 .. N_INDIRECT - 1
      BY Sizes
    <3>3. Holds(z, -2, j) /\ At(z, -2, j) = q[1]
      BY <2>3, <3>1, <3>2, HoldsSingle, AtInode, ClusterType
    <3>4. QED
      BY <2>4, <3>3 DEF Sound
  <2>6. q[1] # -1 /\ q[1] # -2
    BY <2>3, ClusterType
  <2>7. QED
    BY <2>1, <2>5, <2>6 DEF Rest1
<1>3. QED
  BY <1>2

\* The reference cluster at position i and what is below it are among them.
LEMMA Rest2Here ==
  ASSUME NEW z, Sound(z), z.i2 # NULL_CLUSTER, Written(z, z.i2), NEW i \in Position,
         NEW c, c = z.disk[z.i2][i], c # NULL_CLUSTER, Written(z, c),
         NEW C, C = RefCells(z, z.i2, i, c)
  PROVE  /\ C \subseteq Rest2(z, i) /\ Cardinality(C) = Cardinality(Held(z.disk[c])) + 1
         /\ C \subseteq Counted(z)
         /\ c \in Cluster /\ IsRef(z, c) /\ c # z.i2 /\ ~ RefNode(z, c)
         /\ z.i2 \in Cluster /\ Holds(z, z.i2, i) /\ At(z, z.i2, i) = c
<1>1. z \in States /\ z.i2 \in Cluster
  BY Fields, ClusterType DEF Sound
<1>2. Holds(z, z.i2, i) /\ At(z, z.i2, i) = c
  BY <1>1, HoldsIn DEF IsRef
<1>3. /\ C \subseteq Counted(z) /\ Cardinality(C) = Cardinality(Held(z.disk[c])) + 1
      /\ c \in Cluster /\ IsRef(z, c) /\ ~ RefNode(z, c) /\ c # z.i2
  BY <1>2, RefPlaces
<1>4. \A q \in C : (q[1] = z.i2 /\ q[2] = i) \/ q[1] = c
  BY DEF RefCells, Cells
<1>5. i \in i .. RPC - 1 /\ i >= i
  BY Sizes DEF Position
<1>6. C \subseteq Rest2(z, i)
  BY <1>3, <1>4, <1>5 DEF Rest2
<1>7. QED
  BY <1>1, <1>2, <1>3, <1>6

LEMMA Rest2Cells ==
  ASSUME NEW z, Sound(z), z.i2 # NULL_CLUSTER, Written(z, z.i2), NEW i \in Position,
         z.disk[z.i2][i] # NULL_CLUSTER, Written(z, z.disk[z.i2][i])
  PROVE  LET c == z.disk[z.i2][i]
             C == RefCells(z, z.i2, i, c)
         IN  C \subseteq Rest2(z, i) /\ C \subseteq Counted(z)
             /\ Cardinality(C) = Cardinality(Held(z.disk[c])) + 1
  BY Rest2Here

\* When they are gone the places left are those of the positions after i.
LEMMA Rest2Gone ==
  ASSUME NEW z, Sound(z), z.i2 # NULL_CLUSTER, Written(z, z.i2), NEW i \in Position,
         NEW c, c = z.disk[z.i2][i], NEW y, y.i2 = z.i2, Counted(y) \subseteq Counted(z),
         \A k \in Position : k # i => y.disk[z.i2][k] = z.disk[z.i2][k]
  PROVE  Rest2(y, i + 1) \subseteq Rest2(z, i) \ RefCells(z, z.i2, i, c)
<1>1. z \in States /\ z.i2 \in Cluster /\ i \in Nat
  BY Fields, ClusterType, Sizes DEF Sound, Position
<1>2. ASSUME NEW q \in Rest2(y, i + 1) PROVE q \in Rest2(z, i) \ RefCells(z, z.i2, i, c)
  <2>1. q \in Counted(z) /\ q \in Counted(y) /\ q[2] \in Int /\ Counts1(z, q[1], q[2])
    <3>1. q \in Counted(z) /\ q \in Counted(y)
      BY DEF Rest2
    <3>2. q[2] \in Int
      BY <3>1 DEF Counted, Place
    <3>3. QED
      BY <3>1, <3>2, CountedPair
  <2>2. CASE q[1] = z.i2 /\ q[2] >= i + 1
    <3>1. q[2] >= i /\ q[2] # i
      BY <1>1, <2>1, <2>2
    <3>2. q \notin RefCells(z, z.i2, i, c)
      <4>1. SUFFICES ASSUME q \in RefCells(z, z.i2, i, c) PROVE FALSE
        OBVIOUS
      <4>2. q = <<z.i2, i>> \/ q[1] = c
        BY <4>1 DEF RefCells, Cells
      <4>3. Holds(z, z.i2, i) /\ At(z, z.i2, i) = z.i2
        BY <1>1, <2>2, <3>1, <4>2, HoldsIn, ClusterType DEF IsRef
      <4>4. Holds(z, -3, 0) /\ At(z, -3, 0) = z.i2
        BY HoldsDouble, AtInode
      <4>5. QED
        BY <1>1, <4>3, <4>4, ClusterType DEF Sound
    <3>3. QED
      BY <2>1, <2>2, <3>1, <3>2 DEF Rest2
  <2>3. CASE \E k \in i + 1 .. RPC - 1 : q[1] = y.disk[z.i2][k]
    <3>1. PICK k \in i + 1 .. RPC - 1 : q[1] = y.disk[z.i2][k]
      BY <2>3
    <3>2. k \in Position /\ k # i /\ k \in i .. RPC - 1
      BY <1>1, <3>1, Sizes DEF Position
    <3>3. q[1] = z.disk[z.i2][k]
      BY <3>1, <3>2
    <3>4. q[1] \in Cluster
      <4>1. z.disk[z.i2] \in [Position -> OptCluster]
        BY <1>1, HeldIs
      <4>2. q[1] \in OptCluster
        BY <3>2, <3>3, <4>1
      <4>3. q[1] \in {-1, -2, -3} \/ q[1] \in Cluster
        BY <2>1, NodeType DEF Counts1
      <4>4. QED
        BY <4>2, <4>3, Sizes DEF OptCluster, NULL_CLUSTER, Cluster
    <3>5. Holds(z, z.i2, k) /\ At(z, z.i2, k) = q[1]
      BY <1>1, <3>2, <3>3, <3>4, HoldsIn, ClusterType DEF IsRef
    <3>6. q \notin RefCells(z, z.i2, i, c)
      <4>1. SUFFICES ASSUME q \in RefCells(z, z.i2, i, c) PROVE FALSE
        OBVIOUS
      <4>2. q[1] = c \/ q[1] = z.i2
        BY <4>1 DEF RefCells, Cells
      <4>3. q[1] # c
        <5>1. SUFFICES ASSUME q[1] = c PROVE FALSE
          OBVIOUS
        <5>2. Holds(z, z.i2, i) /\ At(z, z.i2, i) = q[1]
          BY <1>1, <3>4, <5>1, HoldsIn, ClusterType DEF IsRef
        <5>3. QED
          BY <3>2, <3>5, <5>2 DEF Sound
      <4>4. q[1] # z.i2
        <5>1. SUFFICES ASSUME q[1] = z.i2 PROVE FALSE
          OBVIOUS
        <5>2. Holds(z, -3, 0) /\ At(z, -3, 0) = q[1]
          BY <5>1, HoldsDouble, AtInode
        <5>3. QED
          BY <1>1, <3>5, <5>2, ClusterType DEF Sound
      <4>5. QED
        BY <4>2, <4>3, <4>4
    <3>7. QED
      BY <2>1, <3>2, <3>3, <3>6 DEF Rest2
  <2>4. QED
    BY <2>2, <2>3 DEF Rest2
<1>3. QED
  BY <1>2

\* The position is ffcn or later.
Late2(i, p, ffcn) == FirstDouble >= ffcn \/ i * RPC + p >= ffcn - FirstDouble

LEMMA SpareDouble ==
  ASSUME NEW z, Sound(z), NEW i \in Position, NEW c, Holds(z, z.i2, i), c = At(z, z.i2, i),
         NEW ffcn \in Nat, NEW p \in Position, Late2(i, p, ffcn), NEW g, Locates(z, g, c, p)
  PROVE  ~ (g < ffcn)
<1>1. g = FirstDouble + i * RPC + p
  BY LocatesDouble
<1>2. i * RPC \in Nat /\ p \in Nat
  BY Sizes DEF Position
<1>3. FirstDouble \in Nat
  BY FirstDoubleIs
<1>4. FirstDouble >= ffcn \/ i * RPC + p >= ffcn - FirstDouble
  BY DEF Late2
<1>5. QED
  BY <1>1, <1>2, <1>3, <1>4

LEMMA CopiedHere ==
  ASSUME NEW u, NEW a, NEW v, Copied(u, a, v), Sound(v), NEW i \in Position,
         NEW c, c = a[i], c # NULL_CLUSTER, Written(u, c)
  PROVE  /\ Written(v, c) /\ v.disk[c] = u.disk[c] /\ c = v.disk[v.i2][i]
         /\ c \in Cluster /\ IsRef(v, c) /\ c # v.i2 /\ ~ RefNode(v, c) /\ c # u.i2
         /\ v.i2 \in Cluster /\ Holds(v, v.i2, i) /\ At(v, v.i2, i) = c
<1>1. /\ v.i2 = u.i2 /\ v.i2 # NULL_CLUSTER /\ v.disk[v.i2] = a /\ Written(v, v.i2)
      /\ \A b \in Cluster : b # u.i2 => v.disk[b] = u.disk[b]
  BY CopiedIs
<1>2. c \in Cluster
  BY ClusterType DEF Copied
<1>3. Written(v, c)
  BY <1>1, <1>2 DEF Written
<1>4. c = v.disk[v.i2][i]
  BY <1>1
<1>5. /\ c \in Cluster /\ IsRef(v, c) /\ c # v.i2 /\ ~ RefNode(v, c)
      /\ v.i2 \in Cluster /\ Holds(v, v.i2, i) /\ At(v, v.i2, i) = c
  BY <1>1, <1>3, <1>4, Rest2Here
<1>6. QED
  BY <1>1, <1>3, <1>4, <1>5

\* The loop has been at position i and goes on: t is the state, a the copy.
Passed(z, v, i, c, ffcn, t, a, y) ==
  /\ Going(z, y, ffcn) /\ Owed(y) = Owed(v) /\ Copied(t, a, y)
  /\ Rest2(y, i + 1) \subseteq Rest2(v, i) \ RefCells(v, v.i2, i, c)

\* Some of the references of c freed, c the reference cluster at position i.
LEMMA DoubleKept ==
  ASSUME NEW z, Sound(z), NEW u, NEW a, NEW v, Copied(u, a, v), NEW ffcn \in Nat,
         Going(z, v, ffcn), NEW i \in Position,
         NEW c, c = a[i], c # NULL_CLUSTER, Written(u, c),
         NEW P \in SUBSET Held(u.disk[c]), Whole(v) => \A p \in P : Late2(i, p, ffcn),
         NEW t, t = Write(FreeAll(u, u.disk[c], P), c, Clear(u.disk[c], P)),
         NEW y, y = Write(t, u.i2, a)
  PROVE  Passed(z, v, i, c, ffcn, t, a, y)
<1>1. Sound(v) /\ v \in States
  BY DEF Going, Trims, Sound
<1>2. /\ Written(v, c) /\ v.disk[c] = u.disk[c] /\ c = v.disk[v.i2][i]
      /\ c \in Cluster /\ IsRef(v, c) /\ c # v.i2 /\ ~ RefNode(v, c) /\ c # u.i2
      /\ v.i2 \in Cluster /\ Holds(v, v.i2, i) /\ At(v, v.i2, i) = c
  BY <1>1, CopiedHere
<1>3. v.i2 = u.i2 /\ v.i2 # NULL_CLUSTER /\ v.disk[v.i2] = a /\ Written(v, v.i2)
  BY CopiedIs
<1>4. u \in States /\ u.i2 \in Cluster /\ a \in [Position -> OptCluster]
  BY DEF Copied
<1>5. P \in SUBSET Held(v.disk[c]) /\ P \subseteq Position /\ v.disk[c] \in [Position -> OptCluster]
      /\ \A p \in P : Holds(v, c, p)
  BY <1>1, <1>2, HeldIs, Zenon
<1> DEFINE x == FreeAll(u, u.disk[c], P)
           S == Freeing(u.disk[c], P)
           D == Cells(c, P)
           k == Cardinality(P)
           e == Clear(u.disk[c], P)
<1>6. FreedTo(u, S, k, x)
  BY <1>2, <1>4, LeafGone, Zenon
<1>7. Aside(v, S, k, x)
  BY <1>6, CopiedFreed
<1>8. e \in Array /\ a \in Array
  <2>1. a \in Array
    BY <1>4 DEF Array
  <2>2. e = Clear(v.disk[c], P) /\ v.disk[c] \in [Position -> OptCluster]
    BY <1>2, <1>5, Zenon
  <2>3. e \in Array
    BY <2>2, Zenon DEF Clear, Array, OptCluster
  <2>4. QED
    BY <2>1, <2>3
<1>9. t = Write(x, c, e) /\ S = Freeing(v.disk[c], P) /\ D = Cells(c, P) /\ k = Cardinality(P)
      /\ e = Clear(v.disk[c], P)
  BY <1>2
<1> HIDE DEF x, S, D, k, e
<1>10. /\ x \in States /\ x.free = v.free \cup S /\ x.csize = v.csize - k
       /\ SameInode(v, x) /\ Quiet(v, x)
  BY <1>7 DEF Aside
<1>11. \A b \in Cluster : b # v.i2 => x.disk[b] = After(v, S, b)
  BY <1>7 DEF Aside
<1>12. WroteTo(x, c, e, t)
  BY <1>2, <1>8, <1>9, <1>10, WriteIs, Zenon
<1>13. /\ t \in States /\ t.free = x.free /\ t.csize = x.csize
       /\ SameInode(x, t) /\ Quiet(x, t)
  BY <1>12 DEF WroteTo
<1>14. \A b \in Cluster : t.disk[b] = IF b = c THEN e ELSE x.disk[b]
  BY <1>12 DEF WroteTo
<1>15. WroteTo(t, u.i2, a, y)
  BY <1>4, <1>8, <1>13, WriteIs
<1>16. /\ y \in States /\ y.free = t.free /\ y.csize = t.csize
       /\ SameInode(t, y) /\ Quiet(t, y)
  BY <1>15 DEF WroteTo
<1>17. \A b \in Cluster : y.disk[b] = IF b = u.i2 THEN a ELSE t.disk[b]
  BY <1>15 DEF WroteTo
<1>18. /\ y.free = v.free \cup S /\ y.csize = v.csize - k /\ SameInode(v, y) /\ Quiet(v, y)
       /\ t.i2 = u.i2
  <2>1. t.i2 = u.i2 /\ SameInode(v, y)
    BY <1>3, <1>10, <1>13, <1>16 DEF SameInode
  <2>2. Quiet(v, y)
    BY <1>10, <1>13, <1>16 DEF Quiet, Flags
  <2>3. QED
    BY <1>10, <1>13, <1>16, <2>1, <2>2
<1>19. c \in Cluster /\ Written(v, c) /\ \A p : At(v, c, p) = v.disk[c][p]
  <2>1. c \in Cluster /\ Written(v, c)
    BY <1>2
  <2>2. QED
    BY <2>1, AtCluster, Zenon
<1>20. v.i2 \notin S
  <2>1. SUFFICES ASSUME v.i2 \in S PROVE FALSE
    OBVIOUS
  <2>2. PICK p \in P : v.i2 = v.disk[c][p]
    BY <1>9, <2>1 DEF Freeing
  <2>3. Holds(v, c, p) /\ At(v, c, p) = v.i2
    BY <1>5, <2>2, <1>19
  <2>4. Holds(v, -3, 0) /\ At(v, -3, 0) = v.i2
    BY <1>3, HoldsDouble, AtInode
  <2>5. c = -3
    BY <1>1, <2>3, <2>4 DEF Sound
  <2>6. QED
    BY <1>2, <2>5, ClusterType
<1>21. LeafFreed(v, c, P, S, y)
  <2>1. ASSUME NEW b \in Cluster
        PROVE  y.disk[b] = IF b = c THEN Clear(v.disk[c], P) ELSE After(v, S, b)
    <3>1. CASE b = c
      BY <1>2, <1>9, <1>14, <1>17, <3>1, Zenon
    <3>2. CASE b # c /\ b # v.i2
      BY <1>3, <1>11, <1>14, <1>17, <3>2
    <3>3. CASE b = v.i2
      BY <1>2, <1>3, <1>17, <1>20, <3>3 DEF After
    <3>4. QED
      BY <3>1, <3>2, <3>3
  <2>2. QED
    BY <1>16, <1>18, <2>1 DEF LeafFreed
<1>22. P \in SUBSET Held(v.disk[c])
  BY <1>5
<1>23. Cut(v, y, D, S) /\ Closed(v, D) /\ From(v, D, S)
  BY <1>1, <1>2, <1>22, <1>9, <1>21, LeafCut, Zenon
<1>24. IsFiniteSet(P) /\ k \in Int
  <2>1. IsFiniteSet(P) /\ Cardinality(P) \in Nat
    BY <1>1, <1>22, <1>19, RowFinite, Zenon
  <2>2. k = Cardinality(P)
    BY <1>9, Zenon
  <2>3. Cardinality(P) \in Int
    BY <2>1
  <2>4. QED
    BY <2>1, <2>2, <2>3, Zenon
<1>25. D \subseteq Counted(v) /\ Cardinality(D) = k
  <2>1. ~ RefNode(v, c) /\ (\A p \in P : Holds(v, c, p))
    BY <1>2, <1>5, Zenon
  <2>2. D = Cells(c, P) /\ k = Cardinality(P)
    BY <1>9, Zenon
  <2>3. D \subseteq Counted(v) /\ Cardinality(D) = Cardinality(P)
    BY <1>1, <1>24, <2>1, <2>2, LeafPlaces
  <2>4. QED
    BY <2>2, <2>3, Zenon
<1>26. Whole(v) => Spares(v, D, S, ffcn)
  <2>1. ASSUME Whole(v), NEW n, NEW p, <<n, p>> \in D
        PROVE  At(v, n, p) \in S /\ \A g : Locates(v, g, n, p) => ~ (g < ffcn)
    <3>1. n = c /\ p \in P
      BY <1>9, <2>1 DEF Cells
    <3>2. At(v, n, p) \in S
      BY <1>9, <3>1, <1>19 DEF Freeing
    <3>3. \A g : Locates(v, g, n, p) => ~ (g < ffcn)
      BY <1>1, <1>2, <1>5, <2>1, <3>1, SpareDouble, Zenon
    <3>4. QED
      BY <3>2, <3>3
  <2>2. QED
    BY <2>1 DEF Spares
<1>27. Going(z, y, ffcn) /\ Owed(y) = Owed(v) /\ Counted(y) = Counted(v) \ D /\ y.i2 = v.i2
  BY <1>18, <1>23, <1>24, <1>25, <1>26, GoingCut
<1>28. y.disk[v.i2] = v.disk[v.i2]
  BY <1>2, <1>3, <1>17
<1>29. Rest2(y, i + 1) \subseteq Rest2(v, i) \ RefCells(v, v.i2, i, c)
  BY <1>1, <1>2, <1>3, <1>27, <1>28, Rest2Gone
<1>30. Copied(t, a, y)
  BY <1>4, <1>13, <1>18 DEF Copied
<1>31. QED
  BY <1>27, <1>29, <1>30 DEF Passed

\* The copy of f.i2 without the reference at position i.
Dropped(a, i) == [a EXCEPT ![i] = NULL_CLUSTER]

DoubleGone(v, i, D, S, k, x, e, y) ==
  /\ Cut(v, y, D, S) /\ Closed(v, D) /\ From(v, D, S)
  /\ y.csize = v.csize - k /\ Quiet(v, y) /\ y.i2 = v.i2 /\ Copied(x, e, y)
  /\ \A j \in Position : j # i => y.disk[v.i2][j] = v.disk[v.i2][j]

\* c freed with references of it, and its own taken out of the copy of f.i2.
LEMMA DoubleCut ==
  ASSUME NEW u, NEW a, NEW v, Copied(u, a, v), Sound(v), NEW i \in Position,
         NEW c, c = a[i], c # NULL_CLUSTER, Written(u, c), NEW P \in SUBSET Held(u.disk[c]),
         NEW S, S = RefFreeing(u, c, P), NEW k, NEW x, Aside(v, S, k, x),
         NEW e, e = Dropped(a, i), NEW y, y = Write(x, u.i2, e),
         NEW D, D = RefCells(v, v.i2, i, c)
  PROVE  DoubleGone(v, i, D, S, k, x, e, y)
<1>1. /\ Written(v, c) /\ v.disk[c] = u.disk[c] /\ c = v.disk[v.i2][i]
      /\ c \in Cluster /\ v.i2 \in Cluster /\ Holds(v, v.i2, i) /\ At(v, v.i2, i) = c
  BY CopiedHere
<1>2. v.i2 = u.i2 /\ v.disk[v.i2] = a
  BY CopiedIs
<1>3. a \in [Position -> OptCluster]
  BY DEF Copied
<1>4. e \in [Position -> OptCluster] /\ e \in Array
      /\ \A j \in Position : e[j] = IF j = i THEN NULL_CLUSTER ELSE a[j]
  BY <1>3 DEF Dropped, Array, OptCluster
<1>5. /\ x \in States /\ x.free = v.free \cup S /\ x.csize = v.csize - k
      /\ SameInode(v, x) /\ Quiet(v, x)
  BY DEF Aside
<1>6. \A b \in Cluster : b # v.i2 => x.disk[b] = After(v, S, b)
  BY DEF Aside
<1>7. x.i2 = v.i2
  BY <1>5 DEF SameInode
<1>8. Copied(x, e, y)
  BY <1>1, <1>2, <1>4, <1>5, <1>7 DEF Copied
<1>9. WroteTo(x, v.i2, e, y)
  BY <1>1, <1>2, <1>4, <1>5, WriteIs
<1>10. /\ y \in States /\ y.free = x.free /\ y.csize = x.csize
       /\ SameInode(x, y) /\ Quiet(x, y)
  BY <1>9 DEF WroteTo
<1>11. \A b \in Cluster : y.disk[b] = IF b = v.i2 THEN e ELSE x.disk[b]
  BY <1>9 DEF WroteTo
<1>12. y.free = v.free \cup S /\ y.csize = v.csize - k /\ SameInode(v, y)
  BY <1>5, <1>10 DEF SameInode
<1>13. Quiet(v, y)
  BY <1>5, <1>10 DEF Quiet, Flags
<1>14. y.i2 = v.i2 /\ y.d = v.d /\ y.i1 = v.i1
  BY <1>12 DEF SameInode
<1>15. e = Clear(v.disk[v.i2], {i})
  <2>1. Clear(a, {i}) = [j \in Position |-> IF j = i THEN NULL_CLUSTER ELSE a[j]]
    BY <1>3 DEF Clear
  <2>2. QED
    BY <1>2, <1>4, <2>1
<1>16. ASSUME NEW b \in Cluster
       PROVE  y.disk[b] = IF b = v.i2 THEN Clear(v.disk[b], {i}) ELSE After(v, S, b)
  BY <1>6, <1>11, <1>15
<1>17. v.i2 # -2
  BY <1>1, ClusterType
<1>18. RefFreed(v, v.i2, i, c, P, S, y)
  BY <1>10, <1>12, <1>14, <1>16, <1>17, Zenon DEF RefFreed
<1>19. P \in SUBSET Held(v.disk[c]) /\ S = RefFreeing(v, c, P)
  BY <1>1 DEF RefFreeing
<1>20. Cut(v, y, D, S) /\ Closed(v, D) /\ From(v, D, S)
  BY <1>1, <1>18, <1>19, RefCut
<1>21. \A j \in Position : j # i => y.disk[v.i2][j] = v.disk[v.i2][j]
  BY <1>1, <1>2, <1>4, <1>11
<1>22. QED
  BY <1>8, <1>12, <1>13, <1>14, <1>20, <1>21, Zenon DEF DoubleGone

\* What is so cut is c, and all the references of it.
LEMMA DoubleErased ==
  ASSUME NEW z, Sound(z), NEW u, NEW a, NEW v, Copied(u, a, v), NEW ffcn \in Nat,
         Going(z, v, ffcn), NEW i \in Position,
         NEW c, c = a[i], c # NULL_CLUSTER, Written(u, c),
         NEW P, P = Held(u.disk[c]), \A p \in P : Late2(i, p, ffcn),
         NEW x, x = FreeOne(FreeAll(u, u.disk[c], P), c),
         NEW e, e = Dropped(a, i), NEW y, y = Write(x, u.i2, e)
  PROVE  Passed(z, v, i, c, ffcn, x, e, y)
<1>1. Sound(v) /\ v \in States
  BY DEF Going, Trims, Sound
<1>2. /\ Written(v, c) /\ v.disk[c] = u.disk[c] /\ c = v.disk[v.i2][i]
      /\ c \in Cluster /\ IsRef(v, c) /\ c # v.i2 /\ ~ RefNode(v, c) /\ c # u.i2
      /\ v.i2 \in Cluster /\ Holds(v, v.i2, i) /\ At(v, v.i2, i) = c
  BY <1>1, CopiedHere
<1>3. v.i2 = u.i2 /\ v.i2 # NULL_CLUSTER /\ v.disk[v.i2] = a /\ Written(v, v.i2)
  BY CopiedIs
<1>4. u \in States
  BY DEF Copied
<1>5. P \in SUBSET Held(u.disk[c]) /\ P \subseteq Position
  BY <1>1, <1>2, HeldIs, Zenon
<1> DEFINE S == RefFreeing(u, c, P)
           D == RefCells(v, v.i2, i, c)
           k == Cardinality(P) + 1
<1>6. FreedTo(u, S, k, x)
  BY <1>2, <1>4, <1>5, RefGone, Zenon
<1>7. Aside(v, S, k, x)
  BY <1>6, CopiedFreed
<1>8. S = RefFreeing(u, c, P) /\ D = RefCells(v, v.i2, i, c) /\ k = Cardinality(P) + 1
  OBVIOUS
<1> HIDE DEF S, D, k
<1>9. DoubleGone(v, i, D, S, k, x, e, y)
  BY <1>1, <1>5, <1>7, <1>8, DoubleCut
<1>10. /\ Cut(v, y, D, S) /\ Closed(v, D) /\ From(v, D, S)
      /\ y.csize = v.csize - k /\ Quiet(v, y) /\ y.i2 = v.i2 /\ Copied(x, e, y)
  BY <1>9 DEF DoubleGone
<1>11. \A j \in Position : j # i => y.disk[v.i2][j] = v.disk[v.i2][j]
  BY <1>9 DEF DoubleGone
<1>12. Cardinality(P) \in Nat
  BY <1>2, <1>4, RowFinite, Zenon
<1>13. D \subseteq Counted(v) /\ k \in Int /\ Cardinality(D) = k
  <2>1. /\ RefCells(v, v.i2, i, c) \subseteq Counted(v)
        /\ Cardinality(RefCells(v, v.i2, i, c)) = Cardinality(Held(v.disk[c])) + 1
    BY <1>1, <1>2, <1>3, Rest2Here
  <2>2. Held(v.disk[c]) = P
    BY <1>2, Zenon
  <2>3. QED
    BY <1>8, <1>12, <2>1, <2>2
<1>14. \A p : At(v, c, p) = v.disk[c][p]
  <2>1. c \in Cluster
    BY <1>2
  <2>2. QED
    BY <2>1, AtCluster, Zenon
<1>15. Spares(v, D, S, ffcn)
  <2>1. ASSUME NEW n, NEW p, <<n, p>> \in D
        PROVE  At(v, n, p) \in S /\ \A g : Locates(v, g, n, p) => ~ (g < ffcn)
    <3>1. CASE n = c /\ p \in P
      <4>1. At(v, n, p) \in S
        BY <1>2, <1>8, <1>14, <3>1, Zenon DEF RefFreeing, Freeing
      <4>2. p \in Position /\ Late2(i, p, ffcn)
        BY <1>5, <3>1
      <4>3. \A g : Locates(v, g, n, p) => ~ (g < ffcn)
        BY <1>1, <1>2, <3>1, <4>2, SpareDouble, Zenon
      <4>4. QED
        BY <4>1, <4>3
    <3>2. CASE n = v.i2 /\ p = i
      <4>1. At(v, n, p) \in S
        BY <1>2, <1>8, <3>2, Zenon DEF RefFreeing
      <4>2. RefNode(v, v.i2)
        BY DEF RefNode
      <4>3. \A g : ~ Locates(v, g, n, p)
        BY <1>1, <1>2, <3>2, <4>2, LocatesNone, Zenon
      <4>4. QED
        BY <4>1, <4>3
    <3>3. <<n, p>> = <<v.i2, i>> \/ (n = c /\ p \in P)
      BY <1>2, <1>8, <2>1, Zenon DEF RefCells, Cells
    <3>4. QED
      BY <3>1, <3>2, <3>3
  <2>2. QED
    BY <2>1 DEF Spares
<1>16. Going(z, y, ffcn) /\ Owed(y) = Owed(v) /\ Counted(y) = Counted(v) \ D
  BY <1>10, <1>13, <1>15, GoingCut
<1>17. Rest2(y, i + 1) \subseteq Rest2(v, i) \ RefCells(v, v.i2, i, c)
  BY <1>1, <1>2, <1>3, <1>10, <1>11, <1>16, Rest2Gone
<1>18. QED
  BY <1>10, <1>16, <1>17 DEF Passed

LEMMA StuckCopied ==
  ASSUME NEW z, NEW u, NEW a, NEW v, Copied(u, a, v), NEW ffcn, Going(z, v, ffcn),
         NEW y, y = [u EXCEPT !.undefined = TRUE]
  PROVE  Stuck(z, y)
<1>1. Sound(v) /\ Counts(v) /\ Quiet(z, v)
  BY DEF Going, Trims
<1>2. v.csize \in 0 .. CTotal
  BY <1>1, SizeRange
<1>3. u \in States /\ v.csize = u.csize /\ Quiet(u, v)
  BY CopiedIs DEF Copied
<1>4. QED
  BY <1>1, <1>2, <1>3 DEF Stuck, States, Quiet, Flags

LEMMA FreedMore ==
  ASSUME NEW z \in States, NEW S, NEW k \in Int, NEW x, FreedTo(z, S, k, x), NEW c \in Cluster,
         NEW y, y = FreeOne(x, c)
  PROVE  FreedTo(z, S \cup {c}, k + 1, y)
<1>1. y = Freed(x, {c}, 1) /\ {c} \in SUBSET Cluster /\ 1 \in Int
  BY DEF FreeOne, Freed
<1>2. x \in States
  BY DEF FreedTo
<1>3. FreedTo(x, {c}, 1, y)
  BY <1>1, <1>2, FreedIs
<1>4. y.csize = z.csize - (k + 1)
  BY <1>3, Fields DEF FreedTo
<1>5. \A b \in Cluster : y.disk[b] = After(z, S \cup {c}, b)
  BY <1>3 DEF FreedTo, After
<1>6. /\ y \in States /\ y.free = z.free \cup (S \cup {c})
      /\ SameInode(z, y) /\ Quiet(z, y)
  BY <1>3 DEF FreedTo, SameInode, Quiet, Flags
<1>7. QED
  BY <1>4, <1>5, <1>6 DEF FreedTo

LEMMA TopFreedIs ==
  ASSUME NEW u, NEW a, NEW v, Copied(u, a, v), NEW S, u.i2 \in S, NEW k, NEW x,
         FreedTo(u, S, k, x), NEW y, y = SetI2(x)
  PROVE  TopFreed(v, S, y) /\ y.csize = v.csize - k /\ Quiet(v, y)
<1>1. /\ v.free = u.free /\ v.csize = u.csize /\ SameInode(u, v) /\ Quiet(u, v) /\ v.i2 = u.i2
  BY CopiedIs
<1>2. \A b \in Cluster : b # u.i2 => v.disk[b] = u.disk[b]
  BY CopiedIs
<1>3. /\ x \in States /\ x.free = u.free \cup S /\ x.csize = u.csize - k
      /\ SameInode(u, x) /\ Quiet(u, x)
  BY DEF FreedTo
<1>4. \A b \in Cluster : x.disk[b] = After(u, S, b)
  BY DEF FreedTo
<1>5. /\ y \in States /\ y.free = x.free /\ y.csize = x.csize /\ Quiet(x, y)
      /\ y.disk = x.disk /\ y.d = x.d /\ y.i1 = x.i1 /\ y.i2 = NULL_CLUSTER
  BY <1>3, SetI2Is
<1>6. Quiet(v, y)
  BY <1>1, <1>3, <1>5 DEF Quiet, Flags
<1>7. y.d = v.d /\ y.i1 = v.i1
  BY <1>1, <1>3, <1>5 DEF SameInode
<1>8. \A b \in Cluster : y.disk[b] = After(v, S, b)
  BY <1>2, <1>4, <1>5 DEF After
<1>9. QED
  BY <1>1, <1>3, <1>5, <1>6, <1>7, <1>8 DEF TopFreed

\* The tree of f.i2 is gone, and csize counts none of it any more.
LEMMA TopGone ==
  ASSUME NEW z, Sound(z), NEW v, NEW ffcn, Going(z, v, ffcn), v.i2 # NULL_CLUSTER,
         NEW S, v.i2 \in S, \A c \in Cluster : Middle(v, c) /\ Written(v, c) => c \in S,
         From(v, Top(v), S), NEW y, TopFreed(v, S, y), NEW k \in Int, y.csize = v.csize - k,
         Quiet(v, y), Owed(v) + Cardinality(Counted(v) \cap Top(v)) = k,
         Whole(v) => Spares(v, Top(v), S, ffcn)
  PROVE  Going(z, y, ffcn)
<1>1. Sound(v) /\ v \in States /\ Trims(z, v, ffcn) /\ Quiet(z, v)
  BY DEF Going, Trims, Sound
<1>2. Cut(v, y, Top(v), S) /\ Closed(v, Top(v))
  BY <1>1, TopCut
<1>3. Trims(v, y, ffcn)
  BY <1>1, <1>2, CutTrims
<1>4. Trims(z, y, ffcn)
  BY <1>1, <1>3, TrimsTrans
<1>5. Cardinality(Counted(y)) = Cardinality(Counted(v)) - Cardinality(Counted(v) \cap Top(v))
  BY <1>1, <1>2, CutCount
<1>6. Cardinality(Counted(v)) \in Nat /\ Cardinality(Counted(v) \cap Top(v)) \in Nat
  <2>1. Counted(v) \cap Top(v) \subseteq Counted(v)
    OBVIOUS
  <2>2. QED
    BY <2>1, CountedFinite, FS_Subset, FS_CardinalityType
<1>7. v.csize \in Int
  BY <1>1, Fields
<1>8. Owed(y) = 0
  BY <1>5, <1>6, <1>7 DEF Owed
<1>9. y.i2 = NULL_CLUSTER
  BY DEF TopFreed
<1>10. Quiet(z, y)
  BY <1>1 DEF Quiet, Flags
<1>11. QED
  BY <1>4, <1>8, <1>9, <1>10 DEF Going, Counts

\* At the end of the loop, with no reference left in f.i2.
LEMMA DoubleEmptied ==
  ASSUME NEW z, Sound(z), NEW u, NEW a, NEW v, Copied(u, a, v), NEW ffcn,
         Going(z, v, ffcn), \A j \in Position : a[j] = NULL_CLUSTER,
         NEW y, y = SetI2(FreeOne(u, u.i2))
  PROVE  Going(z, y, ffcn)
<1>1. Sound(v) /\ v \in States /\ Counts(v)
  BY DEF Going, Trims, Sound
<1>2. v.i2 = u.i2 /\ v.i2 # NULL_CLUSTER /\ v.disk[v.i2] = a /\ Written(v, v.i2)
  BY CopiedIs
<1>3. u \in States /\ u.i2 \in Cluster
  BY DEF Copied
<1> DEFINE S == {u.i2}
           x == FreeOne(u, u.i2)
<1>4. x = Freed(u, S, 1) /\ S \in SUBSET Cluster /\ 1 \in Int
  BY <1>3 DEF FreeOne, Freed
<1>5. y = SetI2(x) /\ S = {u.i2} /\ u.i2 \in S
  OBVIOUS
<1> HIDE DEF S, x
<1>6. FreedTo(u, S, 1, x)
  BY <1>3, <1>4, FreedIs
<1>7. TopFreed(v, S, y) /\ y.csize = v.csize - 1 /\ Quiet(v, y)
  BY <1>5, <1>6, TopFreedIs
<1>8. \A c \in Cluster : ~ Middle(v, c)
  BY <1>2, ClusterType DEF Middle
<1>9. \A q : ~ Holds(v, v.i2, q)
  BY <1>2, <1>3, HoldsIn
<1>10. ASSUME NEW m, NEW q, <<m, q>> \in Top(v) PROVE m = -3 /\ q = 0 /\ Holds(v, -3, 0)
  <2>1. Holds(v, m, q) /\ (m = -3 \/ m = v.i2 \/ Middle(v, m))
    BY <1>1, <1>10, InTop
  <2>2. m = -3
    <3>1. m = v.i2 => FALSE
      BY <1>9, <2>1
    <3>2. Middle(v, m) => m = NULL_CLUSTER
      BY <1>2 DEF Middle
    <3>3. m # NULL_CLUSTER
      BY <2>1, NodeType, ClusterType, Sizes DEF NULL_CLUSTER
    <3>4. QED
      BY <2>1, <3>1, <3>2, <3>3
  <2>3. QED
    BY <2>1, <2>2, HoldsDouble
<1>11. <<-3, 0>> \in Top(v) /\ At(v, -3, 0) = v.i2
  <2>1. Holds(v, -3, 0)
    BY <1>2, HoldsDouble
  <2>2. QED
    BY <1>1, <2>1, InTop, AtInode
<1>12. From(v, Top(v), S)
  BY <1>2, <1>5, <1>11 DEF From
<1>13. Counted(v) \cap Top(v) = {}
  <2>1. SUFFICES ASSUME NEW q \in Counted(v), q \in Top(v) PROVE FALSE
    OBVIOUS
  <2>2. q = <<q[1], q[2]>> /\ Counts1(v, q[1], q[2])
    BY <2>1, CountedPair
  <2>3. q[1] = -3
    BY <1>10, <2>1, <2>2
  <2>4. QED
    BY <2>2, <2>3 DEF Counts1
<1>14. Owed(v) = 1
  <2>1. ~ BareBelow(v)
    BY <1>2, <1>9 DEF BareBelow, Bare
  <2>2. QED
    BY <1>1, <1>2, <2>1 DEF Counts
<1>15. Owed(v) + Cardinality(Counted(v) \cap Top(v)) = 1
  BY <1>13, <1>14, FS_EmptySet
<1>16. Spares(v, Top(v), S, ffcn)
  <2>1. ASSUME NEW n, NEW p, <<n, p>> \in Top(v)
        PROVE  At(v, n, p) \in S /\ \A g : Locates(v, g, n, p) => ~ (g < ffcn)
    <3>1. n = -3 /\ p = 0 /\ Holds(v, -3, 0) /\ RefNode(v, -3)
      BY <1>10, <2>1 DEF RefNode
    <3>2. \A g : ~ Locates(v, g, -3, 0)
      BY <1>1, <3>1, LocatesNone
    <3>3. QED
      BY <1>2, <1>5, <1>11, <3>1, <3>2
  <2>2. QED
    BY <2>1 DEF Spares
<1>17. v.i2 \in S
  BY <1>2, <1>5
<1>18. QED
  BY <1>2, <1>4, <1>7, <1>8, <1>12, <1>15, <1>16, <1>17, TopGone

\* The count ran out at position i: below f.i2 no place is counted but those of
\* this reference cluster, and there is one whose cluster nobody has written.
LEMMA LastFound ==
  ASSUME NEW z, Sound(z), Counts(z), z.i2 # NULL_CLUSTER, Written(z, z.i2), NEW i \in Position,
         NEW c, c = z.disk[z.i2][i], c # NULL_CLUSTER, Written(z, c),
         Cardinality(Rest2(z, i)) + Owed(z) <= Cardinality(Held(z.disk[c])) + 1
  PROVE  Owed(z) = 0 /\ Rest2(z, i) = RefCells(z, z.i2, i, c) /\ ~ Whole(z)
<1> DEFINE C == RefCells(z, z.i2, i, c)
<1>1. /\ C \subseteq Rest2(z, i) /\ Cardinality(C) = Cardinality(Held(z.disk[c])) + 1
      /\ c \in Cluster
  BY Rest2Here
<1>2. z \in States /\ i \in Nat
  BY Sizes DEF Sound, Position
<1>3. IsFiniteSet(Rest2(z, i)) /\ Cardinality(Rest2(z, i)) \in Nat
  BY <1>2, Rest2Later
<1> HIDE DEF C
<1>4. Cardinality(C) \in Nat /\ Cardinality(C) <= Cardinality(Rest2(z, i))
  BY <1>1, <1>3, FS_Subset, FS_CardinalityType
<1>5. Owed(z) = 0
  <2>1. Owed(z) = 0 \/ Owed(z) = 1
    BY DEF Counts
  <2>2. QED
    BY <1>1, <1>3, <1>4, <2>1
<1>6. Rest2(z, i) = C
  <2>1. Cardinality(C) = Cardinality(Rest2(z, i))
    BY <1>1, <1>3, <1>4, <1>5
  <2>2. QED
    BY <1>1, <1>3, <2>1, FS_Subset
<1>7. BareBelow(z)
  BY <1>5 DEF Counts
<1>8. ~ Whole(z)
  BY <1>7 DEF BareBelow, Whole
<1>9. QED
  BY <1>5, <1>6, <1>8 DEF C

\* All met were freed and c with them, but c has one reference more: it is lost.
LEMMA LastErased ==
  ASSUME NEW z, Sound(z), NEW u, NEW a, NEW v, Copied(u, a, v), NEW ffcn,
         Going(z, v, ffcn), NEW i \in Position,
         NEW c, c = a[i], c # NULL_CLUSTER, Written(u, c), NEW P \in SUBSET Held(u.disk[c]),
         Cardinality(P) = Cardinality(Held(u.disk[c])) - 1, Owed(v) = 0, ~ Whole(v),
         NEW x, Aside(v, RefFreeing(u, c, P), Cardinality(P) + 1, x),
         NEW e, e = Dropped(a, i), NEW y, y = Write(x, u.i2, e)
  PROVE  Going(z, y, ffcn)
<1>1. Sound(v) /\ v \in States /\ Trims(z, v, ffcn) /\ Quiet(z, v)
  BY DEF Going, Trims, Sound
<1>2. /\ Written(v, c) /\ v.disk[c] = u.disk[c] /\ c = v.disk[v.i2][i] /\ c \in Cluster
      /\ v.i2 \in Cluster
  BY <1>1, CopiedHere
<1>3. v.i2 = u.i2 /\ v.i2 # NULL_CLUSTER /\ Written(v, v.i2)
  BY CopiedIs
<1>4. u \in States
  BY DEF Copied
<1>5. P \in SUBSET Held(u.disk[c])
  OBVIOUS
<1> DEFINE S == RefFreeing(u, c, P)
           D == RefCells(v, v.i2, i, c)
           k == Cardinality(P) + 1
<1>6. Aside(v, S, k, x)
  OBVIOUS
<1>7. S = RefFreeing(u, c, P) /\ D = RefCells(v, v.i2, i, c) /\ k = Cardinality(P) + 1
  OBVIOUS
<1> HIDE DEF S, D, k
<1>8. DoubleGone(v, i, D, S, k, x, e, y)
  BY <1>1, <1>5, <1>6, <1>7, DoubleCut
<1>9. /\ Cut(v, y, D, S) /\ Closed(v, D) /\ From(v, D, S)
      /\ y.csize = v.csize - k /\ Quiet(v, y) /\ y.i2 = v.i2
  BY <1>8 DEF DoubleGone
<1>10. Copied(x, e, y)
  BY <1>8 DEF DoubleGone
<1>11. Written(y, y.i2)
  BY <1>10, CopiedIs
<1>12. Trims(z, y, ffcn)
  <2>1. Trims(v, y, ffcn)
    BY <1>1, <1>9, CutTrims, Zenon
  <2>2. QED
    BY <1>1, <2>1, TrimsTrans
<1>13. Cardinality(P) \in Nat /\ Cardinality(Held(u.disk[c])) \in Nat
  BY <1>2, <1>4, RowFinite
<1>14. D \subseteq Counted(v) /\ Cardinality(D) = k + 1
  <2>1. /\ RefCells(v, v.i2, i, c) \subseteq Counted(v)
        /\ Cardinality(RefCells(v, v.i2, i, c)) = Cardinality(Held(v.disk[c])) + 1
    <3>1. Written(v, c) /\ c = v.disk[v.i2][i]
      BY <1>2, Zenon
    <3>2. QED
      BY <1>1, <1>3, <3>1, Rest2Cells
  <2>2. Cardinality(Held(v.disk[c])) = Cardinality(P) + 1
    BY <1>2, <1>13
  <2>3. QED
    BY <1>7, <1>13, <2>1, <2>2
<1>15. Cardinality(Counted(y)) = Cardinality(Counted(v)) - (k + 1)
  <2>1. Counted(v) \cap D = D
    BY <1>14
  <2>2. QED
    BY <1>1, <1>9, <1>14, <2>1, CutCount
<1>16. Owed(y) = 1
  <2>1. v.csize \in Int
    BY <1>1, Fields, Zenon
  <2>2. Cardinality(P) + 1 \in Int
    BY <1>13
  <2>3. k \in Int
    BY <1>7, <2>2, Zenon
  <2>4. Owed(y) = y.csize - Cardinality(Counted(y)) /\ 0 = v.csize - Cardinality(Counted(v))
    BY Zenon DEF Owed
  <2>5. Cardinality(Counted(v)) \in Int
    BY <1>1, CountedFinite
  <2>6. QED
    BY <1>9, <1>15, <2>1, <2>3, <2>4, <2>5
<1>17. Counts(y)
  BY <1>3, <1>9, <1>11, <1>16 DEF Counts
<1>18. Quiet(z, y)
  BY <1>1, <1>9 DEF Quiet, Flags
<1>19. QED
  BY <1>12, <1>17, <1>18 DEF Going

\* The same when nothing had been left before it: f.i2 goes as well.
LEMMA LastTop ==
  ASSUME NEW z, Sound(z), NEW u, NEW a, NEW v, Copied(u, a, v), NEW ffcn,
         Going(z, v, ffcn), NEW i \in Position,
         NEW c, c = a[i], c # NULL_CLUSTER, Written(u, c), NEW P \in SUBSET Held(u.disk[c]),
         Cardinality(P) = Cardinality(Held(u.disk[c])) - 1, Owed(v) = 0, ~ Whole(v),
         Rest2(v, i) = RefCells(v, v.i2, i, c), \A j \in 0 .. i - 1 : a[j] = NULL_CLUSTER,
         NEW x, FreedTo(u, RefFreeing(u, c, P), Cardinality(P) + 1, x),
         NEW y, y = SetI2(FreeOne(x, u.i2))
  PROVE  Going(z, y, ffcn)
<1>1. Sound(v) /\ v \in States
  BY DEF Going, Trims, Sound
<1>2. /\ Written(v, c) /\ v.disk[c] = u.disk[c] /\ c = v.disk[v.i2][i] /\ c \in Cluster
      /\ v.i2 \in Cluster /\ c # v.i2 /\ Holds(v, v.i2, i) /\ At(v, v.i2, i) = c
  BY <1>1, CopiedHere
<1>3. v.i2 = u.i2 /\ v.i2 # NULL_CLUSTER /\ Written(v, v.i2) /\ v.disk[v.i2] = a
  BY CopiedIs
<1>4. u \in States /\ u.i2 \in Cluster /\ a \in [Position -> OptCluster]
  BY DEF Copied
<1> DEFINE S1 == RefFreeing(u, c, P)
           k1 == Cardinality(P) + 1
           t == FreeOne(x, u.i2)
           S == S1 \cup {u.i2}
           k == k1 + 1
           C == RefCells(v, v.i2, i, c)
<1>5. Cardinality(P) \in Nat /\ Cardinality(Held(u.disk[c])) \in Nat
  BY <1>2, <1>4, RowFinite, Zenon
<1>6. FreedTo(u, S1, k1, x) /\ y = SetI2(t) /\ t = FreeOne(x, u.i2) /\ k1 \in Int
      /\ S = S1 \cup {u.i2} /\ k = k1 + 1 /\ u.i2 \in S /\ k \in Int
  <2>1. k1 \in Int /\ k \in Int
    BY <1>5
  <2>2. u.i2 \in S
    OBVIOUS
  <2>3. QED
    BY <2>1, <2>2
<1>7. k = Cardinality(Held(v.disk[c])) + 1
  BY <1>2, <1>5
<1>8. c \in S /\ \A p \in P : v.disk[c][p] \in S
  BY <1>2, Zenon DEF RefFreeing, Freeing
<1>9. \A b \in S : b = u.i2 \/ b = c \/ \E p \in P : b = v.disk[c][p]
  BY <1>2, Zenon DEF RefFreeing, Freeing
<1> HIDE DEF S1, k1, t, S, k
<1>10. FreedTo(u, S, k, t)
  BY <1>4, <1>6, FreedMore
<1>11. TopFreed(v, S, y) /\ y.csize = v.csize - k /\ Quiet(v, y)
  BY <1>6, <1>10, TopFreedIs
<1>12. Rest2(v, i) = C /\ C \subseteq Counted(v) /\ Cardinality(C) = Cardinality(Held(v.disk[c])) + 1
  BY <1>1, <1>2, <1>3, Rest2Here
<1>13. \A q \in C : (q[1] = v.i2 /\ q[2] = i) \/ q[1] = c
  BY DEF RefCells, Cells
<1> HIDE DEF C
<1>14. Middle(v, c)
  BY <1>2, <1>3 DEF Middle
<1>15. C \subseteq Counted(v) \cap Top(v)
  <2>1. SUFFICES ASSUME NEW q \in C PROVE q \in Top(v)
    BY <1>12
  <2>2. q = <<q[1], q[2]>> /\ Holds(v, q[1], q[2])
    BY <1>12, CountedPair DEF Counts1
  <2>3. <<q[1], q[2]>> \in Top(v)
    BY <1>1, <1>13, <1>14, <2>2, InTop
  <2>4. QED
    BY <2>2, <2>3
<1>16. ASSUME NEW j \in Position, v.disk[v.i2][j] # NULL_CLUSTER PROVE j \in i .. RPC - 1 /\ j >= i
  <2>1. i \in Nat /\ j \in Nat /\ j \in 0 .. RPC - 1 /\ RPC \in Nat
    BY Sizes DEF Position
  <2>2. ~ (j \in 0 .. i - 1)
    BY <1>3, <1>16
  <2>3. QED
    BY <2>1, <2>2
<1>17. Counted(v) \cap Top(v) \subseteq C
  <2>1. SUFFICES ASSUME NEW q \in Counted(v), q \in Top(v) PROVE q \in Rest2(v, i)
    BY <1>12
  <2>2. q = <<q[1], q[2]>> /\ Counts1(v, q[1], q[2])
    BY <2>1, CountedPair
  <2>3. Holds(v, q[1], q[2]) /\ q[1] # -3
    BY <2>2 DEF Counts1
  <2>4. q[1] = v.i2 \/ Middle(v, q[1])
    BY <1>1, <2>1, <2>2, <2>3, InTop
  <2>5. CASE q[1] = v.i2
    <3>1. q[2] \in Position /\ v.disk[v.i2][q[2]] # NULL_CLUSTER
      BY <1>2, <2>3, <2>5, HoldsIn
    <3>2. q[2] >= i
      BY <1>16, <3>1
    <3>3. QED
      BY <2>1, <2>5, <3>2 DEF Rest2
  <2>6. CASE Middle(v, q[1])
    <3>1. PICK j \in Position : v.disk[v.i2][j] = q[1]
      BY <2>6 DEF Middle
    <3>2. q[1] # NULL_CLUSTER
      BY <2>3, NodeType, ClusterType, Sizes DEF NULL_CLUSTER
    <3>3. j \in i .. RPC - 1
      BY <1>16, <3>1, <3>2
    <3>4. QED
      BY <2>1, <3>1, <3>3 DEF Rest2
  <2>7. QED
    BY <2>4, <2>5, <2>6
<1>18. Counted(v) \cap Top(v) = C
  BY <1>15, <1>17
<1>19. ASSUME NEW b \in Cluster, Middle(v, b), Written(v, b) PROVE b \in S
  <2>1. PICK j \in Position : v.disk[v.i2][j] = b
    BY <1>19 DEF Middle
  <2>2. Holds(v, v.i2, j) /\ At(v, v.i2, j) = b
    BY <1>2, <1>3, <2>1, HoldsIn, ClusterType DEF IsRef
  <2>3. Counts1(v, v.i2, j)
    BY <1>2, <1>19, <2>2, ClusterType, Zenon DEF Counts1, Bare
  <2>4. j \in i .. RPC - 1 /\ j >= i
    BY <1>16, <2>1, ClusterType
  <2>5. <<v.i2, j>> \in Counted(v)
    BY <1>1, <2>3, InCounted
  <2>6. <<v.i2, j>> \in C
    <3>1. <<v.i2, j>> \in Rest2(v, i)
      BY <2>4, <2>5 DEF Rest2
    <3>2. QED
      BY <1>12, <3>1
  <2>7. j = i
    BY <1>2, <1>13, <2>6
  <2>8. QED
    BY <1>2, <1>8, <2>1, <2>7, Zenon
<1>20. From(v, Top(v), S)
  <2>1. <<-3, 0>> \in Top(v) /\ At(v, -3, 0) = u.i2
    BY <1>1, <1>3, HoldsDouble, InTop, AtInode
  <2>2. <<v.i2, i>> \in Top(v) /\ At(v, v.i2, i) = c
    BY <1>1, <1>2, InTop, Zenon
  <2>3. ASSUME NEW p \in P PROVE <<c, p>> \in Top(v) /\ At(v, c, p) = v.disk[c][p]
    <3>1. p \in Held(v.disk[c]) /\ IsRef(v, c)
      BY <1>2, <1>14, Zenon DEF IsRef
    <3>2. Holds(v, c, p)
      BY <1>1, <1>2, <3>1, HeldIs, Zenon
    <3>3. <<c, p>> \in Top(v)
      BY <1>1, <1>14, <3>2, InTop, Zenon
    <3>4. At(v, c, p) = v.disk[c][p]
      <4>1. c \in Cluster
        BY <1>2
      <4>2. QED
        BY <4>1, AtCluster
    <3>5. QED
      BY <3>3, <3>4, Zenon
  <2>4. ASSUME NEW b \in S PROVE \E n, p : <<n, p>> \in Top(v) /\ At(v, n, p) = b
    <3>1. CASE b = u.i2
      BY <2>1, <3>1
    <3>2. CASE b = c
      BY <2>2, <3>2
    <3>3. CASE \E p \in P : b = v.disk[c][p]
      BY <2>3, <3>3
    <3>4. QED
      BY <1>9, <3>1, <3>2, <3>3
  <2>5. QED
    BY <2>4 DEF From
<1>21. Owed(v) + Cardinality(Counted(v) \cap Top(v)) = k
  <2>1. Cardinality(Counted(v) \cap Top(v)) = Cardinality(C)
    BY <1>18
  <2>2. QED
    BY <1>6, <1>7, <1>12, <2>1
<1>22. v.i2 \in S
  BY <1>3, <1>6
<1>23. QED
  BY <1>3, <1>6, <1>11, <1>19, <1>20, <1>21, <1>22, TopGone

\* The routine returns at position i.
Ended(u, a, i, c, met, P, erase) ==
  LET freed == FreeAll(u, u.disk[c], P)
      gone == FreeOne(freed, c)
  IN  IF P # met THEN Write(Write(freed, c, Clear(u.disk[c], P)), u.i2, a)
      ELSE IF erase THEN Write(SetI2(FreeOne(gone, u.i2)), NULL_CLUSTER, NoRefs)
      ELSE Write(Write(gone, NULL_CLUSTER, NoRefs), u.i2, Dropped(a, i))

LEMMA LastStep ==
  ASSUME NEW z, Sound(z), NEW u, NEW a, NEW v, Copied(u, a, v), NEW ffcn \in Nat,
         Going(z, v, ffcn), NEW i \in Position,
         NEW c, c = a[i], c # NULL_CLUSTER, Written(u, c),
         NEW t \in Int, Cardinality(Rest2(v, i)) + Owed(v) <= t,
         NEW met, met = Firsts(u.disk[c], t - 2), met # Held(u.disk[c]),
         NEW P, P = {p \in met : Late2(i, p, ffcn)},
         NEW erase, erase => \A j \in 0 .. i - 1 : a[j] = NULL_CLUSTER,
         NEW y, y = Ended(u, a, i, c, met, P, erase)
  PROVE  Going(z, y, ffcn)
<1> DEFINE H == Held(u.disk[c])
<1>1. Sound(v) /\ v \in States /\ Counts(v)
  BY DEF Going, Trims, Sound
<1>2. /\ Written(v, c) /\ v.disk[c] = u.disk[c] /\ c = v.disk[v.i2][i] /\ c \in Cluster
  BY <1>1, CopiedHere
<1>3. v.i2 = u.i2 /\ v.i2 # NULL_CLUSTER /\ Written(v, v.i2)
  BY CopiedIs
<1>4. u \in States
  BY DEF Copied
<1>5. Cardinality(H) \in Nat /\ DOMAIN u.disk[c] = 0 .. RPC - 1 /\ RPC \in Nat
  BY <1>2, <1>4, RowFinite, HeldIs, Sizes, Zenon DEF Position
<1>6. Cardinality(H) + 1 <= t
  <2> DEFINE C == RefCells(v, v.i2, i, c)
  <2>1. C = RefCells(v, v.i2, i, c)
    OBVIOUS
  <2> HIDE DEF C
  <2>2. C \subseteq Rest2(v, i) /\ Cardinality(C) = Cardinality(Held(v.disk[c])) + 1
    <3>1. Written(v, c) /\ c = v.disk[v.i2][i]
      BY <1>2, Zenon
    <3>2. QED
      BY <1>1, <1>3, <2>1, <3>1, Rest2Cells
  <2>3. IsFiniteSet(Rest2(v, i)) /\ Cardinality(Rest2(v, i)) \in Nat
    BY <1>1, Rest2Later DEF Position
  <2>4. Cardinality(C) <= Cardinality(Rest2(v, i))
    BY <2>2, <2>3, FS_Subset
  <2>5. Owed(v) = 0 \/ Owed(v) = 1
    BY <1>1 DEF Counts
  <2>6. Cardinality(C) = Cardinality(H) + 1
    <3>1. Held(v.disk[c]) = H
      BY <1>2, Zenon
    <3>2. QED
      BY <2>2, <3>1
  <2>7. QED
    BY <1>5, <2>3, <2>4, <2>5, <2>6
<1>7. met \subseteq H /\ t - 2 = Cardinality(H) - 1 /\ Cardinality(met) = Cardinality(H) - 1
  <2>1. t - 2 \in Int /\ Cardinality(H) - 1 <= t - 2
    BY <1>5, <1>6
  <2>2. QED
    BY <1>5, <2>1, FirstsIs
<1>8. Owed(v) = 0 /\ Rest2(v, i) = RefCells(v, v.i2, i, c) /\ ~ Whole(v)
  <2>1. Cardinality(Rest2(v, i)) + Owed(v) <= Cardinality(Held(v.disk[c])) + 1
    <3>1. Held(v.disk[c]) = H
      BY <1>2
    <3>2. t = Cardinality(H) + 1
      BY <1>5, <1>7
    <3>3. QED
      BY <3>1, <3>2
  <2>2. QED
    BY <1>1, <1>2, <1>3, <2>1, LastFound, Zenon
<1>9. P \in SUBSET Held(u.disk[c])
  BY <1>7
<1> DEFINE freed == FreeAll(u, u.disk[c], P)
           gone == FreeOne(freed, c)
           up == SetI2(FreeOne(gone, u.i2))
           aside == Write(gone, NULL_CLUSTER, NoRefs)
<1>10. CASE P # met
  <2> DEFINE s == Write(freed, c, Clear(u.disk[c], P))
  <2>1. y = Write(s, u.i2, a) /\ s = Write(FreeAll(u, u.disk[c], P), c, Clear(u.disk[c], P))
    BY <1>10 DEF Ended
  <2> HIDE DEF s
  <2>2. Whole(v) => \A p \in P : Late2(i, p, ffcn)
    BY <1>8
  <2>3. Passed(z, v, i, c, ffcn, s, a, y)
    BY <1>9, <2>1, <2>2, DoubleKept
  <2>4. QED
    BY <2>3 DEF Passed
<1>11. CASE P = met
  <2>1. Cardinality(P) = Cardinality(Held(u.disk[c])) - 1
    BY <1>7, <1>11
  <2>2. FreedTo(u, RefFreeing(u, c, P), Cardinality(P) + 1, gone)
    BY <1>2, <1>4, <1>9, RefGone, Zenon
  <2>3. CASE erase
    <3>1. y = Write(up, NULL_CLUSTER, NoRefs) /\ up = SetI2(FreeOne(gone, u.i2))
      BY <1>11, <2>3 DEF Ended
    <3> HIDE DEF up, gone
    <3>2. Going(z, up, ffcn)
      BY <1>8, <1>9, <2>1, <2>2, <2>3, <3>1, LastTop
    <3>3. up \in States
      BY <3>2 DEF Going, Trims, Sound
    <3>4. y \in States /\ SameTree(up, y) /\ y.csize = up.csize /\ Quiet(up, y)
      BY <3>1, <3>3, WriteNullIs DEF SameTree, SameInode
    <3>5. QED
      BY <3>2, <3>4, GoingSame
  <2>4. CASE ~ erase
    <3>1. /\ y = Write(aside, u.i2, Dropped(a, i)) /\ aside = Write(gone, NULL_CLUSTER, NoRefs)
      BY <1>11, <2>4 DEF Ended
    <3> HIDE DEF aside, gone
    <3>2. Aside(v, RefFreeing(u, c, P), Cardinality(P) + 1, gone)
      BY <2>2, CopiedFreed
    <3>3. Aside(v, RefFreeing(u, c, P), Cardinality(P) + 1, aside)
      BY <3>1, <3>2, AsideNull
    <3>4. QED
      BY <1>8, <1>9, <2>1, <3>1, <3>3, LastErased
  <2>5. QED
    BY <2>3, <2>4
<1>12. QED
  BY <1>10, <1>11

\* The state of the loop, and the tree it is the state of.
Round2(s) == DOMAIN s = {"z", "total", "ref", "erase", "return"}
View(s) == Write(s.z, s.z.i2, s.ref)
Enough2(s, i) == s.total \in Int /\ Cardinality(Rest2(View(s), i)) + Owed(View(s)) <= s.total
Runs2(z, s, i, ffcn) ==
  /\ Copied(s.z, s.ref, View(s)) /\ Going(z, View(s), ffcn) /\ Enough2(s, i)
  /\ s.erase => \A j \in 0 .. i - 1 : s.ref[j] = NULL_CLUSTER
Loop2(z, e, s, i, ffcn) ==
  /\ Round2(s)
  /\ \/ s.return /\ (Going(z, s.z, ffcn) \/ Stuck(z, s.z))
     \/ ~ s.return /\ s.z.i2 = e /\ Runs2(z, s, i, ffcn)

\* FreeDoubleOne, case by case.
DoubleOne(s, i, ffcn, x) ==
  LET c == s.ref[i]
      H == Held(s.z.disk[c])
      met == Firsts(s.z.disk[c], s.total - 2)
      P == {p \in met : Late2(i, p, ffcn)}
      freed == FreeAll(s.z, s.z.disk[c], P)
      left == s.total - Cardinality(met)
  IN  /\ c = NULL_CLUSTER \/ s.return => x = s
      /\ ~ (c = NULL_CLUSTER \/ s.return) =>
           \/ x = [s EXCEPT !.z = [s.z EXCEPT !.undefined = TRUE], !.return = TRUE]
           \/ /\ Written(s.z, c) /\ met # H
              /\ x = [s EXCEPT !.z = Ended(s.z, s.ref, i, c, met, P, s.erase), !.return = TRUE]
           \/ /\ Written(s.z, c) /\ met = H /\ P = met
              /\ x = [s EXCEPT !.z = FreeOne(freed, c), !.total = left - 1,
                               !.ref = Dropped(s.ref, i)]
           \/ /\ Written(s.z, c) /\ met = H /\ P # met
              /\ x = [s EXCEPT !.z = Write(freed, c, Clear(s.z.disk[c], P)), !.total = left,
                               !.erase = FALSE]

LEMMA DoubleOneIs ==
  ASSUME NEW s, Round2(s), NEW i, NEW ffcn, NEW stop, NEW x, x = FreeDoubleOne(s, i, ffcn, stop)
  PROVE  DoubleOne(s, i, ffcn, x)
<1> DEFINE c == s.ref[i]
           H == Held(s.z.disk[c])
           met == Firsts(s.z.disk[c], s.total - 2)
           P == {p \in met : Late2(i, p, ffcn)}
           freed == FreeAll(s.z, s.z.disk[c], P)
           gone == FreeOne(freed, c)
           kept == Write(freed, c, Clear(s.z.disk[c], P))
           left == s.total - Cardinality(met)
<1>1. P = {p \in met : FirstDouble >= ffcn \/ i * RPC + p >= ffcn - FirstDouble}
  BY DEF Late2
<1>2. c = NULL_CLUSTER \/ s.return => x = s
  BY DEF FreeDoubleOne
<1>3. ASSUME ~ (c = NULL_CLUSTER \/ s.return), met # H, Written(s.z, c)
      PROVE  \/ x = [s EXCEPT !.z.undefined = TRUE, !.return = TRUE]
             \/ x = [s EXCEPT !.z = Ended(s.z, s.ref, i, c, met, P, s.erase), !.return = TRUE]
  BY <1>1, <1>3, Zenon DEF FreeDoubleOne, Ended, SetI2, Dropped, Written
<1>4. ASSUME ~ (c = NULL_CLUSTER \/ s.return), met = H, Written(s.z, c)
      PROVE  \/ x = [s EXCEPT !.z.undefined = TRUE, !.return = TRUE]
             \/ /\ P = met
                /\ x = [s EXCEPT !.z = gone, !.total = left - 1, !.ref = Dropped(s.ref, i)]
             \/ P # met /\ x = [s EXCEPT !.z = kept, !.total = left, !.erase = FALSE]
  BY <1>1, <1>4, Zenon DEF FreeDoubleOne, Dropped, Written
<1>5. ASSUME ~ (c = NULL_CLUSTER \/ s.return), ~ Written(s.z, c)
      PROVE  x = [s EXCEPT !.z.undefined = TRUE, !.return = TRUE]
  BY <1>1, <1>5, Zenon DEF FreeDoubleOne, Written
<1>6. [s EXCEPT !.z.undefined = TRUE, !.return = TRUE]
        = [s EXCEPT !.z = [s.z EXCEPT !.undefined = TRUE], !.return = TRUE]
  BY DEF Round2
<1>7. QED
  BY <1>2, <1>3, <1>4, <1>5, <1>6 DEF DoubleOne

\* What is left to come to, and of the count, when the loop goes on.
LEMMA PassedEnough ==
  ASSUME NEW u, NEW a, NEW v, Copied(u, a, v), Sound(v), NEW i \in Position,
         NEW c, c = a[i], c # NULL_CLUSTER, Written(u, c), NEW z, NEW ffcn, NEW t, NEW b, NEW y,
         Passed(z, v, i, c, ffcn, t, b, y),
         NEW n \in Int, Cardinality(Rest2(v, i)) + Owed(v) <= n
  PROVE  /\ Cardinality(Held(u.disk[c])) \in Nat
         /\ Cardinality(Rest2(y, i + 1)) + Owed(y) <= n - Cardinality(Held(u.disk[c])) - 1
<1>1. /\ Written(v, c) /\ v.disk[c] = u.disk[c] /\ c = v.disk[v.i2][i] /\ c \in Cluster
  BY CopiedHere
<1>2. v.i2 # NULL_CLUSTER /\ Written(v, v.i2)
  BY CopiedIs
<1>3. v \in States /\ i \in Nat
  BY Sizes DEF Sound, Position
<1> DEFINE C == RefCells(v, v.i2, i, c)
           H == Held(u.disk[c])
<1>4. C = RefCells(v, v.i2, i, c) /\ H = Held(v.disk[c])
  BY <1>1
<1>5. Rest2(y, i + 1) \subseteq Rest2(v, i) \ C /\ Owed(y) = Owed(v)
  BY DEF Passed
<1> HIDE DEF C
<1>6. C \subseteq Rest2(v, i) /\ Cardinality(C) = Cardinality(Held(v.disk[c])) + 1
  BY <1>1, <1>2, <1>4, Rest2Here
<1>7. Cardinality(H) \in Nat
  BY <1>1, <1>3, <1>4, RowFinite
<1>8. IsFiniteSet(Rest2(v, i)) /\ Cardinality(Rest2(v, i)) \in Nat
  BY <1>3, Rest2Later
<1>9. /\ Cardinality(Rest2(y, i + 1)) \in Nat
      /\ Cardinality(Rest2(y, i + 1)) + Cardinality(C) <= Cardinality(Rest2(v, i))
  BY <1>5, <1>6, <1>8, Less
<1>10. Owed(v) \in Int
  BY <1>3, Fields, CountedFinite DEF Owed
<1>11. Cardinality(C) = Cardinality(H) + 1
  BY <1>4, <1>6
<1>12. QED
  BY <1>5, <1>7, <1>8, <1>9, <1>10, <1>11

LEMMA DoubleStep ==
  ASSUME NEW z, Sound(z), NEW ffcn \in Nat, NEW i \in Position, NEW stop, NEW e, NEW s,
         Loop2(z, e, s, i, ffcn), NEW x, x = FreeDoubleOne(s, i, ffcn, stop)
  PROVE  Loop2(z, e, x, i + 1, ffcn)
<1> DEFINE u == s.z
           a == s.ref
           v == View(s)
           c == s.ref[i]
           H == Held(s.z.disk[c])
           met == Firsts(s.z.disk[c], s.total - 2)
           P == {p \in met : Late2(i, p, ffcn)}
           freed == FreeAll(s.z, s.z.disk[c], P)
           gone == FreeOne(freed, c)
           kept == Write(freed, c, Clear(s.z.disk[c], P))
           left == s.total - Cardinality(met)
           lost == [s.z EXCEPT !.undefined = TRUE]
           ended == Ended(s.z, s.ref, i, c, met, P, s.erase)
<1>1. Round2(s)
  BY DEF Loop2
<1>2. /\ c = NULL_CLUSTER \/ s.return => x = s
      /\ ~ (c = NULL_CLUSTER \/ s.return) =>
           \/ x = [s EXCEPT !.z = lost, !.return = TRUE]
           \/ /\ Written(s.z, c) /\ met # H
              /\ x = [s EXCEPT !.z = ended, !.return = TRUE]
           \/ /\ Written(s.z, c) /\ met = H /\ P = met
              /\ x = [s EXCEPT !.z = gone, !.total = left - 1, !.ref = Dropped(s.ref, i)]
           \/ /\ Written(s.z, c) /\ met = H /\ P # met
              /\ x = [s EXCEPT !.z = kept, !.total = left, !.erase = FALSE]
  <2>1. DoubleOne(s, i, ffcn, x)
    BY <1>1, DoubleOneIs
  <2>2. QED
    BY <2>1 DEF DoubleOne
<1>3. i \in Nat
  BY Sizes DEF Position
<1>4. CASE s.return
  BY <1>2, <1>4 DEF Loop2
<1>5. CASE ~ s.return /\ c = NULL_CLUSTER
  <2>1. x = s
    BY <1>2, <1>5
  <2>2. Runs2(z, s, i, ffcn)
    BY <1>5 DEF Loop2
  <2>3. v \in States
    BY <2>2 DEF Runs2, Going, Trims, Sound
  <2>4. /\ Cardinality(Rest2(v, i)) \in Nat /\ Cardinality(Rest2(v, i + 1)) \in Nat
        /\ Cardinality(Rest2(v, i + 1)) <= Cardinality(Rest2(v, i))
    BY <1>3, <2>3, Rest2Later
  <2>5. Owed(v) \in Int
    BY <2>3, Fields, CountedFinite DEF Owed
  <2> HIDE DEF v
  <2>6. v = View(s)
    BY DEF v
  <2>7. Enough2(s, i + 1)
    BY <2>2, <2>4, <2>5, <2>6 DEF Enough2, Runs2
  <2>8. s.erase => \A j \in 0 .. (i + 1) - 1 : s.ref[j] = NULL_CLUSTER
    <3>1. \A j \in 0 .. (i + 1) - 1 : j \in 0 .. i - 1 \/ j = i
      BY <1>3
    <3>2. QED
      BY <1>5, <2>2, <3>1 DEF Runs2
  <2>9. QED
    BY <1>5, <2>1, <2>2, <2>7, <2>8, Zenon DEF Loop2, Runs2
<1>6. CASE ~ s.return /\ c # NULL_CLUSTER
  <2>1. /\ Copied(s.z, s.ref, View(s)) /\ Going(z, View(s), ffcn) /\ Enough2(s, i) /\ s.z.i2 = e
        /\ (s.erase => \A j \in 0 .. i - 1 : s.ref[j] = NULL_CLUSTER)
    BY <1>6 DEF Loop2, Runs2
  <2>2. s.total \in Int /\ Cardinality(Rest2(v, i)) + Owed(v) <= s.total
    BY <2>1 DEF Enough2
  <2>3. Sound(View(s)) /\ s.z.i2 \in Cluster
    BY <2>1 DEF Going, Trims, Copied
  <2>4. CASE x = [s EXCEPT !.z = lost, !.return = TRUE]
    <3>1. Stuck(z, lost)
      BY <2>1, StuckCopied
    <3> HIDE DEF lost
    <3>2. Round2(x) /\ x.z = lost /\ x.return
      BY <1>1, <2>4 DEF Round2
    <3>3. QED
      BY <3>1, <3>2 DEF Loop2
  <2>5. CASE Written(s.z, c) /\ met # H /\ x = [s EXCEPT !.z = ended, !.return = TRUE]
    <3>1. v = View(s) /\ c = s.ref[i] /\ met = Firsts(s.z.disk[c], s.total - 2)
          /\ P = {p \in met : Late2(i, p, ffcn)}
          /\ ended = Ended(s.z, s.ref, i, c, met, P, s.erase) /\ met # Held(s.z.disk[c])
      BY <2>5
    <3> HIDE DEF v, c, met, P, ended
    <3>2. Going(z, ended, ffcn)
      BY <1>6, <2>1, <2>2, <2>5, <3>1, LastStep
    <3>3. Round2(x) /\ x.z = ended /\ x.return
      BY <1>1, <2>5 DEF Round2
    <3>4. QED
      BY <3>2, <3>3 DEF Loop2
  <2>6. CASE /\ Written(s.z, c) /\ met = H /\ P = met
             /\ x = [s EXCEPT !.z = gone, !.total = left - 1, !.ref = Dropped(s.ref, i)]
    <3> DEFINE b == Dropped(s.ref, i)
               y == Write(gone, s.z.i2, b)
    <3>1. v = View(s) /\ c = s.ref[i] /\ P = Held(s.z.disk[c]) /\ left = s.total - Cardinality(P)
          /\ (\A p \in P : Late2(i, p, ffcn)) /\ gone = FreeOne(FreeAll(s.z, s.z.disk[c], P), c)
          /\ b = Dropped(s.ref, i) /\ y = Write(gone, s.z.i2, b)
      BY <2>6
    <3> HIDE DEF v, c, P, gone, b, y, met, left
    <3>2. Round2(x) /\ x.z = gone /\ x.total = left - 1 /\ x.ref = b
          /\ x.erase = s.erase /\ x.return = s.return
      BY <1>1, <2>6, <3>1 DEF Round2
    <3>3. Passed(z, v, i, c, ffcn, gone, b, y)
      BY <1>6, <2>1, <2>6, <3>1, DoubleErased, Zenon
    <3>4. Cardinality(Held(s.z.disk[c])) \in Nat
          /\ Cardinality(Rest2(y, i + 1)) + Owed(y) <= s.total - Cardinality(Held(s.z.disk[c])) - 1
      BY <1>6, <2>1, <2>2, <2>3, <2>6, <3>1, <3>3, PassedEnough, Zenon
    <3>5. gone.i2 = s.z.i2
      <4>1. s.z \in States
        BY <2>1 DEF Copied
      <4>2. QED
        BY <3>1, <4>1, Zenon DEF FreeOne, FreeAll, FreeSet, States
    <3>6. View(x) = y
      BY <3>1, <3>2, <3>5 DEF View
    <3>7. Enough2(x, i + 1)
      <4>1. left - 1 = s.total - Cardinality(Held(s.z.disk[c])) - 1 /\ left - 1 \in Int
        BY <2>2, <3>1, <3>4
      <4>2. QED
        BY <3>2, <3>4, <3>6, <4>1 DEF Enough2
    <3>8. x.erase => \A j \in 0 .. (i + 1) - 1 : x.ref[j] = NULL_CLUSTER
      <4>1. s.ref \in [Position -> OptCluster] /\ Position = 0 .. RPC - 1 /\ RPC \in Nat
        BY <2>1, Sizes DEF Copied, Position
      <4>2. \A j \in 0 .. (i + 1) - 1 : j \in Position /\ (j \in 0 .. i - 1 \/ j = i)
        BY <1>3, <4>1
      <4>3. \A j \in Position : b[j] = IF j = i THEN NULL_CLUSTER ELSE s.ref[j]
        BY <3>1, <4>1 DEF Dropped
      <4>4. QED
        BY <2>1, <3>2, <4>2, <4>3
    <3>9. QED
      BY <1>6, <2>1, <3>2, <3>3, <3>5, <3>6, <3>7, <3>8, Zenon DEF Loop2, Runs2, Passed
  <2>7. CASE /\ Written(s.z, c) /\ met = H /\ P # met
             /\ x = [s EXCEPT !.z = kept, !.total = left, !.erase = FALSE]
    <3> DEFINE y == Write(kept, s.z.i2, s.ref)
    <3>1. v = View(s) /\ c = s.ref[i] /\ P \in SUBSET Held(s.z.disk[c])
          /\ left = s.total - Cardinality(Held(s.z.disk[c]))
          /\ (\A p \in P : Late2(i, p, ffcn))
          /\ kept = Write(FreeAll(s.z, s.z.disk[c], P), c, Clear(s.z.disk[c], P))
          /\ y = Write(kept, s.z.i2, s.ref)
      BY <2>7, Zenon
    <3> HIDE DEF v, c, P, kept, y, met, left, H
    <3>2. Round2(x) /\ x.z = kept /\ x.total = left /\ x.ref = s.ref
          /\ ~ x.erase /\ x.return = s.return
      BY <1>1, <2>7 DEF Round2
    <3>3. Passed(z, v, i, c, ffcn, kept, s.ref, y)
      BY <1>6, <2>1, <2>7, <3>1, DoubleKept
    <3>4. Cardinality(Held(s.z.disk[c])) \in Nat
          /\ Cardinality(Rest2(y, i + 1)) + Owed(y) <= s.total - Cardinality(Held(s.z.disk[c])) - 1
      BY <1>6, <2>1, <2>2, <2>3, <2>7, <3>1, <3>3, PassedEnough, Zenon
    <3>5. kept.i2 = s.z.i2
      <4>1. s.z \in States
        BY <2>1 DEF Copied
      <4>2. QED
        BY <3>1, <4>1, Zenon DEF FreeAll, FreeSet, States, Write
    <3>6. View(x) = y
      BY <3>1, <3>2, <3>5 DEF View
    <3>7. Enough2(x, i + 1)
      <4>1. v \in States /\ y \in States
        BY <2>3, <3>1, <3>3, Zenon DEF Passed, Going, Trims, Sound
      <4>2. Owed(y) \in Int
        BY <4>1, Fields, CountedFinite DEF Owed
      <4>3. Cardinality(Rest2(y, i + 1)) \in Nat
        BY <1>3, <4>1, Rest2Later
      <4>4. x.total = s.total - Cardinality(Held(s.z.disk[c])) /\ s.total \in Int
        BY <2>2, <3>1, <3>2
      <4>5. Cardinality(Rest2(y, i + 1)) + Owed(y) <= x.total /\ x.total \in Int
        BY <3>4, <4>2, <4>3, <4>4
      <4>6. QED
        BY <3>6, <4>5 DEF Enough2
    <3>8. QED
      BY <1>6, <2>1, <3>2, <3>3, <3>5, <3>6, <3>7, Zenon DEF Loop2, Runs2, Passed
  <2>8. QED
    BY <1>2, <1>6, <2>4, <2>5, <2>6, <2>7
<1>7. QED
  BY <1>4, <1>5, <1>6

\* Before the loop the copy is f.i2 itself.
LEMMA DoubleStart ==
  ASSUME NEW z, Sound(z), NEW ffcn \in Nat, NEW w, Going(z, w.z, ffcn),
         NEW i \in Nat, i <= N_INDIRECT, Enough1(w, i),
         w.z.i2 # NULL_CLUSTER, Written(w.z, w.z.i2),
         NEW s, s = [z |-> w.z, total |-> w.total, ref |-> w.z.disk[w.z.i2],
                     erase |-> TRUE, return |-> FALSE]
  PROVE  Loop2(z, w.z.i2, s, 0, ffcn)
<1> DEFINE u == w.z
           a == w.z.disk[w.z.i2]
<1>1. Sound(u) /\ u \in States
  BY DEF Going, Trims, Sound
<1>2. u.i2 \in Cluster /\ a \in [Position -> OptCluster] /\ u.disk \in [Cluster -> Array]
  BY <1>1, Fields, ClusterType DEF Written, Array
<1>3. s.z = u /\ s.total = w.total /\ s.ref = a /\ s.erase = TRUE /\ s.return = FALSE /\ Round2(s)
  BY DEF Round2
<1>4. Write(u, u.i2, a) = u
  <2>1. [u.disk EXCEPT ![u.i2] = a] = u.disk
    BY <1>2
  <2>2. [u EXCEPT !.disk = u.disk] = u
    BY <1>1 DEF States
  <2>3. Write(u, u.i2, a) = [u EXCEPT !.disk = [u.disk EXCEPT ![u.i2] = a]]
    BY <1>1, <1>2, ClusterType DEF Write, States
  <2>4. QED
    BY <2>1, <2>2, <2>3
<1>5. View(s) = u
  BY <1>3, <1>4 DEF View
<1>6. Copied(u, a, u)
  BY <1>1, <1>2, <1>4 DEF Copied
<1>7. /\ Cardinality(Rest2(u, 0)) \in Nat /\ Cardinality(Rest1(u, i)) \in Nat
      /\ Cardinality(Rest2(u, 0)) <= Cardinality(Rest1(u, i))
  <2>1. Rest2(u, 0) \subseteq Rest1(u, i)
    BY <1>1, Rest2First
  <2>2. IsFiniteSet(Counted(u)) /\ Rest1(u, i) \subseteq Counted(u)
    BY <1>1, CountedFinite DEF Rest1
  <2>3. IsFiniteSet(Rest1(u, i))
    BY <2>2, FS_Subset
  <2>4. QED
    BY <2>1, <2>3, FS_Subset, FS_CardinalityType
<1>8. Owed(u) \in Int
  BY <1>1, Fields, CountedFinite DEF Owed
<1>9. w.total \in Int /\ Cardinality(Rest2(u, 0)) + Owed(u) <= w.total
  BY <1>7, <1>8 DEF Enough1
<1> HIDE DEF u
<1>10. Enough2(s, 0)
  BY <1>3, <1>5, <1>9 DEF Enough2
<1>11. \A j \in 0 .. 0 - 1 : s.ref[j] = NULL_CLUSTER
  OBVIOUS
<1>12. u = w.z
  BY DEF u
<1>13. QED
  BY <1>3, <1>5, <1>6, <1>10, <1>11, <1>12, Zenon DEF Loop2, Runs2

\* The loop of FreeDoubleIndirect, its first n rounds: g[i] is what i rounds leave.
Rounds2(s, ffcn, stop, n, g) ==
  g = [i \in 0 .. n |-> IF i = 0 THEN s ELSE FreeDoubleOne(g[i - 1], i - 1, ffcn, stop)]

LEMMA Rounds2Next ==
  ASSUME NEW s, NEW ffcn, NEW stop, NEW n \in Nat, NEW g, Rounds2(s, ffcn, stop, n, g)
  PROVE  \E h : Rounds2(s, ffcn, stop, n + 1, h)
<1> DEFINE h == [i \in 0 .. n + 1 |->
                   IF i = 0 THEN s ELSE FreeDoubleOne(g[i - 1], i - 1, ffcn, stop)]
<1>1. \A i \in 0 .. n : g[i] = IF i = 0 THEN s ELSE FreeDoubleOne(g[i - 1], i - 1, ffcn, stop)
  BY DEF Rounds2
<1>2. \A i \in 0 .. n : h[i] = g[i]
  BY <1>1
<1>3. ASSUME NEW i \in 0 .. n + 1, i # 0 PROVE h[i - 1] = g[i - 1]
  <2> HIDE DEF h
  <2>1. i - 1 \in 0 .. n
    BY <1>3
  <2>2. QED
    BY <1>2, <2>1
<1>4. h = [i \in 0 .. n + 1 |-> IF i = 0 THEN s ELSE FreeDoubleOne(h[i - 1], i - 1, ffcn, stop)]
  <2>1. \A i \in 0 .. n + 1 : (IF i = 0 THEN s ELSE FreeDoubleOne(g[i - 1], i - 1, ffcn, stop))
                              = (IF i = 0 THEN s ELSE FreeDoubleOne(h[i - 1], i - 1, ffcn, stop))
    BY <1>3
  <2>2. QED
    BY <2>1
<1>5. QED
  BY <1>4 DEF Rounds2

LEMMA Rounds2All ==
  ASSUME NEW s, NEW ffcn, NEW stop, NEW n \in Nat
  PROVE  \E g : Rounds2(s, ffcn, stop, n, g)
<1> DEFINE T == {k \in Nat : ~ \E g : Rounds2(s, ffcn, stop, k, g)}
<1>1. SUFFICES ASSUME T # {} PROVE FALSE
  OBVIOUS
<1>2. PICK m \in T : \A k \in T : m <= k
  BY <1>1, SmallestOf
<1>3. Rounds2(s, ffcn, stop, 0, [i \in 0 .. 0 |-> s])
  <2>1. \A i \in 0 .. 0 : i = 0
    OBVIOUS
  <2>2. QED
    BY <2>1 DEF Rounds2
<1>4. m # 0
  BY <1>3
<1>5. m - 1 \in Nat /\ m - 1 \notin T /\ m = (m - 1) + 1
  BY <1>2, <1>4
<1>6. PICK g : Rounds2(s, ffcn, stop, m - 1, g)
  BY <1>5
<1>7. \E h : Rounds2(s, ffcn, stop, m, h)
  BY <1>5, <1>6, Rounds2Next
<1>8. QED
  BY <1>7

\* What the loop has come to after its last round.
LEMMA DoubleRounds ==
  ASSUME NEW z, Sound(z), NEW ffcn \in Nat, NEW stop, NEW e, NEW s, Loop2(z, e, s, 0, ffcn),
         NEW h, Rounds2(s, ffcn, stop, RPC, h)
  PROVE  Loop2(z, e, h[RPC], RPC, ffcn)
<1>1. RPC \in Nat /\ RPC # 0
  BY Sizes
<1>2. h[0] = s /\ \A i \in 0 .. RPC - 1 : h[i + 1] = FreeDoubleOne(h[i], i, ffcn, stop)
  BY <1>1 DEF Rounds2
<1> DEFINE T == {i \in 0 .. RPC : ~ Loop2(z, e, h[i], i, ffcn)}
<1>3. T \in SUBSET Nat /\ (T = {} => Loop2(z, e, h[RPC], RPC, ffcn))
      /\ \A i : i \in T <=> i \in 0 .. RPC /\ ~ Loop2(z, e, h[i], i, ffcn)
  BY <1>1
<1> HIDE DEF T
<1>4. SUFFICES ASSUME T # {} PROVE FALSE
  BY <1>3
<1>5. PICK m \in T : \A k \in T : m <= k
  BY <1>3, <1>4, SmallestOf
<1>6. m # 0 /\ m \in 0 .. RPC
  BY <1>2, <1>3
<1>7. m - 1 \in 0 .. RPC - 1 /\ m = (m - 1) + 1 /\ ~ (m <= m - 1)
  BY <1>1, <1>6
<1>8. Loop2(z, e, h[m - 1], m - 1, ffcn)
  <2>1. m - 1 \notin T
    BY <1>5, <1>7
  <2>2. m - 1 \in 0 .. RPC
    BY <1>1, <1>7
  <2>3. QED
    BY <1>3, <2>1, <2>2
<1>9. h[m] = FreeDoubleOne(h[m - 1], m - 1, ffcn, stop)
  BY <1>2, <1>7
<1>10. Loop2(z, e, h[m], m, ffcn)
  <2>1. m - 1 \in Position
    BY <1>7 DEF Position
  <2>2. QED
    BY <1>7, <1>8, <1>9, <2>1, DoubleStep
<1>11. QED
  BY <1>3, <1>5, <1>10

LEMMA DoubleLoop ==
  ASSUME NEW z, Sound(z), NEW ffcn \in Nat, NEW stop, NEW w, Going(z, w.z, ffcn),
         NEW i \in Nat, i <= N_INDIRECT, Enough1(w, i),
         NEW y, y = FreeDoubleIndirect(w, ffcn, stop)
  PROVE  Going(z, y, ffcn) \/ Stuck(z, y)
<1> DEFINE s == [z |-> w.z, total |-> w.total, ref |-> w.z.disk[w.z.i2],
                 erase |-> TRUE, return |-> FALSE]
           e == w.z.i2
<1>1. CASE w.z.i2 = NULL_CLUSTER
  <2>1. y = w.z
    BY <1>1 DEF FreeDoubleIndirect
  <2>2. QED
    BY <2>1
<1>2. CASE w.z.i2 # NULL_CLUSTER /\ ~ Written(w.z, w.z.i2)
  <2>1. y = [w.z EXCEPT !.undefined = TRUE]
    BY <1>2, Zenon DEF FreeDoubleIndirect, Checked, Written
  <2>2. QED
    BY <2>1, StuckIs
<1>3. CASE w.z.i2 # NULL_CLUSTER /\ Written(w.z, w.z.i2)
  <2>1. \E h : h = [j \in 0 .. RPC |->
                      IF j = 0 THEN s ELSE FreeDoubleOne(h[j - 1], j - 1, ffcn, stop)]
    <3>1. RPC \in Nat
      BY Sizes
    <3>2. PICK g : Rounds2(s, ffcn, stop, RPC, g)
      BY <3>1, Rounds2All
    <3>3. QED
      BY <3>2 DEF Rounds2
  <2>2. \E h : /\ h = [j \in 0 .. RPC |->
                        IF j = 0 THEN s ELSE FreeDoubleOne(h[j - 1], j - 1, ffcn, stop)]
               /\ FreeDoubleIndirect(w, ffcn, stop) =
                    IF w.z.i2 = NULL_CLUSTER THEN w.z
                    ELSE Checked(w.z, w.z.i2,
                           IF h[RPC].return THEN h[RPC].z
                           ELSE IF h[RPC].erase
                           THEN [FreeOne(h[RPC].z, w.z.i2) EXCEPT !.i2 = NULL_CLUSTER]
                           ELSE Write(h[RPC].z, w.z.i2, h[RPC].ref))
    BY <2>1, Zenon DEF FreeDoubleIndirect
  <2>3. PICK h : /\ Rounds2(s, ffcn, stop, RPC, h)
                 /\ FreeDoubleIndirect(w, ffcn, stop) =
                      IF w.z.i2 = NULL_CLUSTER THEN w.z
                      ELSE Checked(w.z, w.z.i2,
                             IF h[RPC].return THEN h[RPC].z
                             ELSE IF h[RPC].erase
                             THEN [FreeOne(h[RPC].z, w.z.i2) EXCEPT !.i2 = NULL_CLUSTER]
                             ELSE Write(h[RPC].z, w.z.i2, h[RPC].ref))
    BY <2>2 DEF Rounds2
  <2> DEFINE x == h[RPC]
  <2>4. Loop2(z, e, s, 0, ffcn)
    BY <1>3, DoubleStart
  <2> HIDE DEF s
  <2>5. Loop2(z, e, x, RPC, ffcn)
    BY <2>3, <2>4, DoubleRounds
  <2>6. y = IF x.return THEN x.z
            ELSE IF x.erase THEN SetI2(FreeOne(x.z, e)) ELSE Write(x.z, e, x.ref)
    BY <1>3, <2>3 DEF Checked, Written, SetI2
  <2> HIDE DEF e, x
  <2>7. CASE x.return
    <3>1. y = x.z
      BY <2>6, <2>7
    <3>2. QED
      BY <2>5, <2>7, <3>1 DEF Loop2, Runs2
  <2>8. CASE ~ x.return /\ x.erase
    <3>1. y = SetI2(FreeOne(x.z, x.z.i2)) /\ Runs2(z, x, RPC, ffcn)
      BY <2>5, <2>6, <2>8 DEF Loop2
    <3>2. \A j \in Position : x.ref[j] = NULL_CLUSTER
      BY <2>8, <3>1 DEF Runs2, Position
    <3>3. Copied(x.z, x.ref, View(x)) /\ Going(z, View(x), ffcn)
      BY <3>1 DEF Runs2
    <3>4. QED
      BY <3>1, <3>2, <3>3, DoubleEmptied
  <2>9. CASE ~ x.return /\ ~ x.erase
    <3>1. y = Write(x.z, x.z.i2, x.ref) /\ Runs2(z, x, RPC, ffcn)
      BY <2>5, <2>6, <2>9 DEF Loop2
    <3>2. QED
      BY <3>1 DEF Runs2, View
  <2>10. QED
    BY <2>7, <2>8, <2>9
<1>4. QED
  BY <1>1, <1>2, <1>3

LEMMA FreeFileClustersGood ==
  ASSUME NEW z, Sound(z), Counts(z), NEW ffcn \in Nat, NEW stop,
         NEW y, y = FreeFileClusters(z, ffcn, stop)
  PROVE  Going(z, y, ffcn) \/ Stuck(z, y)
<1> DEFINE w == [z |-> z, total |-> z.csize, return |-> FALSE]
           direct == FreeDirect(w, ffcn)
           indirect == IF ffcn < FirstDouble THEN FreeIndirect(direct, ffcn) ELSE direct
<1>1. y = IF direct.total = 0 THEN direct.z
          ELSE IF indirect.total = 0 \/ indirect.z.undefined THEN indirect.z
          ELSE FreeDoubleIndirect(indirect, ffcn, stop)
  BY DEF FreeFileClusters
<1>2. Going(z, direct.z, ffcn) /\ Enough1(direct, 0)
  BY FreeDirectGood
<1> HIDE DEF direct
<1>3. N_INDIRECT \in Nat /\ 0 \in Nat /\ 0 <= N_INDIRECT /\ N_INDIRECT <= N_INDIRECT
  BY Sizes
<1>4. ASSUME ffcn < FirstDouble PROVE Loop1(z, indirect, N_INDIRECT, ffcn)
  <2>1. Loop1(z, direct, 0, ffcn)
    BY <1>2 DEF Loop1
  <2>2. Loop1(z, FreeIndirect(direct, ffcn), N_INDIRECT, ffcn)
    BY <2>1, SingleLoop
  <2>3. QED
    BY <1>4, <2>2
<1>5. ASSUME ~ (ffcn < FirstDouble) PROVE indirect = direct
  BY <1>5
<1> HIDE DEF indirect
<1>6. \/ Stuck(z, indirect.z)
      \/ Going(z, indirect.z, ffcn) /\ (Enough1(indirect, 0) \/ Enough1(indirect, N_INDIRECT))
  BY <1>2, <1>4, <1>5 DEF Loop1
<1>7. CASE y = direct.z
  BY <1>2, <1>7
<1>8. CASE y = indirect.z
  BY <1>6, <1>8
<1>9. CASE y = FreeDoubleIndirect(indirect, ffcn, stop) /\ ~ indirect.z.undefined
  <2>1. /\ Going(z, indirect.z, ffcn)
        /\ Enough1(indirect, 0) \/ Enough1(indirect, N_INDIRECT)
    BY <1>6, <1>9 DEF Stuck
  <2>2. QED
    BY <1>3, <1>9, <2>1, DoubleLoop
<1>10. QED
  BY <1>1, <1>7, <1>8, <1>9

-----------------------------------------------------------------------------
(* The invariant *)

\* What a system call hands soAllocFileCluster and soFreeFileClusters.
LEMMA CallIs ==
  ASSUME f \in States
  PROVE  /\ Call \in States /\ SameTree(f, Call) /\ Call.csize = f.csize /\ Call.free = f.free
         /\ Call.ret = NULL_CLUSTER /\ Call.err = "OK" /\ Call.nullWritten = FALSE
         /\ Call.undefined = f.undefined /\ Call.short = f.short
  BY DEF Call, States, SameTree, OptCluster

LEMMA CallSame ==
  ASSUME f \in States
  PROVE  /\ Sound(f) => Sound(Call)
         /\ Counts(f) => Counts(Call)
         /\ Whole(f) => Whole(Call)
         /\ Complete(f) => Complete(Call)
  BY CallIs, SameTreeIs

LEMMA AskedIs == Asked \subseteq FileCluster /\ FileCluster \subseteq Nat
<1>1. FirstDouble = N_DIRECT + N_INDIRECT * RPC
  BY DEF FirstDouble
<1>2. QED
  BY <1>1, FileClustersAssumption DEF FileCluster

\* What soAllocFileCluster has done for the position fcn.
LEMMA AllocCall ==
  ASSUME IInv, NEW fcn \in FileCluster, Alloc(fcn)
  PROVE  \E y : /\ AllocDone(Call, y, fcn) /\ ~ f.undefined /\ Sound(Call) /\ Counts(Call)
                /\ f' = [y EXCEPT !.ret = NULL_CLUSTER,
                                  !.short = y.short \/ (Threw(y) /\ y.free # f.free)]
<1>1. f \in States /\ ~ f.undefined /\ Sound(f) /\ Counts(f)
  BY DEF IInv, Alloc
<1>2. Sound(Call) /\ Counts(Call) /\ Call.err = "OK" /\ SameTree(f, Call)
  BY <1>1, CallIs, CallSame
<1>3. Readable(Call, fcn) => GetFileCluster(Call, fcn) = NULL_CLUSTER
  BY <1>2 DEF Alloc, SameTree, Readable, Path, GetFileCluster, Refs
<1> DEFINE y == AllocFileCluster(Call, fcn)
<1>4. AllocDone(Call, y, fcn)
  BY <1>2, <1>3, AllocFileClusterGood
<1>5. f' = [y EXCEPT !.ret = NULL_CLUSTER, !.short = y.short \/ (Threw(y) /\ y.free # f.free)]
  BY DEF Alloc
<1>6. QED
  BY <1>1, <1>2, <1>4, <1>5

\* What soFreeFileClusters has done from the position ffcn on.
LEMMA FreeCall ==
  ASSUME IInv, NEW ffcn \in Nat, Free(ffcn)
  PROVE  /\ Going(Call, f', ffcn) \/ Stuck(Call, f')
         /\ ~ f.undefined /\ Sound(Call) /\ Counts(Call)
<1>1. f \in States /\ ~ f.undefined /\ Sound(f) /\ Counts(f)
  BY DEF IInv, Free
<1>2. Sound(Call) /\ Counts(Call)
  BY <1>1, CallSame
<1>3. QED
  BY <1>1, <1>2, FreeFileClustersGood DEF Free

LEMMA InitInv == Init => IInv
<1> SUFFICES ASSUME Init PROVE IInv
  OBVIOUS
<1>1. f \in States /\ f.csize = 0 /\ f.ret = NULL_CLUSTER /\ f.free = Cluster
      /\ f.i2 = NULL_CLUSTER
      /\ (\A i \in 0 .. N_DIRECT - 1 : f.d[i] = NULL_CLUSTER)
      /\ (\A i \in 0 .. N_INDIRECT - 1 : f.i1[i] = NULL_CLUSTER)
      /\ (\A c \in Cluster : ~ Written(f, c))
  BY DEF Init, States, OptCluster, Array, Written
<1>2. TypeOK
  BY <1>1, Sizes DEF TypeOK, States, Array
<1>3. \A n, p : ~ Holds(f, n, p)
  BY <1>1 DEF Holds, Node, Index, At
<1>4. Sound(f) /\ Whole(f) /\ Complete(f)
  BY <1>1, <1>3 DEF Sound, Whole, Complete, Bare
<1>5. Counts(f)
  <2>1. Counted(f) = {}
    BY <1>3 DEF Counted, Counts1
  <2>2. Cardinality(Counted(f)) = 0
    BY <2>1, FS_EmptySet
  <2>3. QED
    BY <1>1, <2>2 DEF Counts, Owed
<1>6. QED
  BY <1>1, <1>2, <1>4, <1>5 DEF IInv

LEMMA AllocInv ==
  ASSUME IInv, NEW fcn \in FileCluster, Alloc(fcn)
  PROVE  IInv'
<1>1. PICK y : /\ AllocDone(Call, y, fcn) /\ ~ f.undefined /\ Sound(Call) /\ Counts(Call)
               /\ f' = [y EXCEPT !.ret = NULL_CLUSTER,
                                 !.short = y.short \/ (Threw(y) /\ y.free # f.free)]
  BY AllocCall
<1>2. f \in States /\ Call \in States /\ Call.undefined = f.undefined /\ Call.short = f.short
      /\ Call.free = f.free
  BY CallIs DEF IInv
<1>3. y \in States /\ y.csize \in 0 .. CTotal /\ y.short = f.short
      /\ (~ y.undefined => AllocGood(Call, y, fcn))
  <2>1. CASE y = [Call EXCEPT !.undefined = TRUE]
    <3>1. Call.csize \in 0 .. CTotal
      BY <1>1, SizeRange
    <3>2. QED
      BY <1>2, <2>1, <3>1 DEF States
  <2>2. CASE AllocGood(Call, y, fcn)
    <3>1. Sound(y) /\ Counts(y) /\ y.short = Call.short
      BY <2>2 DEF AllocGood, Extends
    <3>2. y.csize \in 0 .. CTotal
      BY <3>1, SizeRange
    <3>3. QED
      BY <1>2, <2>2, <3>1, <3>2 DEF Sound
  <2>3. QED
    BY <1>1, <2>1, <2>2 DEF AllocDone
<1>4. /\ f' \in States /\ SameTree(y, f') /\ f'.csize = y.csize /\ f'.ret = NULL_CLUSTER
      /\ f'.undefined = y.undefined
      /\ f'.short <=> (f.short \/ (Threw(y) /\ y.free # f.free))
  <2>1. f'.short \in BOOLEAN
    BY <1>1, <1>2, <1>3 DEF States
  <2>2. QED
    BY <1>1, <1>2, <1>3, <2>1 DEF States, SameTree, OptCluster
<1>5. TypeOK'
  BY <1>3, <1>4 DEF TypeOK, States, Array
<1>6. ASSUME ~ f'.undefined PROVE Sound(f') /\ Counts(f') /\ (~ f'.short => Whole(f') /\ Complete(f'))
  <2>1. AllocGood(Call, y, fcn)
    BY <1>3, <1>4, <1>6
  <2>2. Sound(y) /\ Counts(y)
    BY <2>1 DEF AllocGood, Extends
  <2>3. Sound(f') /\ Counts(f')
    BY <1>4, <2>2, SameTreeIs
  <2>4. ASSUME ~ f'.short PROVE Whole(f') /\ Complete(f')
    <3>1. ~ f.short /\ (~ Threw(y) \/ y.free = f.free)
      BY <1>4, <2>4
    <3>2. Whole(f) /\ Complete(f)
      BY <1>1, <3>1 DEF IInv
    <3>3. Whole(Call) /\ Complete(Call)
      BY <1>2, <3>2, CallSame
    <3>4. Whole(y) /\ Complete(y)
      BY <1>2, <2>1, <3>1, <3>3 DEF AllocGood, Extends
    <3>5. QED
      BY <1>4, <3>4, SameTreeIs
  <2>5. QED
    BY <2>3, <2>4
<1>7. QED
  BY <1>4, <1>5, <1>6 DEF IInv

LEMMA FreeInv ==
  ASSUME IInv, NEW ffcn \in Nat, Free(ffcn)
  PROVE  IInv'
<1>1. /\ Going(Call, f', ffcn) \/ Stuck(Call, f')
      /\ ~ f.undefined /\ Sound(Call) /\ Counts(Call)
  BY FreeCall
<1>2. f \in States /\ Call.ret = NULL_CLUSTER /\ Call.short = f.short
  BY CallIs DEF IInv
<1>3. f' \in States /\ f'.csize \in 0 .. CTotal /\ f'.ret = NULL_CLUSTER /\ f'.short = f.short
  <2>1. CASE Stuck(Call, f')
    BY <1>2, <2>1 DEF Stuck
  <2>2. CASE Going(Call, f', ffcn)
    <3>1. Sound(f') /\ Counts(f') /\ Quiet(Call, f')
      BY <2>2 DEF Going, Trims
    <3>2. f'.csize \in 0 .. CTotal
      BY <3>1, SizeRange
    <3>3. QED
      BY <1>2, <3>1, <3>2 DEF Sound, Quiet, Flags
  <2>3. QED
    BY <1>1, <2>1, <2>2
<1>4. TypeOK'
  BY <1>3 DEF TypeOK, States, Array
<1>5. ASSUME ~ f'.undefined PROVE Sound(f') /\ Counts(f') /\ (~ f'.short => Whole(f') /\ Complete(f'))
  <2>1. Going(Call, f', ffcn)
    BY <1>1, <1>5 DEF Stuck
  <2>2. Sound(f') /\ Counts(f')
    BY <2>1 DEF Going, Trims
  <2>3. ASSUME ~ f'.short PROVE Whole(f') /\ Complete(f')
    <3>1. Whole(f) /\ Complete(f)
      BY <1>1, <1>3, <2>3 DEF IInv
    <3>2. Whole(Call) /\ Complete(Call)
      BY <1>2, <3>1, CallSame
    <3>3. QED
      BY <2>1, <3>2 DEF Going, Trims
  <2>4. QED
    BY <2>2, <2>3
<1>6. QED
  BY <1>3, <1>4, <1>5 DEF IInv

\* IInv is an invariant: whatever calls of soAllocFileCluster and soFreeFileClusters
\* have returned, the references of the file make one tree, nothing freed is in it,
\* and csize counts its places but for those the comments of Counts and Whole name.
THEOREM Invariance == Spec => []IInv
<1>1. IInv /\ [Next]_f => IInv'
  <2> SUFFICES ASSUME IInv, [Next]_f PROVE IInv'
    OBVIOUS
  <2>1. CASE UNCHANGED f
    BY <2>1 DEF IInv, TypeOK
  <2>2. ASSUME NEW fcn \in Asked, Alloc(fcn) PROVE IInv'
    BY <2>2, AskedIs, AllocInv
  <2>3. ASSUME NEW fcn \in Asked, Free(fcn) PROVE IInv'
    BY <2>3, AskedIs, FreeInv
  <2>4. QED
    BY <2>1, <2>2, <2>3 DEF Next
<1>2. QED
  BY <1>1, InitInv, PTL DEF Spec

-----------------------------------------------------------------------------
(* The sets of the invariants, by places *)

\* The references in the reference clusters.
LEMMA InIs ==
  ASSUME Sound(f), NEW c
  PROVE  c \in OptCluster /\ (c # NULL_CLUSTER => IsRef(f, c)) =>
           \A q : q \in In(c) <=> \E p : q = <<c, p>> /\ c \in Cluster /\ Holds(f, c, p)
<1> SUFFICES ASSUME c \in OptCluster, c # NULL_CLUSTER => IsRef(f, c), NEW q
             PROVE  q \in In(c) <=> \E p : q = <<c, p>> /\ c \in Cluster /\ Holds(f, c, p)
  OBVIOUS
<1>1. CASE c = NULL_CLUSTER
  BY <1>1, ClusterType DEF In
<1>2. CASE c # NULL_CLUSTER /\ ~ Written(f, c)
  <2>1. \A p : ~ Holds(f, c, p)
    BY <1>2, ClusterType, HoldsIn
  <2>2. QED
    BY <1>2, <2>1 DEF In, Written
<1>3. CASE c # NULL_CLUSTER /\ Written(f, c)
  <2>1. c \in Cluster
    BY <1>3, ClusterType
  <2>2. \A p : p \in Held(f.disk[c]) <=> Holds(f, c, p)
    BY <1>3, <2>1, HeldIs DEF Sound
  <2>3. In(c) = {<<c, p>> : p \in Held(f.disk[c])}
    BY <1>3 DEF In, Written
  <2>4. QED
    BY <2>1, <2>2, <2>3
<1>4. QED
  BY <1>1, <1>2, <1>3

\* The reference clusters.
LEMMA RefClustersIs ==
  ASSUME Sound(f)
  PROVE  \A c : c \in RefClusters => c \in OptCluster /\ (c # NULL_CLUSTER => IsRef(f, c))
<1>1. f \in States /\ f.i1 \in [0 .. N_INDIRECT - 1 -> OptCluster] /\ f.i2 \in OptCluster
  BY Fields DEF Sound
<1>2. \A i \in DOMAIN f.i1 : f.i1[i] \in OptCluster /\ IsRef(f, f.i1[i])
  BY <1>1 DEF IsRef
<1>3. IsRef(f, f.i2)
  BY DEF IsRef
<1>4. ASSUME NEW q \in In(f.i2) PROVE Named(q) \in OptCluster /\ IsRef(f, Named(q))
  <2>1. PICK p : q = <<f.i2, p>> /\ f.i2 \in Cluster /\ Holds(f, f.i2, p)
    BY <1>1, <1>3, InIs
  <2>2. p \in Position /\ Written(f, f.i2) /\ At(f, f.i2, p) = f.disk[f.i2][p]
    BY <2>1, HoldsIn
  <2>3. Named(q) = f.disk[f.i2][p]
    BY <2>1 DEF Named
  <2>4. At(f, f.i2, p) \in Cluster
    BY <1>1, <2>1, HoldsCluster
  <2>5. Middle(f, Named(q))
    BY <2>1, <2>2, <2>3, ClusterType DEF Middle
  <2>6. QED
    BY <2>2, <2>3, <2>4, <2>5, ClusterType DEF IsRef
<1>5. QED
  BY <1>1, <1>2, <1>3, <1>4 DEF RefClusters

LEMMA RefClustersHave ==
  ASSUME Sound(f), NEW c \in Cluster, IsRef(f, c)
  PROVE  c \in RefClusters
<1>1. f \in States /\ f.i1 \in [0 .. N_INDIRECT - 1 -> OptCluster] /\ f.i2 \in OptCluster
  BY Fields DEF Sound
<1>2. CASE \E i \in 0 .. N_INDIRECT - 1 : f.i1[i] = c
  BY <1>1, <1>2 DEF RefClusters
<1>3. CASE f.i2 = c
  BY <1>3 DEF RefClusters
<1>4. CASE Middle(f, c)
  <2>1. PICK k \in Position : f.disk[f.i2][k] = c
    BY <1>4 DEF Middle
  <2>2. f.i2 \in Cluster /\ IsRef(f, f.i2) /\ Written(f, f.i2)
    BY <1>1, <1>4, ClusterType DEF Middle, IsRef
  <2>3. Holds(f, f.i2, k)
    BY <2>1, <2>2, HoldsIn, ClusterType
  <2>4. <<f.i2, k>> \in In(f.i2)
    BY <1>1, <2>2, <2>3, InIs
  <2>5. Named(<<f.i2, k>>) = c
    BY <2>1 DEF Named
  <2>6. QED
    BY <2>4, <2>5 DEF RefClusters
<1>5. QED
  BY <1>2, <1>3, <1>4 DEF IsRef

\* The places below the inode.
Below(z) == {q \in Places(z) : q[1] \in Cluster}
Atop(z) == {q \in Places(z) : q[1] \in {-1, -2, -3}}

LEMMA InRefClustersIs ==
  ASSUME Sound(f)
  PROVE  InRefClusters = Below(f)
<1>1. f \in States
  BY DEF Sound
<1>2. ASSUME NEW q \in InRefClusters PROVE q \in Below(f)
  <2>1. PICK c \in RefClusters : q \in In(c)
    BY DEF InRefClusters
  <2>2. PICK p : q = <<c, p>> /\ c \in Cluster /\ Holds(f, c, p)
    BY <2>1, RefClustersIs, InIs
  <2>3. QED
    BY <1>1, <2>2, InPlaces DEF Below
<1>3. ASSUME NEW q \in Below(f) PROVE q \in InRefClusters
  <2>1. q = <<q[1], q[2]>> /\ q[1] \in Cluster /\ Holds(f, q[1], q[2])
    BY <1>1, InPlaces DEF Below
  <2>2. IsRef(f, q[1])
    BY <2>1, HoldsIn
  <2>3. q[1] \in RefClusters /\ q \in In(q[1])
    BY <2>1, <2>2, RefClustersHave, InIs, ClusterType
  <2>4. QED
    BY <2>3 DEF InRefClusters
<1>4. QED
  BY <1>2, <1>3

\* A place of the inode as it is written in InInode.
Tagged(q) == <<IF q[1] = -1 THEN "d" ELSE IF q[1] = -2 THEN "i1" ELSE "i2",
               IF q[1] = -3 THEN f.i2 ELSE q[2]>>

LEMMA InInodeIs ==
  ASSUME Sound(f)
  PROVE  /\ IsFiniteSet(InInode)
         /\ Cardinality(InInode) = Cardinality(Atop(f))
<1>1. f \in States /\ f.i2 \in OptCluster
      /\ f.d \in [0 .. N_DIRECT - 1 -> OptCluster] /\ f.i1 \in [0 .. N_INDIRECT - 1 -> OptCluster]
  BY Fields DEF Sound
<1>2. \A q \in Atop(f) : /\ q = <<q[1], q[2]>> /\ Holds(f, q[1], q[2]) /\ q[1] \in {-1, -2, -3}
                         /\ q[1] = -3 => q[2] = 0
  BY <1>1, InPlaces, HoldsDouble DEF Atop
<1>3. ASSUME NEW q \in Atop(f) PROVE Tagged(q) \in InInode
  <2>1. CASE q[1] = -1
    <3>1. q[2] \in Held(f.d)
      BY <1>1, <1>2, <2>1, HoldsDirect DEF Held
    <3>2. Tagged(q) = <<"d", q[2]>>
      BY <2>1 DEF Tagged
    <3>3. QED
      BY <3>1, <3>2 DEF InInode
  <2>2. CASE q[1] = -2
    <3>1. q[2] \in Held(f.i1)
      BY <1>1, <1>2, <2>2, HoldsSingle DEF Held
    <3>2. Tagged(q) = <<"i1", q[2]>>
      BY <2>2 DEF Tagged
    <3>3. QED
      BY <3>1, <3>2 DEF InInode
  <2>3. CASE q[1] = -3
    <3>1. f.i2 # NULL_CLUSTER
      BY <1>2, <2>3, HoldsDouble
    <3>2. Tagged(q) = <<"i2", f.i2>>
      BY <2>3 DEF Tagged
    <3>3. QED
      BY <3>1, <3>2 DEF InInode
  <2>4. QED
    BY <1>2, <2>1, <2>2, <2>3
<1>4. ASSUME NEW t \in InInode PROVE \E q \in Atop(f) : Tagged(q) = t
  <2>1. CASE t \in {<<"d", i>> : i \in Held(f.d)}
    <3>1. PICK i \in Held(f.d) : t = <<"d", i>>
      BY <2>1
    <3>2. Holds(f, -1, i)
      BY <1>1, <3>1, HoldsDirect DEF Held
    <3>3. <<-1, i>> \in Atop(f)
      BY <1>1, <3>2, InPlaces DEF Atop
    <3>4. Tagged(<<-1, i>>) = t
      BY <3>1 DEF Tagged
    <3>5. QED
      BY <3>3, <3>4
  <2>2. CASE t \in {<<"i1", i>> : i \in Held(f.i1)}
    <3>1. PICK i \in Held(f.i1) : t = <<"i1", i>>
      BY <2>2
    <3>2. Holds(f, -2, i)
      BY <1>1, <3>1, HoldsSingle DEF Held
    <3>3. <<-2, i>> \in Atop(f)
      BY <1>1, <3>2, InPlaces DEF Atop
    <3>4. Tagged(<<-2, i>>) = t
      BY <3>1 DEF Tagged
    <3>5. QED
      BY <3>3, <3>4
  <2>3. CASE t \in {<<"i2", k>> : k \in {f.i2} \ {NULL_CLUSTER}}
    <3>1. t = <<"i2", f.i2>> /\ f.i2 # NULL_CLUSTER
      BY <2>3
    <3>2. <<-3, 0>> \in Atop(f)
      BY <1>1, <3>1, HoldsDouble, InPlaces DEF Atop
    <3>3. Tagged(<<-3, 0>>) = t
      BY <3>1 DEF Tagged
    <3>4. QED
      BY <3>2, <3>3
  <2>4. QED
    BY <2>1, <2>2, <2>3 DEF InInode
<1>5. ASSUME NEW q \in Atop(f), NEW r \in Atop(f), Tagged(q) = Tagged(r) PROVE q = r
  <2>1. q[1] = r[1] /\ (q[1] # -3 => q[2] = r[2])
    BY <1>2, <1>5 DEF Tagged
  <2>2. q[2] = r[2]
    BY <1>2, <2>1
  <2>3. QED
    BY <1>2, <2>1, <2>2
<1> DEFINE T == [q \in Atop(f) |-> Tagged(q)]
<1>6. T \in Bijection(Atop(f), InInode)
  <2>1. T \in Injection(Atop(f), InInode)
    BY <1>3, <1>5 DEF Injection, IsInjective
  <2>2. T \in Surjection(Atop(f), InInode)
    BY <1>3, <1>4 DEF Surjection
  <2>3. QED
    BY <2>1, <2>2 DEF Bijection
<1>7. ExistsBijection(Atop(f), InInode)
  BY <1>6 DEF ExistsBijection
<1>8. IsFiniteSet(Atop(f))
  <2>1. Atop(f) \subseteq Places(f) /\ IsFiniteSet(Places(f))
    BY CountedPlaces DEF Atop
  <2>2. QED
    BY <2>1, FS_Subset
<1>9. QED
  BY <1>7, <1>8, FS_Bijection

\* The clusters of the file are those at its places.
LEMMA UsedIs ==
  ASSUME Sound(f)
  PROVE  Used = {At(f, q[1], q[2]) : q \in Places(f)}
<1>1. f \in States /\ f.i2 \in OptCluster
      /\ f.d \in [0 .. N_DIRECT - 1 -> OptCluster] /\ f.i1 \in [0 .. N_INDIRECT - 1 -> OptCluster]
  BY Fields DEF Sound
<1>2. ASSUME NEW c, NEW n, NEW p, Holds(f, n, p), At(f, n, p) = c
      PROVE  c \in {At(f, q[1], q[2]) : q \in Places(f)}
  <2>1. <<n, p>> \in Places(f)
    BY <1>1, <1>2, InPlaces
  <2>2. QED
    BY <1>2, <2>1
<1>3. ASSUME NEW q \in InRefClusters
      PROVE  Holds(f, q[1], q[2]) /\ At(f, q[1], q[2]) = Named(q) /\ q[1] \in Cluster
  <2>1. q \in Below(f)
    BY InRefClustersIs
  <2>2. Holds(f, q[1], q[2]) /\ q[1] \in Cluster
    BY <1>1, <2>1, InPlaces DEF Below
  <2>3. QED
    BY <2>2, HoldsIn DEF Named
<1>4. ASSUME NEW c \in Used PROVE \E n, p : Holds(f, n, p) /\ At(f, n, p) = c
  <2>1. c # NULL_CLUSTER
    BY DEF Used
  <2>2. CASE c \in {f.d[i] : i \in DOMAIN f.d}
    <3>1. PICK i \in DOMAIN f.d : c = f.d[i]
      BY <2>2
    <3>2. Holds(f, -1, i) /\ At(f, -1, i) = c
      BY <1>1, <2>1, <3>1, HoldsDirect, AtInode
    <3>3. QED
      BY <3>2
  <2>3. CASE c \in RefClusters
    <3>1. c \in Cluster /\ IsRef(f, c)
      BY <2>1, <2>3, RefClustersIs, ClusterType
    <3>2. QED
      BY <1>1, <3>1, RefHeld
  <2>4. CASE c \in {Named(q) : q \in InRefClusters}
    <3>1. PICK q \in InRefClusters : c = Named(q)
      BY <2>4
    <3>2. Holds(f, q[1], q[2]) /\ At(f, q[1], q[2]) = c
      BY <1>3, <3>1
    <3>3. QED
      BY <3>2
  <2>5. QED
    BY <2>2, <2>3, <2>4 DEF Used
<1>5. ASSUME NEW q \in Places(f) PROVE At(f, q[1], q[2]) \in Used
  <2> DEFINE c == At(f, q[1], q[2])
  <2>1. Holds(f, q[1], q[2]) /\ q = <<q[1], q[2]>> /\ c \in Cluster /\ c # NULL_CLUSTER
    BY <1>1, InPlaces, HoldsCluster, ClusterType
  <2>2. CASE q[1] = -1
    <3>1. q[2] \in DOMAIN f.d /\ c = f.d[q[2]]
      <4>1. Holds(f, -1, q[2]) /\ c = At(f, -1, q[2])
        BY <2>1, <2>2, Zenon
      <4>2. QED
        BY <1>1, <4>1, HoldsDirect, AtInode
    <3>2. QED
      BY <2>1, <3>1 DEF Used
  <2>3. CASE q[1] = -2
    <3>1. q[2] \in DOMAIN f.i1 /\ c = f.i1[q[2]]
      <4>1. Holds(f, -2, q[2]) /\ c = At(f, -2, q[2])
        BY <2>1, <2>3, Zenon
      <4>2. QED
        BY <1>1, <4>1, HoldsSingle, AtInode
    <3>2. QED
      BY <2>1, <3>1 DEF Used, RefClusters
  <2>4. CASE q[1] = -3
    <3>1. c = f.i2
      BY <2>4, AtInode
    <3>2. QED
      BY <2>1, <3>1 DEF Used, RefClusters
  <2>5. CASE q[1] \in Cluster
    <3>1. q \in InRefClusters
      BY <2>5, InRefClustersIs DEF Below
    <3>2. c = Named(q)
      BY <1>3, <3>1
    <3>3. QED
      BY <2>1, <3>1, <3>2 DEF Used
  <2>6. QED
    BY <2>1, <2>2, <2>3, <2>4, <2>5, NodeType
<1>6. QED
  BY <1>2, <1>4, <1>5

\* Nothing is counted late while every reference cluster has been written.
LEMMA WholePlaces ==
  ASSUME NEW z, Sound(z), Whole(z)
  PROVE  Places(z) \subseteq Counted(z) \cup {<<-3, 0>>}
<1>1. z \in States
  BY DEF Sound
<1>2. ASSUME NEW q \in Places(z), q # <<-3, 0>> PROVE q \in Counted(z)
  <2>1. q = <<q[1], q[2]>> /\ Holds(z, q[1], q[2]) /\ q \in Place
    BY <1>1, InPlaces DEF Places
  <2>2. q[1] # -3
    BY <1>2, <2>1, HoldsDouble
  <2>3. Counts1(z, q[1], q[2])
    BY <2>1, <2>2 DEF Counts1, Whole
  <2>4. QED
    BY <2>1, <2>3 DEF Counted
<1>3. QED
  BY <1>2

LEMMA WholeTop ==
  ASSUME NEW z, Sound(z), Whole(z), Counts(z), Owed(z) = 0
  PROVE  z.i2 = NULL_CLUSTER
<1> SUFFICES ASSUME z.i2 # NULL_CLUSTER PROVE FALSE
  OBVIOUS
<1>1. Holds(z, -3, 0) /\ At(z, -3, 0) = z.i2 /\ RefNode(z, -3)
  BY HoldsDouble, AtInode DEF RefNode
<1>2. Written(z, z.i2)
  BY <1>1 DEF Whole, Bare
<1>3. ~ BareBelow(z)
  BY <1>2 DEF BareBelow, Whole
<1>4. QED
  BY <1>3 DEF Counts

\* There are as many clusters in the file as it has places.
LEMMA UsedCount ==
  ASSUME Sound(f)
  PROVE  /\ Used \subseteq Cluster /\ Used \cap f.free = {}
         /\ Cardinality(Used) = Cardinality(Places(f))
         /\ Cardinality(Places(f)) = Cardinality(InInode) + Cardinality(InRefClusters)
<1>1. f \in States
  BY DEF Sound
<1>2. \A q \in Places(f) : /\ Holds(f, q[1], q[2]) /\ At(f, q[1], q[2]) \in Cluster
                           /\ At(f, q[1], q[2]) \notin f.free /\ At(f, q[1], q[2]) \in Used
  BY <1>1, InPlaces, HoldsCluster, UsedIs DEF Sound
<1>3. Used \subseteq Cluster /\ Used \cap f.free = {}
  BY <1>2, UsedIs
<1> DEFINE h == [q \in Places(f) |-> At(f, q[1], q[2])]
<1>4. h \in Bijection(Places(f), Used)
  <2>1. h \in Injection(Places(f), Used)
    BY <1>2, PlacesInjective
  <2>2. \A c \in Used : \E q \in Places(f) : h[q] = c
    BY UsedIs
  <2>3. h \in [Places(f) -> Used]
    BY <1>2
  <2>4. QED
    BY <2>1, <2>2, <2>3 DEF Bijection, Surjection
<1>5. IsFiniteSet(Places(f))
  BY CountedPlaces
<1>6. ExistsBijection(Places(f), Used)
  BY <1>4 DEF ExistsBijection
<1>7. Cardinality(Used) = Cardinality(Places(f))
  BY <1>5, <1>6, FS_Bijection
<1>8. Cardinality(Places(f)) = Cardinality(Atop(f)) + Cardinality(Below(f))
  <2>1. IsFiniteSet(Atop(f)) /\ IsFiniteSet(Below(f))
    BY <1>5, FS_Subset DEF Atop, Below
  <2>2. Atop(f) \cap Below(f) = {}
    BY ClusterType DEF Atop, Below
  <2>3. Places(f) = Atop(f) \cup Below(f)
    BY <1>2, NodeType DEF Atop, Below
  <2>4. Cardinality(Atop(f) \cup Below(f)) = Cardinality(Atop(f)) + Cardinality(Below(f))
    <3>1. Cardinality(Atop(f)) \in Nat /\ Cardinality(Below(f)) \in Nat
      BY <2>1, FS_CardinalityType
    <3>2. Cardinality(Atop(f) \cap Below(f)) = 0
      BY <2>2, FS_EmptySet
    <3>3. Cardinality(Atop(f) \cup Below(f))
            = Cardinality(Atop(f)) + Cardinality(Below(f)) - Cardinality(Atop(f) \cap Below(f))
      BY <2>1, FS_Union
    <3>4. QED
      BY <3>1, <3>2, <3>3
  <2>5. QED
    BY <2>3, <2>4
<1>9. Cardinality(InInode) = Cardinality(Atop(f)) /\ InRefClusters = Below(f)
  BY InInodeIs, InRefClustersIs
<1>10. QED
  BY <1>3, <1>7, <1>8, <1>9

LEMMA NoneShared == IInv => Exclusive
<1> SUFFICES ASSUME IInv PROVE Exclusive
  OBVIOUS
<1>1. TypeOK /\ (~ f.undefined => Sound(f))
  BY DEF IInv
<1>2. QED
  BY <1>1, UsedCount DEF Exclusive

LEMMA AllHave == IInv => NothingLost
<1> SUFFICES ASSUME IInv, ~ f.undefined, ~ f.short PROVE Used \cup f.free = Cluster
  BY DEF NothingLost
<1>1. Sound(f) /\ Complete(f) /\ f \in States
  BY DEF IInv
<1>2. Used \subseteq Cluster /\ f.free \subseteq Cluster
  BY <1>1, UsedCount DEF States
<1>3. ASSUME NEW c \in Cluster, c \notin f.free PROVE c \in Used
  <2>1. PICK n, p : Holds(f, n, p) /\ At(f, n, p) = c
    BY <1>1, <1>3 DEF Complete
  <2>2. <<n, p>> \in Places(f)
    BY <1>1, <2>1, InPlaces
  <2>3. QED
    BY <1>1, <2>1, <2>2, UsedIs
<1>4. QED
  BY <1>2, <1>3

\* csize counts every place but, for a while, that of f.i2's cluster.
LEMMA CountIs == IInv => CountExact
<1> SUFFICES ASSUME IInv, ~ f.undefined
             PROVE  f.csize <= Cardinality(Used) /\ (~ f.short => f.csize = Cardinality(Used))
  BY DEF CountExact
<1>1. Sound(f) /\ Counts(f) /\ (~ f.short => Whole(f))
  BY DEF IInv
<1> DEFINE top == <<-3, 0>>
<1>2. /\ Counted(f) \subseteq Places(f) /\ top \notin Counted(f)
      /\ f.i2 # NULL_CLUSTER => top \in Places(f)
      /\ IsFiniteSet(Places(f)) /\ Cardinality(Places(f)) \in Nat
  BY <1>1, CountedPlaces
<1>3. f.csize \in Int /\ IsFiniteSet(Counted(f)) /\ Cardinality(Counted(f)) \in Nat
  BY <1>1, <1>2, Fields, FS_Subset, FS_CardinalityType DEF Sound
<1>4. f.csize = Cardinality(Counted(f)) + Owed(f)
  BY <1>3 DEF Owed
<1>5. Cardinality(Used) = Cardinality(Places(f))
  BY <1>1, UsedCount
<1>6. Cardinality(Counted(f) \cup {top}) = Cardinality(Counted(f)) + 1
  BY <1>2, <1>3, FS_AddElement
<1>7. CASE Owed(f) = 1
  <2>1. top \in Places(f)
    BY <1>1, <1>2, <1>7 DEF Counts
  <2>2. Counted(f) \cup {top} \subseteq Places(f)
    BY <1>2, <2>1
  <2>3. Cardinality(Counted(f)) + 1 <= Cardinality(Places(f))
    BY <1>2, <1>6, <2>2, FS_Subset
  <2>4. ASSUME ~ f.short PROVE Places(f) = Counted(f) \cup {top}
    BY <1>1, <2>2, <2>4, WholePlaces
  <2>5. ASSUME ~ f.short PROVE f.csize = Cardinality(Places(f))
    BY <1>4, <1>6, <1>7, <2>4, <2>5
  <2>6. QED
    BY <1>2, <1>3, <1>4, <1>5, <1>7, <2>3, <2>5
<1>8. CASE Owed(f) = 0
  <2>1. Cardinality(Counted(f)) <= Cardinality(Places(f))
    BY <1>2, FS_Subset
  <2>2. ASSUME ~ f.short PROVE Places(f) = Counted(f)
    <3>1. Whole(f)
      BY <1>1, <2>2
    <3>2. f.i2 = NULL_CLUSTER
      BY <1>1, <1>8, <3>1, WholeTop
    <3>3. top \notin Places(f)
      BY <1>1, <3>2, InPlaces, HoldsDouble DEF Sound
    <3>4. QED
      BY <1>1, <1>2, <3>1, <3>3, WholePlaces
  <2>3. QED
    BY <1>2, <1>3, <1>4, <1>5, <1>8, <2>1, <2>2
<1>9. QED
  BY <1>1, <1>7, <1>8 DEF Counts

-----------------------------------------------------------------------------
(* What soGetFileCluster finds *)

\* The tree z is part of the tree y.
Within(z, y) == \A m, q : Holds(z, m, q) => Holds(y, m, q) /\ At(y, m, q) = At(z, m, q)

\* A place of z is of the same file cluster in both.
LEMMA LocatesWithin ==
  ASSUME NEW z \in States, NEW y, Within(z, y), NEW g, NEW n, NEW p, Locates(z, g, n, p)
  PROVE  Locates(y, g, n, p)
<1>1. ASSUME NEW k, Holds(z, z.i2, k) PROVE y.i2 = z.i2
  <2>1. z.i2 \in Cluster
    BY <1>1, NodeType, Fields, ClusterType DEF OptCluster, NULL_CLUSTER
  <2>2. Holds(z, -3, 0) /\ At(z, -3, 0) = z.i2
    BY <2>1, HoldsDouble, AtInode, ClusterType
  <2>3. At(y, -3, 0) = z.i2
    BY <2>2 DEF Within
  <2>4. QED
    BY <2>3, AtInode
<1>2. QED
  BY <1>1 DEF Locates, Within

LEMMA LocatesBack ==
  ASSUME NEW z, Sound(z), NEW y, Sound(y), Within(z, y), NEW g, NEW n, NEW p, Holds(z, n, p),
         Locates(y, g, n, p)
  PROVE  Locates(z, g, n, p)
<1>1. z \in States /\ y \in States
  BY DEF Sound
<1>2. ASSUME NEW m, NEW q, Holds(y, m, q), At(y, m, q) = n
      PROVE  Holds(z, m, q) /\ At(z, m, q) = n /\ RefNode(z, m)
  <2>1. n \in Cluster
    BY <1>1, <1>2, HoldsCluster
  <2>2. IsRef(z, n)
    BY <2>1, HoldsIn
  <2>3. PICK k, r : Holds(z, k, r) /\ RefNode(z, k) /\ At(z, k, r) = n
    BY <1>1, <2>1, <2>2, RefHeld
  <2>4. Holds(y, k, r) /\ At(y, k, r) = n
    BY <2>3 DEF Within
  <2>5. k = m /\ r = q
    BY <1>2, <2>4 DEF Sound
  <2>6. QED
    BY <2>3, <2>5
<1>3. CASE n = -1 /\ p = g
  BY <1>3 DEF Locates
<1>4. CASE \E i : /\ Holds(y, -2, i) /\ At(y, -2, i) = n
                  /\ p \in Position /\ g = N_DIRECT + i * RPC + p
  BY <1>2, <1>4 DEF Locates
<1>5. CASE \E k : /\ Holds(y, y.i2, k) /\ At(y, y.i2, k) = n
                  /\ p \in Position /\ g = FirstDouble + k * RPC + p
  <2>1. PICK k : /\ Holds(y, y.i2, k) /\ At(y, y.i2, k) = n
                 /\ p \in Position /\ g = FirstDouble + k * RPC + p
    BY <1>5
  <2>2. Holds(z, y.i2, k) /\ At(z, y.i2, k) = n /\ RefNode(z, y.i2)
    BY <1>2, <2>1
  <2>3. y.i2 \notin {-2, -3}
    BY <1>1, Fields, ClusterType, Sizes DEF OptCluster, NULL_CLUSTER
  <2>4. y.i2 = z.i2
    BY <2>2, <2>3 DEF RefNode
  <2>5. QED
    BY <2>1, <2>2, <2>4 DEF Locates
<1>6. QED
  BY <1>3, <1>4, <1>5 DEF Locates

LEMMA LocatesOnce ==
  ASSUME NEW z, Sound(z), NEW n, NEW p, NEW g, Locates(z, g, n, p), NEW h, Locates(z, h, n, p)
  PROVE  g = h
<1>1. CASE n = -1
  BY <1>1, LocatesDirect
<1>2. CASE \E i : Holds(z, -2, i) /\ At(z, -2, i) = n
  BY <1>2, LocatesSingle
<1>3. CASE \E k : Holds(z, z.i2, k) /\ At(z, z.i2, k) = n
  BY <1>3, LocatesDouble
<1>4. QED
  BY <1>1, <1>2, <1>3 DEF Locates

LEMMA GetAt ==
  ASSUME NEW z, Sound(z), NEW g \in FileCluster, NEW n, NEW p, Holds(z, n, p), Locates(z, g, n, p)
  PROVE  Readable(z, g) /\ GetFileCluster(z, g) = At(z, n, p) /\ GetFileCluster(z, g) # NULL_CLUSTER
<1>1. z \in States /\ At(z, n, p) # NULL_CLUSTER
  BY HoldsCluster, ClusterType DEF Sound
<1>2. CASE n = -1 /\ p = g
  <2>1. g < N_DIRECT
    BY <1>2, HoldsDirect, Sizes
  <2>2. QED
    BY <1>1, <1>2, <2>1, GetDirect, AtInode
<1>3. CASE \E i : /\ Holds(z, -2, i) /\ At(z, -2, i) = n
                  /\ p \in Position /\ g = N_DIRECT + i * RPC + p
  <2>1. PICK i : /\ Holds(z, -2, i) /\ At(z, -2, i) = n
                 /\ p \in Position /\ g = N_DIRECT + i * RPC + p
    BY <1>3
  <2>2. i \in 0 .. N_INDIRECT - 1 /\ z.i1[i] = n /\ n \in Cluster
    BY <1>1, <2>1, HoldsSingle, AtInode, HoldsCluster
  <2>3. i * RPC + p \in Nat /\ i * RPC + p < N_INDIRECT * RPC /\ i \in Nat /\ i * RPC \in Nat
    BY <2>1, <2>2, InRow, Sizes
  <2>4. ~ (g < N_DIRECT) /\ g < FirstDouble /\ Ind(g) = i * RPC + p
    BY <2>1, <2>3, FirstDoubleIs, Sizes DEF Ind, Position
  <2>5. Ind(g) \div RPC = i /\ Ind(g) % RPC = p
    BY <2>1, <2>3, <2>4, DivModUnique
  <2>6. Written(z, n) /\ At(z, n, p) = z.disk[n][p] /\ n # NULL_CLUSTER
    BY <2>2, HoldsIn, ClusterType
  <2>7. QED
    BY <1>1, <2>2, <2>4, <2>5, <2>6, GetSingle
<1>4. CASE \E k : /\ Holds(z, z.i2, k) /\ At(z, z.i2, k) = n
                  /\ p \in Position /\ g = FirstDouble + k * RPC + p
  <2>1. PICK k : /\ Holds(z, z.i2, k) /\ At(z, z.i2, k) = n
                 /\ p \in Position /\ g = FirstDouble + k * RPC + p
    BY <1>4
  <2>2. z.i2 \in Cluster
    BY <1>1, <2>1, NodeType, Fields, ClusterType DEF OptCluster, NULL_CLUSTER
  <2>3. k \in Position /\ Written(z, z.i2) /\ z.disk[z.i2][k] = n /\ n \in Cluster
    BY <1>1, <2>1, <2>2, HoldsIn, HoldsCluster
  <2>4. k * RPC + p \in Nat /\ k \in Nat /\ k * RPC \in Nat
    BY <2>1, <2>3, DivModUnique, Sizes DEF Position
  <2>5. ~ (g < FirstDouble) /\ Dbl(g) = k * RPC + p
    BY <2>1, <2>4, FirstDoubleIs, Sizes DEF Dbl, Position
  <2>6. Dbl(g) \div RPC = k /\ Dbl(g) % RPC = p
    BY <2>1, <2>4, <2>5, DivModUnique
  <2>7. Written(z, n) /\ At(z, n, p) = z.disk[n][p] /\ n # NULL_CLUSTER /\ z.i2 # NULL_CLUSTER
    BY <2>2, <2>3, HoldsIn, ClusterType
  <2>8. QED
    BY <1>1, <2>3, <2>5, <2>6, <2>7, GetDouble
<1>5. QED
  BY <1>2, <1>3, <1>4 DEF Locates

\* And every cluster it finds is at a place.
LEMMA GetHeld ==
  ASSUME NEW z, Sound(z), NEW g \in FileCluster, Readable(z, g), GetFileCluster(z, g) # NULL_CLUSTER
  PROVE  \E n, p : Holds(z, n, p) /\ Locates(z, g, n, p)
<1>1. z \in States
  BY DEF Sound
<1>2. CASE g < N_DIRECT
  <2>1. g \in 0 .. N_DIRECT - 1 /\ z.d[g] # NULL_CLUSTER
    BY <1>2, GetDirect, Sizes, FirstDoubleIs DEF FileCluster
  <2>2. Holds(z, -1, g)
    BY <2>1, HoldsDirect
  <2>3. QED
    BY <2>2 DEF Locates
<1>3. CASE ~ (g < N_DIRECT) /\ g < FirstDouble
  <2> DEFINE i == Ind(g) \div RPC
             p == Ind(g) % RPC
             c == z.i1[i]
  <2>1. i \in 0 .. N_INDIRECT - 1 /\ p \in Position /\ g = N_DIRECT + i * RPC + p
    BY <1>3, SinglePart
  <2>2. c # NULL_CLUSTER /\ Written(z, c) /\ GetFileCluster(z, g) = z.disk[c][p]
    BY <1>1, <1>3, GetSingle
  <2>3. Holds(z, -2, i) /\ At(z, -2, i) = c /\ c \in Cluster /\ IsRef(z, c)
    <3>1. Holds(z, -2, i)
      BY <2>1, <2>2, HoldsSingle
    <3>2. At(z, -2, i) = c
      BY AtInode
    <3>3. c \in Cluster
      BY <1>1, <3>1, <3>2, HoldsCluster
    <3>4. IsRef(z, c)
      BY <2>1 DEF IsRef
    <3>5. QED
      BY <3>1, <3>2, <3>3, <3>4
  <2>4. Holds(z, c, p)
    BY <2>1, <2>2, <2>3, HoldsIn
  <2>5. QED
    BY <2>1, <2>3, <2>4 DEF Locates
<1>4. CASE ~ (g < N_DIRECT) /\ ~ (g < FirstDouble)
  <2> DEFINE k == Dbl(g) \div RPC
             p == Dbl(g) % RPC
             c == z.disk[z.i2][k]
  <2>1. k \in Position /\ p \in Position /\ g = FirstDouble + k * RPC + p
    BY <1>4, DoublePart
  <2>2. z.i2 # NULL_CLUSTER /\ Written(z, z.i2) /\ c # NULL_CLUSTER /\ Written(z, c)
        /\ GetFileCluster(z, g) = z.disk[c][p]
    BY <1>1, <1>4, GetDouble
  <2>3. z.i2 \in Cluster /\ IsRef(z, z.i2)
    BY <1>1, <2>2, Fields, ClusterType DEF IsRef
  <2>4. Holds(z, z.i2, k) /\ At(z, z.i2, k) = c
    BY <2>1, <2>2, <2>3, HoldsIn
  <2>5. c \in Cluster /\ IsRef(z, c)
    BY <1>1, <2>1, <2>2, <2>4, HoldsCluster DEF IsRef, Middle
  <2>6. Holds(z, c, p)
    BY <2>1, <2>2, <2>5, HoldsIn
  <2>7. QED
    BY <2>1, <2>4, <2>6 DEF Locates
<1>5. QED
  BY <1>2, <1>3, <1>4

LEMMA GetSame ==
  ASSUME NEW z, NEW y, SameTree(z, y), NEW g
  PROVE  (Readable(y, g) <=> Readable(z, g)) /\ GetFileCluster(y, g) = GetFileCluster(z, g)
  BY DEF SameTree, Readable, Path, GetFileCluster, Refs

\* The tree grows at file cluster h only.
LEMMA GrownKept ==
  ASSUME NEW z, Sound(z), NEW y, Sound(y), Within(z, y), NEW h,
         \A m, q : Holds(y, m, q) /\ ~ Holds(z, m, q) /\ ~ RefNode(y, m) => Locates(y, h, m, q),
         NEW g \in FileCluster, g # h, Readable(z, g), Readable(y, g)
  PROVE  GetFileCluster(y, g) = GetFileCluster(z, g)
<1>1. z \in States
  BY DEF Sound
<1>2. CASE GetFileCluster(z, g) # NULL_CLUSTER
  <2>1. PICK n, p : Holds(z, n, p) /\ Locates(z, g, n, p)
    BY <1>2, GetHeld
  <2>2. Holds(y, n, p) /\ At(y, n, p) = At(z, n, p) /\ Locates(y, g, n, p)
    BY <1>1, <2>1, LocatesWithin DEF Within
  <2>3. QED
    BY <2>1, <2>2, GetAt
<1>3. CASE GetFileCluster(z, g) = NULL_CLUSTER /\ GetFileCluster(y, g) # NULL_CLUSTER
  <2>1. PICK n, p : Holds(y, n, p) /\ Locates(y, g, n, p)
    BY <1>3, GetHeld
  <2>2. ~ Locates(y, h, n, p)
    BY <2>1, LocatesOnce
  <2>3. ~ RefNode(y, n)
    BY <2>1, LocatesNone
  <2>4. Holds(z, n, p)
    BY <2>1, <2>2, <2>3
  <2>5. Locates(z, g, n, p)
    BY <2>1, <2>4, LocatesBack
  <2>6. QED
    BY <1>3, <2>4, <2>5, GetAt
<1>4. QED
  BY <1>2, <1>3

\* The tree is cut, and not at file cluster g.
LEMMA CutKept ==
  ASSUME NEW z, Sound(z), NEW y, Sound(y), Within(y, z), NEW g \in FileCluster,
         \A m, q : Holds(z, m, q) /\ Locates(z, g, m, q) => Holds(y, m, q),
         Readable(z, g), Readable(y, g)
  PROVE  GetFileCluster(y, g) = GetFileCluster(z, g)
<1>1. y \in States
  BY DEF Sound
<1>2. CASE GetFileCluster(z, g) # NULL_CLUSTER
  <2>1. PICK n, p : Holds(z, n, p) /\ Locates(z, g, n, p)
    BY <1>2, GetHeld
  <2>2. Holds(y, n, p) /\ At(z, n, p) = At(y, n, p)
    BY <2>1 DEF Within
  <2>3. Locates(y, g, n, p)
    BY <2>1, <2>2, LocatesBack
  <2>4. QED
    BY <2>1, <2>2, <2>3, GetAt
<1>3. CASE GetFileCluster(z, g) = NULL_CLUSTER /\ GetFileCluster(y, g) # NULL_CLUSTER
  <2>1. PICK n, p : Holds(y, n, p) /\ Locates(y, g, n, p)
    BY <1>3, GetHeld
  <2>2. Holds(z, n, p) /\ Locates(z, g, n, p)
    BY <1>1, <2>1, LocatesWithin DEF Within
  <2>3. QED
    BY <1>3, <2>2, GetAt
<1>4. QED
  BY <1>2, <1>3

-----------------------------------------------------------------------------
(* The properties the runs check *)

\* soAllocFileCluster (alloc_filecluster.cpp) and soFreeFileClusters
\* (free_fileclusters.cpp) never give a cluster two places in the file, nor one
\* that is free meanwhile, whatever the order of the calls and wherever they throw.
THEOREM ExclusiveAlways == Spec => []Exclusive
  BY Invariance, NoneShared, PTL

\* Until soAllocCluster throws half way, a cluster that is not in the file is free:
\* soFreeFileClusters frees every cluster whose reference it drops.
THEOREM NothingLostAlways == Spec => []NothingLost
  BY Invariance, AllHave, PTL

\* csize (inode.h:44) is the number of clusters of the file, reference clusters
\* included, until soAllocCluster throws half way, and never more.
THEOREM CountExactAlways == Spec => []CountExact
  BY Invariance, CountIs, PTL

\* soAllocFileCluster changes the cluster of no position but the one asked for,
\* and gives that one a cluster that was free.
THEOREM AllocOnlyAlways == Spec => AllocOnly
<1>1. ASSUME IInv, NEW fcn \in Asked, Alloc(fcn), ~ f'.undefined
      PROVE  /\ Kept(FileCluster \ {fcn})
             /\ f'.err = "OK" => GetFileCluster(f', fcn) \in f.free
  <2>1. fcn \in FileCluster
    BY AskedIs
  <2>2. PICK y : /\ AllocDone(Call, y, fcn) /\ ~ f.undefined /\ Sound(Call) /\ Counts(Call)
                 /\ f' = [y EXCEPT !.ret = NULL_CLUSTER,
                                   !.short = y.short \/ (Threw(y) /\ y.free # f.free)]
    BY <1>1, <2>1, AllocCall
  <2>3. f \in States /\ Call \in States /\ SameTree(f, Call) /\ Call.free = f.free
    BY <1>1, CallIs DEF IInv
  <2>4. AllocGood(Call, y, fcn)
    <3>1. ASSUME y = [Call EXCEPT !.undefined = TRUE] PROVE FALSE
      BY <1>1, <2>2, <2>3, <3>1 DEF States
    <3>2. QED
      BY <2>2, <3>1 DEF AllocDone
  <2>5. Sound(y) /\ y \in States /\ Within(Call, y)
    BY <2>4 DEF AllocGood, Extends, Within, Sound
  <2>6. SameTree(y, f') /\ f'.err = y.err
    BY <2>2, <2>5 DEF States, SameTree
  <2>7. ASSUME NEW g \in FileCluster \ {fcn}, Readable(f, g), Readable(f', g)
        PROVE  GetFileCluster(f', g) = GetFileCluster(f, g)
    <3>1. Readable(Call, g) /\ Readable(y, g)
      BY <2>3, <2>6, <2>7, GetSame
    <3>2. \A m, q : Holds(y, m, q) /\ ~ Holds(Call, m, q) /\ ~ RefNode(y, m)
                      => Locates(y, fcn, m, q)
      BY <2>4 DEF AllocGood
    <3>3. GetFileCluster(y, g) = GetFileCluster(Call, g)
      BY <2>2, <2>5, <2>7, <3>1, <3>2, GrownKept
    <3>4. QED
      BY <2>3, <2>6, <3>3, GetSame
  <2>8. ASSUME f'.err = "OK" PROVE GetFileCluster(f', fcn) \in f.free
    <3>1. PICK m, q : Holds(y, m, q) /\ Locates(y, fcn, m, q) /\ At(y, m, q) \in Call.free
      BY <2>4, <2>6, <2>8 DEF AllocGood, Threw
    <3>2. GetFileCluster(y, fcn) = At(y, m, q)
      BY <2>1, <2>5, <3>1, GetAt
    <3>3. QED
      BY <2>3, <2>6, <3>1, <3>2, GetSame
  <2>9. QED
    BY <2>7, <2>8 DEF Kept
<1>2. IInv /\ [Next]_f => [\A fcn \in Asked : Alloc(fcn) /\ ~ f'.undefined =>
                             /\ Kept(FileCluster \ {fcn})
                             /\ f'.err = "OK" => GetFileCluster(f', fcn) \in f.free]_f
  BY <1>1
<1>3. QED
  BY <1>2, Invariance, PTL DEF Spec, AllocOnly

\* soFreeFileClusters leaves every position before ffcn the cluster it had, unless
\* an allocation has run out of space half way before.
THEOREM KeepsPrefixAlways == Spec => KeepsPrefix
<1>1. ASSUME IInv, NEW ffcn \in Asked, Free(ffcn), ~ f'.undefined, ~ f.short
      PROVE  Kept(0 .. ffcn - 1)
  <2>1. ffcn \in FileCluster /\ ffcn \in Nat
    BY AskedIs
  <2>2. /\ Going(Call, f', ffcn) \/ Stuck(Call, f')
        /\ ~ f.undefined /\ Sound(Call) /\ Counts(Call)
    BY <1>1, <2>1, FreeCall
  <2>3. Going(Call, f', ffcn)
    BY <1>1, <2>2 DEF Stuck
  <2>4. f \in States /\ SameTree(f, Call) /\ Whole(f)
    BY <1>1, <2>2, CallIs DEF IInv
  <2>5. Whole(Call)
    BY <2>4, CallSame
  <2>6. /\ Sound(f') /\ Within(f', Call)
        /\ \A g, m, q : g < ffcn /\ Holds(Call, m, q) /\ Locates(Call, g, m, q) => Holds(f', m, q)
    BY <2>3, <2>5 DEF Going, Trims, Within
  <2>7. ASSUME NEW g \in 0 .. ffcn - 1, Readable(f, g), Readable(f', g)
        PROVE  GetFileCluster(f', g) = GetFileCluster(f, g)
    <3>1. g \in FileCluster /\ g < ffcn
      BY <2>1, FirstDoubleIs DEF FileCluster
    <3>2. Readable(Call, g) /\ GetFileCluster(Call, g) = GetFileCluster(f, g)
      BY <2>4, <2>7, GetSame
    <3>3. \A m, q : Holds(Call, m, q) /\ Locates(Call, g, m, q) => Holds(f', m, q)
      BY <2>6, <3>1
    <3>4. GetFileCluster(f', g) = GetFileCluster(Call, g)
      BY <2>2, <2>6, <2>7, <3>1, <3>2, <3>3, CutKept
    <3>5. QED
      BY <3>2, <3>4
  <2>8. QED
    BY <2>7 DEF Kept
<1>2. IInv /\ [Next]_f => [\A ffcn \in Asked : Free(ffcn) /\ ~ f'.undefined /\ ~ f.short
                             => Kept(0 .. ffcn - 1)]_f
  BY <1>1
<1>3. QED
  BY <1>2, Invariance, PTL DEF Spec, KeepsPrefix

=============================================================================
