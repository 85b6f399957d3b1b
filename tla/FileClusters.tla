---------------------------- MODULE FileClusters ----------------------------
(***************************************************************************)
(* The clusters of a file (filecluster/*.cpp): N_DIRECT references in the   *)
(* inode, N_INDIRECT reference clusters i1, and i2, a reference cluster of  *)
(* reference clusters.                                                      *)
(*                                                                         *)
(* soAllocCluster and soFreeCluster are the list of free clusters at its    *)
(* best: a set, from which some member is taken (which one makes no         *)
(* difference here) and ENOSPC thrown if there is none.  Module             *)
(* FreeClusters says what they do beyond that.  Loops are written by what   *)
(* they visit.  One call by a system call is one step.                      *)
(***************************************************************************)
EXTENDS Integers, FiniteSets, FiniteSetsExt

CONSTANTS
  N_DIRECT, N_INDIRECT,  \* 5 and 2
  RPC,                   \* references per cluster
  CTotal,                \* data clusters the file may use
  Asked                  \* the file clusters the callers ask for

ASSUME FileClustersAssumption ==
  /\ N_DIRECT \in Nat \ {0} /\ N_INDIRECT \in Nat \ {0}
  /\ RPC \in Nat \ {0} /\ CTotal \in Nat \ {0}
  /\ Asked \subseteq 0 .. N_DIRECT + N_INDIRECT * RPC + RPC * RPC - 1

Cluster == 1 .. CTotal
NULL_CLUSTER == 0
OptCluster == Cluster \cup {NULL_CLUSTER}
Position == 0 .. RPC - 1
FirstDouble == N_DIRECT + N_INDIRECT * RPC
FileCluster == 0 .. FirstDouble + RPC * RPC - 1

VARIABLE f

(***************************************************************************)
(* f.d, f.i1, f.i2, f.csize: the fields of the open inode.  f.disk: the     *)
(* reference clusters as last written, and Unwritten for what holds other   *)
(* data.  f.free: the free clusters.  f.ret, f.err: the answer.             *)
(* f.nullWritten: the call has written cluster NULL_CLUSTER, which is the   *)
(* end of the inode table.  f.undefined: the call has gone by data nobody   *)
(* wrote for it, or past the end of an array; the model ends there.         *)
(* f.short, a history: an allocation has run out of space half way.         *)
(***************************************************************************)
NoRefs == [p \in Position |-> NULL_CLUSTER]
Unwritten == [p \in Position |-> -1]

Init == f = [ d |-> [i \in 0 .. N_DIRECT - 1 |-> NULL_CLUSTER],
              i1 |-> [i \in 0 .. N_INDIRECT - 1 |-> NULL_CLUSTER],
              i2 |-> NULL_CLUSTER, csize |-> 0,
              disk |-> [c \in Cluster |-> Unwritten], free |-> Cluster,
              ret |-> NULL_CLUSTER, err |-> "OK",
              nullWritten |-> FALSE, undefined |-> FALSE, short |-> FALSE ]

Call == [f EXCEPT !.ret = NULL_CLUSTER, !.err = "OK", !.nullWritten = FALSE]

-----------------------------------------------------------------------------
(* soAllocCluster, soFreeCluster, soReadCluster and soWriteCluster           *)

Threw(z) == z.err # "OK"
AllocCluster(z) ==
  IF z.free = {} THEN [z EXCEPT !.err = "ENOSPC"]
  ELSE [z EXCEPT !.ret = Min(z.free), !.free = @ \ {Min(z.free)}]
FreeSet(z, S) == [z EXCEPT !.free = @ \cup S,
                           !.disk = [c \in Cluster |-> IF c \in S THEN Unwritten ELSE @[c]]]
Refs(z, c) == IF c = NULL_CLUSTER THEN NoRefs ELSE z.disk[c]
Write(z, c, ref) == IF c = NULL_CLUSTER THEN [z EXCEPT !.nullWritten = TRUE]
                    ELSE [z EXCEPT !.disk[c] = ref]
\* What a routine makes of a reference cluster it has read.
Checked(z, c, y) == IF z.disk[c] = Unwritten THEN [z EXCEPT !.undefined = TRUE] ELSE y

-----------------------------------------------------------------------------
(* soGetFileCluster *)

Ind(fcn) == fcn - N_DIRECT
Dbl(fcn) == fcn - FirstDouble

GetFileCluster(z, fcn) ==
  IF fcn < N_DIRECT THEN z.d[fcn]
  ELSE IF fcn < FirstDouble THEN Refs(z, z.i1[Ind(fcn) \div RPC])[Ind(fcn) % RPC]
  ELSE Refs(z, Refs(z, z.i2)[Dbl(fcn) \div RPC])[Dbl(fcn) % RPC]

\* The reference clusters on the way to a position, that soGetFileCluster reads.
Path(z, fcn) ==
  (IF fcn < N_DIRECT THEN {}
   ELSE IF fcn < FirstDouble THEN {z.i1[Ind(fcn) \div RPC]}
   ELSE {z.i2} \cup IF z.i2 = NULL_CLUSTER \/ z.disk[z.i2] = Unwritten THEN {}
                    ELSE {z.disk[z.i2][Dbl(fcn) \div RPC]}) \ {NULL_CLUSTER}
Readable(z, fcn) == \A c \in Path(z, fcn) : z.disk[c] # Unwritten

-----------------------------------------------------------------------------
(* soAllocFileCluster *)

\* A mutant: counts the cluster before there is one.
AllocDirectCounted(z, fcn) ==
  LET y == AllocCluster([z EXCEPT !.csize = @ + 1]) IN
  IF Threw(y) THEN y ELSE [y EXCEPT !.d[fcn] = y.ret]

AllocDirect(z, fcn) ==
  LET y == AllocCluster(z) IN
  IF Threw(y) THEN y
  ELSE [y EXCEPT !.d[fcn] = y.ret,
                 !.csize = IF z.d[fcn] = NULL_CLUSTER THEN @ + 1 ELSE @]

\* A mutant: the other references of c are gone.
AllocInFresh(z, c, p) ==
  LET y == AllocCluster(z) IN
  IF Threw(y) THEN y
  ELSE Checked(z, c, [Write(y, c, [NoRefs EXCEPT ![p] = y.ret]) EXCEPT !.csize = @ + 1])

\* Give position p of reference cluster c a cluster: the last step for both
\* indirections.  On ENOSPC nothing has been written.
AllocIn(z, c, p) ==
  LET y == AllocCluster(z) IN
  IF Threw(y) THEN y
  ELSE Checked(z, c, [Write(y, c, [z.disk[c] EXCEPT ![p] = y.ret])
          EXCEPT !.csize = IF z.disk[c][p] = NULL_CLUSTER THEN @ + 1 ELSE @])

\* A mutant: only the data cluster is counted.
AllocInNewOne(z, c, p, more) ==
  LET y == AllocCluster(z) IN
  IF Threw(y) THEN y
  ELSE [Write(y, c, [NoRefs EXCEPT ![p] = y.ret]) EXCEPT !.csize = @ + 1]

\* The same with c new: it is only written, and counted, with its first
\* reference; `more` counts it and those made on the way.
AllocInNew(z, c, p, more) ==
  LET y == AllocCluster(z) IN
  IF Threw(y) THEN y
  ELSE [Write(y, c, [NoRefs EXCEPT ![p] = y.ret]) EXCEPT !.csize = @ + more]

AllocIndirect(z, fcn) ==
  LET k == fcn \div RPC
      y == AllocCluster(z)
  IN  IF z.i1[k] # NULL_CLUSTER THEN AllocIn(z, z.i1[k], fcn % RPC)
      ELSE IF Threw(y) THEN y
      ELSE AllocInNew([y EXCEPT !.i1[k] = y.ret], y.ret, fcn % RPC, 2)

AllocDoubleIndirect(z, fcn) ==
  LET k == fcn \div RPC
      top == AllocCluster(z)
      y == IF z.i2 # NULL_CLUSTER THEN z
           ELSE IF Threw(top) THEN top ELSE [top EXCEPT !.i2 = top.ret]
      ref == IF z.i2 = NULL_CLUSTER THEN NoRefs ELSE z.disk[z.i2]
      x == AllocCluster(y)
      linked == Write(x, y.i2, [ref EXCEPT ![k] = x.ret])
  IN  IF Threw(y) THEN top
      ELSE IF ref = Unwritten THEN [z EXCEPT !.undefined = TRUE]
      ELSE IF ref[k] # NULL_CLUSTER THEN AllocIn(z, ref[k], fcn % RPC)
      ELSE IF Threw(x) THEN x
      ELSE AllocInNew(linked, x.ret, fcn % RPC, IF z.i2 = NULL_CLUSTER THEN 3 ELSE 2)

AllocFileCluster(z, fcn) ==
  IF fcn < N_DIRECT THEN AllocDirect(z, fcn)
  ELSE IF fcn < FirstDouble THEN AllocIndirect(z, Ind(fcn))
  ELSE AllocDoubleIndirect(z, Dbl(fcn))

-----------------------------------------------------------------------------
(* soFreeFileClusters.  w.z is the state, w.total the local count of the     *)
(* clusters not yet come across, by which the loops end early.               *)

\* The first n positions of ref that hold a reference.
Held(ref) == {p \in DOMAIN ref : ref[p] # NULL_CLUSTER}
Firsts(ref, n) == {p \in Held(ref) : Cardinality({q \in Held(ref) : q <= p}) <= n}
Largest(S) == IF S = {} THEN -1 ELSE Max(S)
ClearNothing(ref, P) == ref   \* a mutant: freed references stay
Clear(ref, P) == [p \in DOMAIN ref |-> IF p \in P THEN NULL_CLUSTER ELSE ref[p]]
FreeAll(z, ref, P) ==
  [FreeSet(z, {ref[p] : p \in P}) EXCEPT !.csize = @ - Cardinality(P)]
FreeOne(z, c) == [FreeSet(z, {c}) EXCEPT !.csize = @ - 1]

\* Two mutants: one cluster too many, and references dropped but not freed.
FreeDirectBefore(w, ffcn) ==
  LET met == Firsts(w.z.d, w.total)
      P == {p \in met : p + 1 >= ffcn}
  IN  [w EXCEPT !.z = [FreeAll(w.z, w.z.d, P) EXCEPT !.d = Clear(@, P)],
                !.total = @ - Cardinality(met)]
FreeDirectLost(w, ffcn) ==
  LET met == Firsts(w.z.d, w.total)
      P == {p \in met : p >= ffcn}
  IN  [w EXCEPT !.z.d = Clear(@, P), !.z.csize = @ - Cardinality(P),
                !.total = @ - Cardinality(met)]

FreeDirect(w, ffcn) ==
  LET met == Firsts(w.z.d, w.total)
      P == {p \in met : p >= ffcn}
  IN  [w EXCEPT !.z = [FreeAll(w.z, w.z.d, P) EXCEPT !.d = Clear(@, P)],
                !.total = @ - Cardinality(met)]

\* One i1[i].  The routine returns when it comes to a position with one cluster
\* left, which it takes for i1[i] itself: if all it met were freed, i1[i] is
\* freed and the cluster then written has number NULL_CLUSTER.  It returns as
\* well when it has emptied an i1[i], and the next ones are not looked at.
FreeIndirectOne(w, i, ffcn) ==
  LET c == w.z.i1[i]
      ref == w.z.disk[c]
      met == Firsts(ref, w.total - 1)
      P == {p \in met : N_DIRECT >= ffcn \/ i * RPC + p >= ffcn - N_DIRECT}
      left == w.total - Cardinality(met)
      early == left <= 1 /\ Largest(met) < RPC - 1
      erase == P = met
      freed == FreeAll(w.z, ref, P)
      y == IF early /\ erase
             THEN Write([FreeOne(freed, c) EXCEPT !.i1[i] = NULL_CLUSTER], NULL_CLUSTER, ref)
           ELSE IF erase THEN [FreeOne(freed, c) EXCEPT !.i1[i] = NULL_CLUSTER]
           ELSE Write(freed, c, Clear(ref, P))
  IN  IF c = NULL_CLUSTER \/ w.return THEN w
      ELSE [ z |-> Checked(w.z, c, y),
             total |-> IF erase THEN left - 1 ELSE left,
             return |-> early \/ erase \/ ref = Unwritten ]

FreeIndirect(w, ffcn) ==
  LET after[i \in 0 .. N_INDIRECT] ==
        IF i = 0 THEN w ELSE FreeIndirectOne(after[i - 1], i - 1, ffcn)
  IN  after[N_INDIRECT]

\* One reference of i2, w.ref being the routine's copy of i2.  It returns at a
\* reference with two clusters left, which it takes for c and i2.  `stop`: what
\* the inner loop finds past the end of ref2 when no reference is left in it,
\* TRUE for a word that is not NULL_CLUSTER and ends it at once.
FreeDoubleOne(w, i, ffcn, stop) ==
  LET c == w.ref[i]
      ref2 == w.z.disk[c]
      met == Firsts(ref2, w.total - 2)
      P == {p \in met : FirstDouble >= ffcn \/ i * RPC + p >= ffcn - FirstDouble}
      left == w.total - Cardinality(met)
      early == met # Held(ref2)
      overrun == ~ early /\ Largest(Held(ref2)) < RPC - 1 /\ ~ stop
      erase2 == P = met
      freed == FreeAll(w.z, ref2, P)
      gone == FreeOne(freed, c)
      cleared == [w.ref EXCEPT ![i] = NULL_CLUSTER]
      \* Returning early: c and perhaps i2 are freed before they are written.
      ended == IF ~ erase2 THEN Write(Write(freed, c, Clear(ref2, P)), w.z.i2, w.ref)
               ELSE IF w.erase
               THEN Write([FreeOne(gone, w.z.i2) EXCEPT !.i2 = NULL_CLUSTER], NULL_CLUSTER, NoRefs)
               ELSE Write(Write(gone, NULL_CLUSTER, NoRefs), w.z.i2, cleared)
  IN  IF c = NULL_CLUSTER \/ w.return THEN w
      ELSE IF ref2 = Unwritten \/ overrun
      THEN [w EXCEPT !.z.undefined = TRUE, !.return = TRUE]
      ELSE IF early THEN [w EXCEPT !.z = ended, !.return = TRUE]
      ELSE IF erase2 THEN [w EXCEPT !.z = gone, !.total = left - 1, !.ref = cleared]
      ELSE [w EXCEPT !.z = Write(freed, c, Clear(ref2, P)), !.total = left, !.erase = FALSE]

FreeDoubleIndirect(w, ffcn, stop) ==
  LET start == [z |-> w.z, total |-> w.total, ref |-> w.z.disk[w.z.i2],
                erase |-> TRUE, return |-> FALSE]
      after[i \in 0 .. RPC] ==
        IF i = 0 THEN start ELSE FreeDoubleOne(after[i - 1], i - 1, ffcn, stop)
      end == after[RPC]
  IN  IF w.z.i2 = NULL_CLUSTER THEN w.z
      ELSE Checked(w.z, w.z.i2,
             IF end.return THEN end.z
             ELSE IF end.erase THEN [FreeOne(end.z, w.z.i2) EXCEPT !.i2 = NULL_CLUSTER]
             ELSE Write(end.z, w.z.i2, end.ref))

FreeFileClusters(z, ffcn, stop) ==
  LET direct == FreeDirect([z |-> z, total |-> z.csize, return |-> FALSE], ffcn)
      indirect == IF ffcn < FirstDouble THEN FreeIndirect(direct, ffcn) ELSE direct
  IN  IF direct.total = 0 THEN direct.z
      ELSE IF indirect.total = 0 \/ indirect.z.undefined THEN indirect.z
      ELSE FreeDoubleIndirect(indirect, ffcn, stop)

-----------------------------------------------------------------------------
(* soWriteFileCluster, soWrite and soAddDirEntry allocate for a position that *)
(* has no cluster.  What a position holds behind a reference cluster nobody   *)
(* wrote is anybody's guess.                                                  *)
Alloc(fcn) ==
  /\ ~ f.undefined
  /\ Readable(f, fcn) => GetFileCluster(f, fcn) = NULL_CLUSTER
  /\ LET y == AllocFileCluster(Call, fcn) IN
     f' = [y EXCEPT !.ret = NULL_CLUSTER,
                    !.short = @ \/ (Threw(y) /\ y.free # f.free)]

Free(ffcn) ==
  /\ ~ f.undefined
  /\ \E stop \in BOOLEAN : f' = FreeFileClusters(Call, ffcn, stop)

Next == \E fcn \in Asked : Alloc(fcn) \/ Free(fcn)

Spec == Init /\ [][Next]_f

-----------------------------------------------------------------------------
(* The fields have their ranges; csize, which is unsigned, never wraps.       *)
TypeOK ==
  /\ f.d \in [0 .. N_DIRECT - 1 -> OptCluster] /\ f.i1 \in [0 .. N_INDIRECT - 1 -> OptCluster]
  /\ f.i2 \in OptCluster /\ f.csize \in 0 .. CTotal
  /\ \A c \in Cluster : f.disk[c] \in {Unwritten} \cup [Position -> OptCluster]
  /\ f.free \subseteq Cluster /\ f.ret = NULL_CLUSTER /\ f.err \in {"OK", "ENOSPC"}
  /\ f.nullWritten \in BOOLEAN /\ f.undefined \in BOOLEAN /\ f.short \in BOOLEAN

\* The references of the file, each as a place, and the clusters they name.
In(c) == IF c = NULL_CLUSTER \/ f.disk[c] = Unwritten THEN {}
         ELSE {<<c, p>> : p \in Held(f.disk[c])}
Named(q) == f.disk[q[1]][q[2]]
RefClusters == {f.i1[i] : i \in DOMAIN f.i1} \cup {f.i2} \cup {Named(q) : q \in In(f.i2)}
InRefClusters == UNION {In(c) : c \in RefClusters}
InInode == {<<"d", i>> : i \in Held(f.d)} \cup {<<"i1", i>> : i \in Held(f.i1)}
           \cup {<<"i2", k>> : k \in {f.i2} \ {NULL_CLUSTER}}
Used == ({f.d[i] : i \in DOMAIN f.d} \cup RefClusters \cup {Named(q) : q \in InRefClusters})
        \ {NULL_CLUSTER}

(* A cluster of the file has one place in it, and is not free meanwhile.      *)
Exclusive ==
  /\ TypeOK
  /\ ~ f.undefined =>
    /\ Cardinality(Used) = Cardinality(InInode) + Cardinality(InRefClusters)
    /\ Used \cap f.free = {}

(* While soAllocCluster has not thrown half way, no cluster drops out: what   *)
(* is not in the file is free.                                                *)
NothingLost == ~ f.undefined /\ ~ f.short => Used \cup f.free = Cluster

(* csize counts the clusters of the file, reference clusters included         *)
(* (inode.h:44); the early returns of soFreeFileClusters go by it.  It is      *)
(* never more than there are, and less only once soAllocCluster has thrown    *)
(* half way.                                                                  *)
CountExact ==
  ~ f.undefined => /\ f.csize <= Cardinality(Used)
                   /\ ~ f.short => f.csize = Cardinality(Used)

\* The positions G have the cluster they had.
Kept(G) ==
  \A g \in G : Readable(f, g) /\ Readable(f', g) => GetFileCluster(f', g) = GetFileCluster(f, g)

(* soAllocFileCluster gives its position a cluster that was free, unless it   *)
(* throws, and changes the cluster of no other position.                      *)
AllocOnly ==
  [][\A fcn \in Asked : Alloc(fcn) /\ ~ f'.undefined =>
       /\ Kept(FileCluster \ {fcn})
       /\ f'.err = "OK" => GetFileCluster(f', fcn) \in f.free]_f

(* soFreeFileClusters leaves the positions before ffcn alone.  Not so once    *)
(* soAllocCluster has thrown half way: csize is short, the routine takes the  *)
(* last clusters of the file for its own reference clusters and frees those,  *)
(* with data before ffcn in them (MCFileClusters without ~ f.short).          *)
KeepsPrefix ==
  [][\A ffcn \in Asked : Free(ffcn) /\ ~ f'.undefined /\ ~ f.short => Kept(0 .. ffcn - 1)]_f

(* Violated.  filecluster.h:46, of soFreeFileClusters: "Free all file         *)
(* clusters from the given position on".  When it has emptied i1[0] it        *)
(* returns and i1[1] is left.                                                 *)
FreesAll ==
  [][\A ffcn \in Asked : Free(ffcn) /\ ~ f'.undefined =>
       \A g \in FileCluster : g >= ffcn => GetFileCluster(f', g) = NULL_CLUSTER]_f

(* Violated.  Freeing the last cluster of an i1[i] writes cluster             *)
(* NULL_REFERENCE, which is the end of the inode table.                       *)
NullNotWritten == ~ f.nullWritten

(* Violated.  soFreeDoubleIndirectFileClusters reads past ref2.               *)
Defined == ~ f.undefined
=============================================================================
