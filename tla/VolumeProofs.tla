---------------------------- MODULE VolumeProofs ----------------------------
(***************************************************************************)
(* Theorems about the mounted volume, for every number of inodes, clusters,  *)
(* names and entries, and however many handles exceptions leave open.        *)
(*                                                                         *)
(* The invariant annotates the calls: it says, for each operation a call has *)
(* still to do, what that operation finds.  An inode is what the calls see   *)
(* of it, Inodes(z): opening a handle and closing one on a saved inode do not *)
(* change that, and saving makes the disk like it.                           *)
(***************************************************************************)
EXTENDS Volume, FiniteSetTheorems, SequenceTheorems, WellFoundedInduction, TLAPS

Entry == [name : Name, in : File]
Volumes == [sb : Superblock, dsb : Superblock,
            cache : [Inode -> InodeType], count : [Inode -> Nat], disk : [Inode -> InodeType],
            dir : [Slot -> Entry \cup {NoEntry}]]

\* The entries on the disk, the inodes they name, and their names.
Entered(z) == {z.dir[s] : s \in Slot} \ {NoEntry}
Linked(z) == {e.in : e \in Entered(z)}
Used(z) == {e.name : e \in Entered(z)}

Size(z) == Inodes(z)[Root].size
Saved(z, i) == Inodes(z)[i] = z.disk[i]
\* What the disk has of a file's clusters, memory has.
Adds(z, i) == z.disk[i].refs \subseteq Inodes(z)[i].refs

\* The entries are the first of the cluster, as many as the size says, and none
\* has a name or an inode in common with another.
Listed(z) ==
  /\ \A s \in Slot : z.dir[s] # NoEntry <=> s < Size(z)
  /\ \A s, t \in Slot : s < Size(z) /\ t < Size(z) /\ s # t =>
       z.dir[s].name # z.dir[t].name /\ z.dir[s].in # z.dir[t].in

\* An inode that may be linked.
Taken(z, i) ==
  ~ z.disk[i].free /\ ~ Inodes(z)[i].free /\ i \notin z.sb.ifree \cup z.dsb.ifree

\* The clusters of an inode are not free, nor those of another that is linked.
Alone(z, i) == \A j \in Linked(z) \ {i} : Inodes(z)[i].refs \cap Inodes(z)[j].refs = {}
Private(z, i) == Inodes(z)[i].refs \cap z.sb.cfree = {} /\ Alone(z, i)

Sound(z) == Listed(z) /\ \A i \in Linked(z) : Taken(z, i)
Unshared(z) == \A i \in Linked(z) : Private(z, i)
-----------------------------------------------------------------------------
(* What a call has still to do, from its end to its beginning.                *)
Then(op, t) == <<op>> \o t
Times(k, op, t) == [j \in 1 .. k |-> op] \o t

CloseRoot == Then(Op("close", Root), <<>>)
SaveRoot == Then(Op("save", Root), CloseRoot)
Close(in, t) == Then(Op("close", in), t)
Save(in, t) == Then(Op("save", in), Close(in, t))

\* soMknod and soSymlink once they have an inode.
Counted(in) == Then(Op("inc", in), Save(in, SaveRoot))
NodeAdd(n, in) == Then(Named("add", n, in), Counted(in))
LinkAdd(n, in) == Then(Named("add", n, in), Save(in, SaveRoot))
LinkAlloc(n, in) == Then(Op("alloc", in), LinkAdd(n, in))
LinkCount(n, in) == Then(Op("inc", in), LinkAlloc(n, in))
Makes(n, in) == {NodeAdd(n, in), LinkCount(n, in)}

\* And before.
MadeSave(in, t) == Then(Op("save", in), t)
MadeOpen(in, t) == Then(Op("open", in), MadeSave(in, t))
TookClose(in, t) == Then(Op("close", in), MadeOpen(in, t))
TookSuper(in, t) == Then(Op("sbsave", in), TookClose(in, t))
TookSave(in, t) == Then(Op("save", in), TookSuper(in, t))
Take(in, t) == Then(Op("take", in), TookSave(in, t))
Make(in, t) == Then(Op("open", Root), Take(in, t))

GaveClose(in) == Then(Op("close", in), Save(in, SaveRoot))
GaveSuper(in) == Then(Op("sbsave", in), GaveClose(in))
GaveSave(in) == Then(Op("save", in), GaveSuper(in))
Give(in) == Then(Op("give", in), GaveSave(in))
Frees(k, in, t) == Times(k, Op("free", in), t)
UnlinkDelete(n, in, k) == Then(Named("delete", n, in), Frees(k, in, Give(in)))
UnlinkDec(n, in, k) == Then(Op("dec", in), UnlinkDelete(n, in, k))
UnlinkOpen(n, in, k) == Then(Op("open", in), UnlinkDec(n, in, k))
UnlinkRoot(n, in, k) == Then(Op("open", Root), UnlinkOpen(n, in, k))

CloseOnce(in) == Then(Op("close", Root), Close(in, <<>>))
CloseTwice(in) == Then(Op("close", Root), CloseOnce(in))
MovedSave(in) == Then(Op("save", in), CloseTwice(in))
RootTwice(in) == Then(Op("save", Root), MovedSave(in))
RootOnce(in) == Then(Op("save", Root), RootTwice(in))
MovedOpen(in) == Then(Op("open", in), RootOnce(in))
MoveAdd(new, in) == Then(Named("add", new, in), MovedOpen(in))
MoveDelete(n, new, in) == Then(Named("delete", n, in), MoveAdd(new, in))
MoveOver(n, new, in) == Then(Named("delete", new, in), MoveDelete(n, new, in))
Moves(n, new, in) == {MoveDelete(n, new, in), MoveOver(n, new, in)}
MoveAgain(t) == Then(Op("open", Root), t)
MoveRoot(t) == Then(Op("open", Root), MoveAgain(t))

Allocs(k, in) == Times(k, Op("alloc", in), Save(in, <<>>))

-----------------------------------------------------------------------------
(* What the operations find.                                                  *)
Written == vol.sb = vol.dsb
RootSafe == ~ stale => Saved(vol, Root)
Others(in) == \A i \in File \ {in} : Adds(vol, i)
All == \A i \in File : Adds(vol, i)
Handles(r, in, k) == vol.count[Root] >= r /\ vol.count[in] >= k

Idle == todo = <<>> /\ Written /\ RootSafe /\ All

\* A call comes to its end.
AtEnd(in) ==
  \/ todo = CloseRoot /\ vol.count[Root] >= 1 /\ Saved(vol, Root) /\ Written /\ All
  \/ todo = SaveRoot /\ vol.count[Root] >= 1 /\ Written /\ All
  \/ \E t \in {<<>>, SaveRoot} :
       /\ t = <<>> => RootSafe
       /\ t = SaveRoot => vol.count[Root] >= 1
       /\ vol.count[in] >= 1 /\ Written /\ Others(in)
       /\ todo = Save(in, t) \/ (todo = Close(in, t) /\ Saved(vol, in))

\* soMknod and soSymlink, before they have an inode, and when it is theirs.
AtTake(n, in) ==
  \E t \in Makes(n, in) :
    /\ ~ stale => n \notin Used(vol)
    /\ RootSafe /\ Written /\ All
    /\ vol.sb.ifree # {} => in \in vol.sb.ifree
    /\ todo = Make(in, t) \/ (todo = Take(in, t) /\ vol.count[Root] >= 1)

AtMade(n, in) ==
  \E t \in Makes(n, in) :
    /\ ~ stale => n \notin Used(vol) /\ in \notin Linked(vol)
    /\ RootSafe /\ Others(in)
    /\ in \notin vol.sb.ifree /\ Inodes(vol)[in] = Blank
    /\ \/ todo = TookSave(in, t) /\ Handles(1, in, 1)
       \/ todo = TookSuper(in, t) /\ Handles(1, in, 1) /\ Saved(vol, in)
       \/ todo = TookClose(in, t) /\ Handles(1, in, 1) /\ Saved(vol, in) /\ Written
       \/ todo = MadeOpen(in, t) /\ Handles(1, in, 0) /\ Saved(vol, in) /\ Written
       \/ todo = MadeSave(in, t) /\ Handles(1, in, 1) /\ Saved(vol, in) /\ Written
       \/ todo = t /\ Handles(1, in, 1) /\ Saved(vol, in) /\ Written

AtLink(n, in) ==
  /\ ~ stale => n \notin Used(vol) /\ in \notin Linked(vol) /\ Taken(vol, in)
  /\ RootSafe /\ Handles(1, in, 1) /\ Written /\ All
  /\ \/ todo = LinkAlloc(n, in) /\ Inodes(vol)[in].refs = {}
     \/ todo = LinkAdd(n, in) /\ (~ stale /\ ~ torn => Private(vol, in))

AtCount(in) ==
  todo = Counted(in) /\ Handles(1, in, 1) /\ Inodes(vol)[in].refcount = 0 /\ Written /\ All

\* soUnlink, with the name still there, and with the inode to be given back.
AtUnlink(n, in) ==
  \E k \in Nat :
    /\ ~ stale => [name |-> n, in |-> in] \in Entered(vol)
    /\ RootSafe /\ Written /\ All
    /\ Size(vol) >= 1 /\ k = Cardinality(Inodes(vol)[in].refs)
    /\ \/ todo = UnlinkRoot(n, in, k)
       \/ todo = UnlinkOpen(n, in, k) /\ vol.count[Root] >= 1
       \/ todo \in {UnlinkDec(n, in, k), UnlinkDelete(n, in, k)} /\ Handles(1, in, 1)

AtGive(in) ==
  /\ ~ stale => in \notin Linked(vol)
  /\ ~ stale /\ ~ torn => Alone(vol, in)
  /\ Others(in)
  /\ \/ /\ Handles(1, in, 1) /\ Written
        /\ \E k \in Nat : k = Cardinality(Inodes(vol)[in].refs) /\ todo = Frees(k, in, Give(in))
     \/ todo = GaveSave(in) /\ Handles(1, in, 2)
     \/ todo = GaveSuper(in) /\ Handles(1, in, 2) /\ Saved(vol, in)
     \/ todo = GaveClose(in) /\ Handles(1, in, 2) /\ Saved(vol, in) /\ Written

\* soRename, before it has deleted a name, before it has added one, and after.
AtMove(n, new, in) ==
  \E t \in Moves(n, new, in) :
    /\ n # new
    /\ ~ stale => /\ [name |-> n, in |-> in] \in Entered(vol)
                  /\ t = MoveDelete(n, new, in) => new \notin Used(vol)
                  /\ t = MoveOver(n, new, in) => new \in Used(vol)
    /\ Size(vol) >= IF t = MoveOver(n, new, in) THEN 2 ELSE 1
    /\ Written /\ All
    /\ \/ todo = MoveRoot(t) /\ RootSafe
       \/ todo = MoveAgain(t) /\ RootSafe /\ vol.count[Root] >= 1
       \/ todo = t /\ vol.count[Root] >= 2

AtMoveAdd(new, in) ==
  /\ todo = MoveAdd(new, in) /\ vol.count[Root] >= 2 /\ Written /\ All
  /\ ~ stale => /\ new \notin Used(vol) /\ in \notin Linked(vol) /\ Taken(vol, in)
                /\ Size(vol) < DPC
  /\ ~ stale /\ ~ torn => Private(vol, in)

AtMoved(in) ==
  /\ Written /\ All
  /\ \/ todo = MovedOpen(in) /\ Handles(2, in, 0)
     \/ todo = RootOnce(in) /\ Handles(2, in, 1)
     \/ todo \in {RootTwice(in), MovedSave(in)} /\ Handles(2, in, 1) /\ Saved(vol, Root)
     \/ todo = CloseTwice(in) /\ Handles(2, in, 1) /\ Saved(vol, Root) /\ Saved(vol, in)
     \/ todo = CloseOnce(in) /\ Handles(1, in, 1) /\ Saved(vol, Root) /\ Saved(vol, in)

\* soWrite, soTruncate and soRead.
AtData(in) ==
  /\ RootSafe /\ Written /\ Others(in)
  /\ \/ \E k \in Nat : /\ Adds(vol, in)
                       /\ \/ todo = Allocs(k, in) /\ vol.count[in] >= 1
                          \/ todo = Then(Op("open", in), Allocs(k, in))
     \/ \E k \in Nat : /\ k + 1 = Cardinality(Inodes(vol)[in].refs) /\ call = "truncate"
                       /\ ~ stale => in \in Linked(vol)
                       /\ \/ todo = Frees(k, in, Save(in, <<>>)) /\ vol.count[in] >= 1
                          \/ todo = Then(Op("open", in), Frees(k, in, Save(in, <<>>)))

Running ==
  \E in \in File, n, new \in Name :
    \/ AtEnd(in) \/ AtTake(n, in) \/ AtMade(n, in) \/ AtLink(n, in) \/ AtCount(in)
    \/ AtUnlink(n, in) \/ AtGive(in)
    \/ AtMove(n, new, in) \/ AtMoveAdd(new, in) \/ AtMoved(in)
    \/ AtData(in)

\* What holds of a volume all along: where the machine has not stopped with the
\* directory unsaved (unsure), nor in soTruncate (ripped), nor soTruncate goes on
\* (cutting).
Fit(z, unsure, ripped, cutting) ==
  /\ z \in Volumes /\ z.sb.cfree = z.dsb.cfree
  /\ ~ unsure => Sound(z)
  /\ ~ unsure /\ ~ ripped => Unshared(z)
  /\ ~ unsure /\ ~ cutting => \A i \in Linked(z) : Adds(z, i)

IInv ==
  /\ torn \in BOOLEAN /\ stale \in BOOLEAN
  /\ Fit(vol, stale, torn, call = "truncate")
  /\ IF call = "none" THEN Idle ELSE Running

-----------------------------------------------------------------------------
(* Sequences of operations *)

Verbs == {"open", "save", "close", "inc", "dec", "sbsave", "take", "give",
          "alloc", "free", "add", "delete"}
Ops == [do : Verbs, in : Inode, name : Name \cup {NoEntry}]

\* The operation and what follows it.
LEMMA ThenIs ==
  ASSUME NEW op \in Ops, NEW t \in Seq(Ops)
  PROVE  /\ Then(op, t) \in Seq(Ops) /\ Then(op, t) # <<>>
         /\ Head(Then(op, t)) = op /\ Tail(Then(op, t)) = t
<1>1. <<op>> \in Seq(Ops) /\ Len(<<op>>) = 1 /\ <<op>>[1] = op
  OBVIOUS
<1>2. /\ Then(op, t) \in Seq(Ops) /\ Len(Then(op, t)) = 1 + Len(t)
      /\ \A i \in 1 .. 1 + Len(t) :
           Then(op, t)[i] = IF i <= 1 THEN <<op>>[i] ELSE t[i - 1]
  BY <1>1, ConcatProperties DEF Then
<1>3. Len(t) \in Nat
  BY LenProperties
<1>4. Then(op, t) # <<>>
  BY <1>2, <1>3, EmptySeq
<1>5. Head(Then(op, t)) = op
  BY <1>1, <1>2, <1>3
<1>6. /\ Tail(Then(op, t)) \in Seq(Ops) /\ Len(Tail(Then(op, t))) = Len(t)
      /\ \A i \in 1 .. Len(t) : Tail(Then(op, t))[i] = Then(op, t)[i + 1]
  BY <1>2, <1>3, <1>4, HeadTailProperties
<1>7. \A i \in 1 .. Len(t) : Tail(Then(op, t))[i] = t[i]
  BY <1>2, <1>3, <1>6
<1>8. Tail(Then(op, t)) = t
  BY <1>6, <1>7, SeqEqual
<1>9. QED
  BY <1>2, <1>4, <1>5, <1>8

\* An operation some number of times.
LEMMA TimesIs ==
  ASSUME NEW op \in Ops, NEW t \in Seq(Ops), NEW k \in Nat
  PROVE  /\ Times(k, op, t) \in Seq(Ops)
         /\ Times(0, op, t) = t
         /\ Times(k + 1, op, t) = Then(op, Times(k, op, t))
<1> DEFINE r(n) == [j \in 1 .. n |-> op]
<1>1. \A n \in Nat : r(n) \in Seq(Ops) /\ Len(r(n)) = n /\ \A j \in 1 .. n : r(n)[j] = op
  OBVIOUS
<1>2. \A n \in Nat : /\ Times(n, op, t) \in Seq(Ops)
                     /\ Len(Times(n, op, t)) = n + Len(t)
                     /\ \A j \in 1 .. n + Len(t) :
                          Times(n, op, t)[j] = IF j <= n THEN op ELSE t[j - n]
  BY <1>1, ConcatProperties DEF Times
<1>3. Len(t) \in Nat
  BY LenProperties
<1>4. Times(0, op, t) = t
  <2>1. Len(Times(0, op, t)) = Len(t) /\ \A j \in 1 .. Len(t) : Times(0, op, t)[j] = t[j]
    BY <1>2, <1>3
  <2>2. QED
    BY <1>2, <2>1, SeqEqual
<1>5. Times(k + 1, op, t) = Then(op, Times(k, op, t))
  <2> DEFINE s == Times(k, op, t)
             u == Times(k + 1, op, t)
             one == <<op>>
  <2>1. one \in Seq(Ops) /\ Len(one) = 1 /\ one[1] = op
    OBVIOUS
  <2>2. /\ s \in Seq(Ops) /\ Len(s) = k + Len(t)
        /\ \A j \in 1 .. k + Len(t) : s[j] = IF j <= k THEN op ELSE t[j - k]
    BY <1>2
  <2>3. k + 1 \in Nat
    OBVIOUS
  <2>4. /\ u \in Seq(Ops) /\ Len(u) = k + 1 + Len(t)
        /\ \A j \in 1 .. k + 1 + Len(t) : u[j] = IF j <= k + 1 THEN op ELSE t[j - (k + 1)]
    BY ONLY <1>2, <2>3
  <2> HIDE DEF s, u, one
  <2>5. /\ one \o s \in Seq(Ops) /\ Len(one \o s) = 1 + (k + Len(t))
        /\ \A j \in 1 .. 1 + (k + Len(t)) :
             (one \o s)[j] = IF j <= 1 THEN one[j] ELSE s[j - 1]
    <3>1. /\ one \o s \in Seq(Ops) /\ Len(one \o s) = Len(one) + Len(s)
          /\ \A j \in 1 .. Len(one) + Len(s) :
               (one \o s)[j] = IF j <= Len(one) THEN one[j] ELSE s[j - Len(one)]
      BY ONLY <2>1, <2>2, ConcatProperties
    <3>2. Len(one) = 1 /\ Len(s) = k + Len(t)
      BY <2>1, <2>2
    <3>3. QED
      BY ONLY <3>1, <3>2
  <2>6. ASSUME NEW j \in 1 .. k + 1 + Len(t)
        PROVE  (one \o s)[j] = u[j]
    <3>1. CASE j = 1
      BY <1>3, <2>1, <2>4, <2>5, <3>1
    <3>2. CASE j # 1
      <4>1. j - 1 \in 1 .. k + Len(t) /\ j \in 1 .. 1 + (k + Len(t)) /\ ~ j <= 1
            /\ (j - 1) - k = j - (k + 1) /\ (j - 1 <= k <=> j <= k + 1)
        BY <1>3, <3>2
      <4>2. (one \o s)[j] = s[j - 1]
        BY <2>5, <4>1
      <4>3. s[j - 1] = IF j - 1 <= k THEN op ELSE t[(j - 1) - k]
        BY <2>2, <4>1
      <4>4. u[j] = IF j <= k + 1 THEN op ELSE t[j - (k + 1)]
        BY <2>4
      <4>5. QED
        BY <4>1, <4>2, <4>3, <4>4
    <3>3. QED
      BY <3>1, <3>2
  <2>7. Len(one \o s) = Len(u) /\ Len(u) = k + 1 + Len(t)
    BY <1>3, <2>4, <2>5
  <2>8. one \o s = u
    BY <2>4, <2>5, <2>6, <2>7, SeqEqual
  <2>9. QED
    BY <2>8 DEF Then, s, u, one
<1>6. QED
  BY <1>2, <1>4, <1>5

\* Operations are joined one by one.
LEMMA ThenConcat ==
  ASSUME NEW op \in Ops, NEW s \in Seq(Ops), NEW t \in Seq(Ops)
  PROVE  Then(op, s) \o t = Then(op, s \o t)
BY ConcatAssociative, <<op>> \in Seq(Ops) DEF Then

\* Two operations, one after the other.
LEMMA TwoOps ==
  ASSUME NEW a \in Ops, NEW b \in Ops, NEW t \in Seq(Ops)
  PROVE  <<a, b>> \o t = Then(a, Then(b, t))
<1> DEFINE x == <<a>>
           y == <<b>>
           xy == <<a, b>>
<1>1. /\ x \in Seq(Ops) /\ y \in Seq(Ops) /\ xy \in Seq(Ops)
      /\ Len(x) = 1 /\ Len(y) = 1 /\ Len(xy) = 2
      /\ x[1] = a /\ y[1] = b /\ xy[1] = a /\ xy[2] = b
  OBVIOUS
<1>2. Then(a, Then(b, t)) = x \o (y \o t)
  BY DEF Then
<1> HIDE DEF x, y, xy
<1>3. /\ x \o y \in Seq(Ops) /\ Len(x \o y) = Len(x) + Len(y)
      /\ \A i \in 1 .. Len(x) + Len(y) :
           (x \o y)[i] = IF i <= Len(x) THEN x[i] ELSE y[i - Len(x)]
  BY ONLY <1>1, ConcatProperties
<1>4. Len(x \o y) = Len(xy) /\ \A i \in 1 .. Len(x \o y) : (x \o y)[i] = xy[i]
  BY ONLY <1>1, <1>3
<1>5. x \o y = xy
  BY <1>1, <1>3, <1>4, SeqEqual
<1>6. (x \o y) \o t = x \o (y \o t)
  BY <1>1, ConcatAssociative
<1>7. xy \o t = Then(a, Then(b, t))
  BY <1>2, <1>5, <1>6
<1>8. QED
  BY <1>7 DEF xy

\* The same of three.
LEMMA ThreeOps ==
  ASSUME NEW a \in Ops, NEW b \in Ops, NEW c \in Ops, NEW t \in Seq(Ops)
  PROVE  <<a, b, c>> \o t = Then(a, Then(b, Then(c, t)))
<1> DEFINE x == <<a, b>>
           y == <<c>>
           xy == <<a, b, c>>
<1>1. /\ x \in Seq(Ops) /\ y \in Seq(Ops) /\ xy \in Seq(Ops)
      /\ Len(x) = 2 /\ Len(y) = 1 /\ Len(xy) = 3
      /\ x[1] = a /\ x[2] = b /\ y[1] = c
      /\ xy[1] = a /\ xy[2] = b /\ xy[3] = c
  OBVIOUS
<1>2. y \o t = Then(c, t)
  BY DEF Then
<1>3. Then(c, t) \in Seq(Ops)
  BY ThenIs
<1>4. x \o Then(c, t) = Then(a, Then(b, Then(c, t)))
  BY <1>3, TwoOps
<1> HIDE DEF x, y, xy
<1>5. /\ x \o y \in Seq(Ops) /\ Len(x \o y) = Len(x) + Len(y)
      /\ \A i \in 1 .. Len(x) + Len(y) :
           (x \o y)[i] = IF i <= Len(x) THEN x[i] ELSE y[i - Len(x)]
  BY ONLY <1>1, ConcatProperties
<1>6. Len(x \o y) = Len(xy) /\ \A i \in 1 .. Len(x \o y) : (x \o y)[i] = xy[i]
  BY ONLY <1>1, <1>5
<1>7. x \o y = xy
  BY <1>1, <1>5, <1>6, SeqEqual
<1>8. (x \o y) \o t = x \o (y \o t)
  <2>1. x \in Seq(Ops) /\ y \in Seq(Ops) /\ t \in Seq(Ops)
    BY <1>1
  <2>2. QED
    BY ONLY <2>1, ConcatAssociative
<1>9. xy \o t = Then(a, Then(b, Then(c, t)))
  BY <1>2, <1>4, <1>7, <1>8
<1>10. QED
  BY <1>9 DEF xy

\* Of four.
LEMMA FourOps ==
  ASSUME NEW a \in Ops, NEW b \in Ops, NEW c \in Ops, NEW d \in Ops, NEW t \in Seq(Ops)
  PROVE  <<a, b, c, d>> \o t = Then(a, Then(b, Then(c, Then(d, t))))
<1> DEFINE x == <<a, b>>
           y == <<c, d>>
           xy == <<a, b, c, d>>
<1>1. /\ x \in Seq(Ops) /\ y \in Seq(Ops) /\ xy \in Seq(Ops)
      /\ Len(x) = 2 /\ Len(y) = 2 /\ Len(xy) = 4
      /\ x[1] = a /\ x[2] = b /\ y[1] = c /\ y[2] = d
      /\ xy[1] = a /\ xy[2] = b /\ xy[3] = c /\ xy[4] = d
  OBVIOUS
<1>2. y \o t = Then(c, Then(d, t))
  BY TwoOps
<1>3. Then(c, Then(d, t)) \in Seq(Ops)
  BY ThenIs
<1>4. x \o Then(c, Then(d, t)) = Then(a, Then(b, Then(c, Then(d, t))))
  BY <1>3, TwoOps
<1> HIDE DEF x, y, xy
<1>5. /\ x \o y \in Seq(Ops) /\ Len(x \o y) = Len(x) + Len(y)
      /\ \A i \in 1 .. Len(x) + Len(y) :
           (x \o y)[i] = IF i <= Len(x) THEN x[i] ELSE y[i - Len(x)]
  BY ONLY <1>1, ConcatProperties
<1>6. Len(x \o y) = Len(xy) /\ \A i \in 1 .. Len(x \o y) : (x \o y)[i] = xy[i]
  BY ONLY <1>1, <1>5
<1>7. x \o y = xy
  BY <1>1, <1>5, <1>6, SeqEqual
<1>8. (x \o y) \o t = x \o (y \o t)
  <2>1. x \in Seq(Ops) /\ y \in Seq(Ops) /\ t \in Seq(Ops)
    BY <1>1
  <2>2. QED
    BY ONLY <2>1, ConcatAssociative
<1>9. xy \o t = Then(a, Then(b, Then(c, Then(d, t))))
  BY <1>2, <1>4, <1>7, <1>8
<1>10. QED
  BY <1>9 DEF xy

\* And of five.
LEMMA FiveOps ==
  ASSUME NEW a \in Ops, NEW b \in Ops, NEW c \in Ops, NEW d \in Ops, NEW e \in Ops, NEW t \in Seq(Ops)
  PROVE  <<a, b, c, d, e>> \o t = Then(a, Then(b, Then(c, Then(d, Then(e, t)))))
<1> DEFINE x == <<a, b>>
           y == <<c, d, e>>
           xy == <<a, b, c, d, e>>
<1>1. /\ x \in Seq(Ops) /\ y \in Seq(Ops) /\ xy \in Seq(Ops)
      /\ Len(x) = 2 /\ Len(y) = 3 /\ Len(xy) = 5
      /\ x[1] = a /\ x[2] = b /\ y[1] = c /\ y[2] = d /\ y[3] = e
      /\ xy[1] = a /\ xy[2] = b /\ xy[3] = c /\ xy[4] = d /\ xy[5] = e
  OBVIOUS
<1>2. y \o t = Then(c, Then(d, Then(e, t)))
  BY ThreeOps
<1>3. Then(c, Then(d, Then(e, t))) \in Seq(Ops)
  BY ThenIs
<1>4. x \o Then(c, Then(d, Then(e, t))) = Then(a, Then(b, Then(c, Then(d, Then(e, t)))))
  BY <1>3, TwoOps
<1> HIDE DEF x, y, xy
<1>5. /\ x \o y \in Seq(Ops) /\ Len(x \o y) = Len(x) + Len(y)
      /\ \A i \in 1 .. Len(x) + Len(y) :
           (x \o y)[i] = IF i <= Len(x) THEN x[i] ELSE y[i - Len(x)]
  BY ONLY <1>1, ConcatProperties
<1>6. Len(x \o y) = Len(xy) /\ \A i \in 1 .. Len(x \o y) : (x \o y)[i] = xy[i]
  BY ONLY <1>1, <1>5
<1>7. x \o y = xy
  BY <1>1, <1>5, <1>6, SeqEqual
<1>8. (x \o y) \o t = x \o (y \o t)
  <2>1. x \in Seq(Ops) /\ y \in Seq(Ops) /\ t \in Seq(Ops)
    BY <1>1
  <2>2. QED
    BY ONLY <2>1, ConcatAssociative
<1>9. xy \o t = Then(a, Then(b, Then(c, Then(d, Then(e, t)))))
  BY <1>2, <1>4, <1>7, <1>8
<1>10. QED
  BY <1>9 DEF xy

\* Whatever a call has still to do is a sequence of operations.
LEMMA Programs ==
  ASSUME NEW in \in File, NEW n \in Name, NEW new \in Name
  PROVE  /\ {<<>>, CloseRoot, SaveRoot} \subseteq Seq(Ops)
         /\ \A t \in Seq(Ops) : {Close(in, t), Save(in, t)} \subseteq Seq(Ops)
         /\ {Counted(in), NodeAdd(n, in), LinkAdd(n, in), LinkAlloc(n, in), LinkCount(n, in)}
              \subseteq Seq(Ops)
         /\ \A t \in Seq(Ops) :
              {MadeSave(in, t), MadeOpen(in, t), TookClose(in, t), TookSuper(in, t),
               TookSave(in, t), Take(in, t), Make(in, t)} \subseteq Seq(Ops)
         /\ {GaveClose(in), GaveSuper(in), GaveSave(in), Give(in)} \subseteq Seq(Ops)
         /\ \A k \in Nat :
              {Frees(k, in, Give(in)), UnlinkDelete(n, in, k), UnlinkDec(n, in, k),
               UnlinkOpen(n, in, k), UnlinkRoot(n, in, k)} \subseteq Seq(Ops)
         /\ {CloseOnce(in), CloseTwice(in), MovedSave(in), RootTwice(in), RootOnce(in),
             MovedOpen(in), MoveAdd(new, in), MoveDelete(n, new, in), MoveOver(n, new, in)}
              \subseteq Seq(Ops)
         /\ \A t \in Seq(Ops) : {MoveAgain(t), MoveRoot(t)} \subseteq Seq(Ops)
         /\ \A k \in Nat : {Allocs(k, in), Frees(k, in, Save(in, <<>>))} \subseteq Seq(Ops)
<1>1. in \in Inode /\ Root \in Inode
  BY DealersAssumption DEF File
<1>2. \A op \in Ops, t \in Seq(Ops) : Then(op, t) \in Seq(Ops)
  BY ThenIs
<1>3. \A op \in Ops, t \in Seq(Ops), k \in Nat : Times(k, op, t) \in Seq(Ops)
  BY TimesIs
<1>4. /\ Op("open", Root) \in Ops /\ Op("save", Root) \in Ops /\ Op("close", Root) \in Ops
      /\ Op("open", in) \in Ops /\ Op("save", in) \in Ops /\ Op("close", in) \in Ops
      /\ Op("inc", in) \in Ops /\ Op("dec", in) \in Ops /\ Op("sbsave", in) \in Ops
      /\ Op("take", in) \in Ops /\ Op("give", in) \in Ops
      /\ Op("alloc", in) \in Ops /\ Op("free", in) \in Ops
      /\ Named("add", n, in) \in Ops /\ Named("add", new, in) \in Ops
      /\ Named("delete", n, in) \in Ops /\ Named("delete", new, in) \in Ops
  <2>1. \A do \in Verbs : /\ Op(do, Root) \in Ops /\ Op(do, in) \in Ops
                          /\ Named(do, n, in) \in Ops /\ Named(do, new, in) \in Ops
    BY <1>1 DEF Op, Named, Ops
  <2>2. QED
    BY <2>1 DEF Verbs
<1>5. {<<>>, CloseRoot, SaveRoot} \subseteq Seq(Ops)
  BY <1>2, <1>4, EmptySeq DEF CloseRoot, SaveRoot
<1>6. \A t \in Seq(Ops) : {Close(in, t), Save(in, t)} \subseteq Seq(Ops)
  BY <1>2, <1>4 DEF Close, Save
<1>7. Counted(in) \in Seq(Ops) /\ LinkAdd(n, in) \in Seq(Ops)
  BY <1>2, <1>4, <1>5, <1>6 DEF Counted, LinkAdd
<1>8. /\ NodeAdd(n, in) \in Seq(Ops)
      /\ LinkAlloc(n, in) \in Seq(Ops) /\ LinkCount(n, in) \in Seq(Ops)
  BY <1>2, <1>4, <1>7 DEF NodeAdd, LinkAlloc, LinkCount
<1>9. ASSUME NEW t \in Seq(Ops)
      PROVE  {MadeSave(in, t), MadeOpen(in, t), TookClose(in, t), TookSuper(in, t),
              TookSave(in, t), Take(in, t), Make(in, t)} \subseteq Seq(Ops)
  <2>1. MadeSave(in, t) \in Seq(Ops) /\ MadeOpen(in, t) \in Seq(Ops)
    BY <1>2, <1>4 DEF MadeSave, MadeOpen
  <2>2. TookClose(in, t) \in Seq(Ops) /\ TookSuper(in, t) \in Seq(Ops)
    BY <1>2, <1>4, <2>1 DEF TookClose, TookSuper
  <2>3. TookSave(in, t) \in Seq(Ops) /\ Take(in, t) \in Seq(Ops) /\ Make(in, t) \in Seq(Ops)
    BY <1>2, <1>4, <2>2 DEF TookSave, Take, Make
  <2>4. QED
    BY <2>1, <2>2, <2>3
<1>10. GaveClose(in) \in Seq(Ops) /\ GaveSuper(in) \in Seq(Ops)
  BY <1>2, <1>4, <1>5, <1>6 DEF GaveClose, GaveSuper
<1>11. GaveSave(in) \in Seq(Ops) /\ Give(in) \in Seq(Ops)
  BY <1>2, <1>4, <1>10 DEF GaveSave, Give
<1>12. ASSUME NEW k \in Nat
       PROVE  {Frees(k, in, Give(in)), UnlinkDelete(n, in, k), UnlinkDec(n, in, k),
               UnlinkOpen(n, in, k), UnlinkRoot(n, in, k)} \subseteq Seq(Ops)
  <2>1. Frees(k, in, Give(in)) \in Seq(Ops)
    BY <1>3, <1>4, <1>11 DEF Frees
  <2>2. UnlinkDelete(n, in, k) \in Seq(Ops) /\ UnlinkDec(n, in, k) \in Seq(Ops)
    BY <1>2, <1>4, <2>1 DEF UnlinkDelete, UnlinkDec
  <2>3. UnlinkOpen(n, in, k) \in Seq(Ops) /\ UnlinkRoot(n, in, k) \in Seq(Ops)
    BY <1>2, <1>4, <2>2 DEF UnlinkOpen, UnlinkRoot
  <2>4. QED
    BY <2>1, <2>2, <2>3
<1>13. CloseOnce(in) \in Seq(Ops) /\ CloseTwice(in) \in Seq(Ops) /\ MovedSave(in) \in Seq(Ops)
  BY <1>2, <1>4, <1>5, <1>6 DEF CloseOnce, CloseTwice, MovedSave
<1>14. RootTwice(in) \in Seq(Ops) /\ RootOnce(in) \in Seq(Ops) /\ MovedOpen(in) \in Seq(Ops)
  BY <1>2, <1>4, <1>13 DEF RootTwice, RootOnce, MovedOpen
<1>15. /\ MoveAdd(new, in) \in Seq(Ops) /\ MoveDelete(n, new, in) \in Seq(Ops)
       /\ MoveOver(n, new, in) \in Seq(Ops)
  BY <1>2, <1>4, <1>14 DEF MoveAdd, MoveDelete, MoveOver
<1>16. \A t \in Seq(Ops) : {MoveAgain(t), MoveRoot(t)} \subseteq Seq(Ops)
  BY <1>2, <1>4 DEF MoveAgain, MoveRoot
<1>17. \A k \in Nat : {Allocs(k, in), Frees(k, in, Save(in, <<>>))} \subseteq Seq(Ops)
  BY <1>3, <1>4, <1>5, <1>6 DEF Allocs, Frees
<1>18. QED
  BY <1>5, <1>6, <1>7, <1>8, <1>9, <1>10, <1>11, <1>12, <1>13, <1>14, <1>15, <1>16, <1>17

\* A call's next operation and what it has to do then.
Goes(s, op, t) == s # <<>> /\ Head(s) = op /\ Tail(s) = t

\* What comes next in soMknod and soSymlink, and at the end of every call.
LEMMA Heads ==
  ASSUME NEW in \in File, NEW n \in Name, NEW new \in Name
  PROVE  /\ Goes(CloseRoot, Op("close", Root), <<>>)
         /\ Goes(SaveRoot, Op("save", Root), CloseRoot)
         /\ \A t \in {<<>>, SaveRoot} : /\ Goes(Close(in, t), Op("close", in), t)
                                        /\ Goes(Save(in, t), Op("save", in), Close(in, t))
         /\ Goes(Counted(in), Op("inc", in), Save(in, SaveRoot))
         /\ Goes(NodeAdd(n, in), Named("add", n, in), Counted(in))
         /\ Goes(LinkAdd(n, in), Named("add", n, in), Save(in, SaveRoot))
         /\ Goes(LinkAlloc(n, in), Op("alloc", in), LinkAdd(n, in))
         /\ Goes(LinkCount(n, in), Op("inc", in), LinkAlloc(n, in))
         /\ \A t \in Makes(n, in) :
              /\ Goes(MadeSave(in, t), Op("save", in), t)
              /\ Goes(MadeOpen(in, t), Op("open", in), MadeSave(in, t))
              /\ Goes(TookClose(in, t), Op("close", in), MadeOpen(in, t))
              /\ Goes(TookSuper(in, t), Op("sbsave", in), TookClose(in, t))
              /\ Goes(TookSave(in, t), Op("save", in), TookSuper(in, t))
              /\ Goes(Take(in, t), Op("take", in), TookSave(in, t))
              /\ Goes(Make(in, t), Op("open", Root), Take(in, t))
<1>1. in \in Inode /\ Root \in Inode
  BY DealersAssumption DEF File
<1>2. \A op \in Ops, t \in Seq(Ops) : Goes(Then(op, t), op, t)
  BY ThenIs DEF Goes
<1>3. \A do \in Verbs : /\ Op(do, Root) \in Ops /\ Op(do, in) \in Ops
                        /\ Named(do, n, in) \in Ops /\ Named(do, new, in) \in Ops
  BY <1>1 DEF Op, Named, Ops
<1>4. /\ Op("open", Root) \in Ops /\ Op("save", Root) \in Ops /\ Op("close", Root) \in Ops
      /\ Op("open", in) \in Ops /\ Op("save", in) \in Ops /\ Op("close", in) \in Ops
      /\ Op("inc", in) \in Ops /\ Op("sbsave", in) \in Ops /\ Op("take", in) \in Ops
      /\ Op("alloc", in) \in Ops /\ Named("add", n, in) \in Ops
  BY <1>3 DEF Verbs
<1>5. /\ <<>> \in Seq(Ops) /\ CloseRoot \in Seq(Ops) /\ SaveRoot \in Seq(Ops)
      /\ Counted(in) \in Seq(Ops) /\ LinkAdd(n, in) \in Seq(Ops)
      /\ LinkAlloc(n, in) \in Seq(Ops) /\ Makes(n, in) \subseteq Seq(Ops)
  BY Programs DEF Makes
<1>6. \A t \in Seq(Ops) :
        /\ Close(in, t) \in Seq(Ops) /\ Save(in, t) \in Seq(Ops)
        /\ MadeSave(in, t) \in Seq(Ops) /\ MadeOpen(in, t) \in Seq(Ops)
        /\ TookClose(in, t) \in Seq(Ops) /\ TookSuper(in, t) \in Seq(Ops)
        /\ TookSave(in, t) \in Seq(Ops) /\ Take(in, t) \in Seq(Ops)
  BY Programs
<1>7. Goes(CloseRoot, Op("close", Root), <<>>) /\ Goes(SaveRoot, Op("save", Root), CloseRoot)
  BY <1>2, <1>4, <1>5 DEF CloseRoot, SaveRoot
<1>8. \A t \in {<<>>, SaveRoot} : /\ Goes(Close(in, t), Op("close", in), t)
                                  /\ Goes(Save(in, t), Op("save", in), Close(in, t))
  BY <1>2, <1>4, <1>5, <1>6 DEF Close, Save
<1>9. /\ Goes(Counted(in), Op("inc", in), Save(in, SaveRoot))
      /\ Goes(LinkAdd(n, in), Named("add", n, in), Save(in, SaveRoot))
  BY <1>2, <1>4, <1>5, <1>6 DEF Counted, LinkAdd
<1>10. /\ Goes(NodeAdd(n, in), Named("add", n, in), Counted(in))
       /\ Goes(LinkAlloc(n, in), Op("alloc", in), LinkAdd(n, in))
       /\ Goes(LinkCount(n, in), Op("inc", in), LinkAlloc(n, in))
  BY <1>2, <1>4, <1>5 DEF NodeAdd, LinkAlloc, LinkCount
<1>11. ASSUME NEW t \in Makes(n, in)
       PROVE  /\ Goes(MadeSave(in, t), Op("save", in), t)
              /\ Goes(MadeOpen(in, t), Op("open", in), MadeSave(in, t))
              /\ Goes(TookClose(in, t), Op("close", in), MadeOpen(in, t))
              /\ Goes(TookSuper(in, t), Op("sbsave", in), TookClose(in, t))
              /\ Goes(TookSave(in, t), Op("save", in), TookSuper(in, t))
              /\ Goes(Take(in, t), Op("take", in), TookSave(in, t))
              /\ Goes(Make(in, t), Op("open", Root), Take(in, t))
  <2>1. t \in Seq(Ops)
    BY <1>5
  <2>2. /\ Goes(MadeSave(in, t), Op("save", in), t)
        /\ Goes(MadeOpen(in, t), Op("open", in), MadeSave(in, t))
        /\ Goes(TookClose(in, t), Op("close", in), MadeOpen(in, t))
    BY <1>2, <1>4, <1>6, <2>1 DEF MadeSave, MadeOpen, TookClose
  <2>3. /\ Goes(TookSuper(in, t), Op("sbsave", in), TookClose(in, t))
        /\ Goes(TookSave(in, t), Op("save", in), TookSuper(in, t))
    BY <1>2, <1>4, <1>6, <2>1 DEF TookSuper, TookSave
  <2>4. /\ Goes(Take(in, t), Op("take", in), TookSave(in, t))
        /\ Goes(Make(in, t), Op("open", Root), Take(in, t))
    BY <1>2, <1>4, <1>6, <2>1 DEF Take, Make
  <2>5. QED
    BY <2>2, <2>3, <2>4
<1>12. QED
  BY <1>7, <1>8, <1>9, <1>10, <1>11

\* What comes next in soUnlink, soRename, soWrite, soTruncate and soRead.
LEMMA MoreHeads ==
  ASSUME NEW in \in File, NEW n \in Name, NEW new \in Name
  PROVE  /\ Goes(GaveClose(in), Op("close", in), Save(in, SaveRoot))
         /\ Goes(GaveSuper(in), Op("sbsave", in), GaveClose(in))
         /\ Goes(GaveSave(in), Op("save", in), GaveSuper(in))
         /\ Goes(Give(in), Op("give", in), GaveSave(in))
         /\ \A k \in Nat :
              /\ Goes(UnlinkDelete(n, in, k), Named("delete", n, in), Frees(k, in, Give(in)))
              /\ Goes(UnlinkDec(n, in, k), Op("dec", in), UnlinkDelete(n, in, k))
              /\ Goes(UnlinkOpen(n, in, k), Op("open", in), UnlinkDec(n, in, k))
              /\ Goes(UnlinkRoot(n, in, k), Op("open", Root), UnlinkOpen(n, in, k))
         /\ Goes(CloseOnce(in), Op("close", Root), Close(in, <<>>))
         /\ Goes(CloseTwice(in), Op("close", Root), CloseOnce(in))
         /\ Goes(MovedSave(in), Op("save", in), CloseTwice(in))
         /\ Goes(RootTwice(in), Op("save", Root), MovedSave(in))
         /\ Goes(RootOnce(in), Op("save", Root), RootTwice(in))
         /\ Goes(MovedOpen(in), Op("open", in), RootOnce(in))
         /\ Goes(MoveAdd(new, in), Named("add", new, in), MovedOpen(in))
         /\ Goes(MoveDelete(n, new, in), Named("delete", n, in), MoveAdd(new, in))
         /\ Goes(MoveOver(n, new, in), Named("delete", new, in), MoveDelete(n, new, in))
         /\ \A t \in Moves(n, new, in) :
              Goes(MoveAgain(t), Op("open", Root), t) /\ Goes(MoveRoot(t), Op("open", Root), MoveAgain(t))
         /\ \A t \in {Give(in), Save(in, <<>>)} :
              /\ Frees(0, in, t) = t
              /\ \A k \in Nat : Goes(Frees(k + 1, in, t), Op("free", in), Frees(k, in, t))
         /\ Allocs(0, in) = Save(in, <<>>)
         /\ \A k \in Nat :
              /\ Goes(Allocs(k + 1, in), Op("alloc", in), Allocs(k, in))
              /\ \A t \in {Allocs(k, in), Frees(k, in, Save(in, <<>>))} :
                   Goes(Then(Op("open", in), t), Op("open", in), t)
<1>1. in \in Inode /\ Root \in Inode
  BY DealersAssumption DEF File
<1>2. \A op \in Ops, t \in Seq(Ops) : Goes(Then(op, t), op, t)
  BY ThenIs DEF Goes
<1>3. \A do \in Verbs : /\ Op(do, Root) \in Ops /\ Op(do, in) \in Ops
                        /\ Named(do, n, in) \in Ops /\ Named(do, new, in) \in Ops
  BY <1>1 DEF Op, Named, Ops
<1>4. /\ Op("open", Root) \in Ops /\ Op("save", Root) \in Ops /\ Op("close", Root) \in Ops
      /\ Op("open", in) \in Ops /\ Op("save", in) \in Ops /\ Op("close", in) \in Ops
      /\ Op("dec", in) \in Ops /\ Op("sbsave", in) \in Ops /\ Op("give", in) \in Ops
      /\ Op("alloc", in) \in Ops /\ Op("free", in) \in Ops
      /\ Named("add", new, in) \in Ops
      /\ Named("delete", n, in) \in Ops /\ Named("delete", new, in) \in Ops
  BY <1>3 DEF Verbs
<1>5. /\ <<>> \in Seq(Ops) /\ CloseRoot \in Seq(Ops) /\ SaveRoot \in Seq(Ops)
      /\ GaveClose(in) \in Seq(Ops) /\ GaveSuper(in) \in Seq(Ops)
      /\ GaveSave(in) \in Seq(Ops) /\ Give(in) \in Seq(Ops)
      /\ CloseOnce(in) \in Seq(Ops) /\ CloseTwice(in) \in Seq(Ops)
      /\ MovedSave(in) \in Seq(Ops) /\ RootTwice(in) \in Seq(Ops)
      /\ RootOnce(in) \in Seq(Ops) /\ MovedOpen(in) \in Seq(Ops)
      /\ MoveAdd(new, in) \in Seq(Ops) /\ Moves(n, new, in) \subseteq Seq(Ops)
  BY Programs DEF Moves
<1>6. Save(in, <<>>) \in Seq(Ops) /\ Save(in, SaveRoot) \in Seq(Ops) /\ Close(in, <<>>) \in Seq(Ops)
  BY <1>5, Programs
<1>7. /\ Goes(GaveClose(in), Op("close", in), Save(in, SaveRoot))
      /\ Goes(GaveSuper(in), Op("sbsave", in), GaveClose(in))
      /\ Goes(GaveSave(in), Op("save", in), GaveSuper(in))
      /\ Goes(Give(in), Op("give", in), GaveSave(in))
  BY <1>2, <1>4, <1>5, <1>6 DEF GaveClose, GaveSuper, GaveSave, Give
<1>8. ASSUME NEW k \in Nat
      PROVE  /\ Goes(UnlinkDelete(n, in, k), Named("delete", n, in), Frees(k, in, Give(in)))
             /\ Goes(UnlinkDec(n, in, k), Op("dec", in), UnlinkDelete(n, in, k))
             /\ Goes(UnlinkOpen(n, in, k), Op("open", in), UnlinkDec(n, in, k))
             /\ Goes(UnlinkRoot(n, in, k), Op("open", Root), UnlinkOpen(n, in, k))
  <2>1. /\ Frees(k, in, Give(in)) \in Seq(Ops) /\ UnlinkDelete(n, in, k) \in Seq(Ops)
        /\ UnlinkDec(n, in, k) \in Seq(Ops) /\ UnlinkOpen(n, in, k) \in Seq(Ops)
    BY Programs
  <2>2. QED
    BY <1>2, <1>4, <2>1 DEF UnlinkDelete, UnlinkDec, UnlinkOpen, UnlinkRoot
<1>9. /\ Goes(CloseOnce(in), Op("close", Root), Close(in, <<>>))
      /\ Goes(CloseTwice(in), Op("close", Root), CloseOnce(in))
      /\ Goes(MovedSave(in), Op("save", in), CloseTwice(in))
      /\ Goes(RootTwice(in), Op("save", Root), MovedSave(in))
  BY <1>2, <1>4, <1>5, <1>6 DEF CloseOnce, CloseTwice, MovedSave, RootTwice
<1>10. /\ Goes(RootOnce(in), Op("save", Root), RootTwice(in))
       /\ Goes(MovedOpen(in), Op("open", in), RootOnce(in))
       /\ Goes(MoveAdd(new, in), Named("add", new, in), MovedOpen(in))
  BY <1>2, <1>4, <1>5 DEF RootOnce, MovedOpen, MoveAdd
<1>11. /\ Goes(MoveDelete(n, new, in), Named("delete", n, in), MoveAdd(new, in))
       /\ Goes(MoveOver(n, new, in), Named("delete", new, in), MoveDelete(n, new, in))
  <2>1. MoveDelete(n, new, in) \in Seq(Ops)
    BY <1>5 DEF Moves
  <2>2. QED
    BY <1>2, <1>4, <1>5, <2>1 DEF MoveDelete, MoveOver
<1>12. ASSUME NEW t \in Moves(n, new, in)
       PROVE  Goes(MoveAgain(t), Op("open", Root), t) /\ Goes(MoveRoot(t), Op("open", Root), MoveAgain(t))
  <2>1. t \in Seq(Ops)
    BY <1>5
  <2>2. MoveAgain(t) \in Seq(Ops)
    BY <2>1, Programs
  <2>3. QED
    BY <1>2, <1>4, <2>1, <2>2 DEF MoveAgain, MoveRoot
<1>13. \A op \in Ops, t \in Seq(Ops), k \in Nat :
         /\ Times(k, op, t) \in Seq(Ops) /\ Times(0, op, t) = t
         /\ Goes(Times(k + 1, op, t), op, Times(k, op, t))
  BY <1>2, TimesIs
<1>14. \A t \in {Give(in), Save(in, <<>>)} :
         /\ Frees(0, in, t) = t
         /\ \A k \in Nat : Goes(Frees(k + 1, in, t), Op("free", in), Frees(k, in, t))
  BY <1>4, <1>5, <1>6, <1>13 DEF Frees
<1>15. /\ Allocs(0, in) = Save(in, <<>>)
       /\ \A k \in Nat : Goes(Allocs(k + 1, in), Op("alloc", in), Allocs(k, in))
  BY <1>4, <1>6, <1>13 DEF Allocs
<1>16. \A k \in Nat : \A t \in {Allocs(k, in), Frees(k, in, Save(in, <<>>))} :
         Goes(Then(Op("open", in), t), Op("open", in), t)
  BY <1>2, <1>4, Programs
<1>17. QED
  BY <1>7, <1>8, <1>9, <1>10, <1>11, <1>12, <1>14, <1>15, <1>16

\* Parts of a call, one after the other.
Cat(s, t) == s \o t

\* They are sequences of operations, however they are put together.
LEMMA CatIs ==
  /\ \A s, t \in Seq(Ops) : Cat(s, t) \in Seq(Ops)
  /\ \A s, t, u \in Seq(Ops) : Cat(Cat(s, t), u) = Cat(s, Cat(t, u))
BY ConcatProperties, ConcatAssociative DEF Cat

\* Five parts, put together from the left or from the right.
LEMMA Joined ==
  \A a, b, c, d, e \in Seq(Ops) :
    Cat(Cat(Cat(Cat(a, b), c), d), e) = Cat(a, Cat(b, Cat(c, Cat(d, e))))
<1> SUFFICES ASSUME NEW a \in Seq(Ops), NEW b \in Seq(Ops), NEW c \in Seq(Ops),
                    NEW d \in Seq(Ops), NEW e \in Seq(Ops)
             PROVE  Cat(Cat(Cat(Cat(a, b), c), d), e) = Cat(a, Cat(b, Cat(c, Cat(d, e))))
  OBVIOUS
<1>1. /\ Cat(a, b) \in Seq(Ops) /\ Cat(Cat(a, b), c) \in Seq(Ops)
      /\ Cat(d, e) \in Seq(Ops) /\ Cat(c, Cat(d, e)) \in Seq(Ops)
  BY CatIs
<1>2. QED
  BY <1>1, CatIs

\* What a call is when it begins.
LEMMA CallPrograms ==
  ASSUME NEW in \in File, NEW n \in Name, NEW new \in Name, NEW j \in Nat, NEW k \in Nat,
         k = Cardinality(Inodes(vol)[in].refs)
  PROVE  /\ Mknod(n, in) = Make(in, NodeAdd(n, in))
         /\ Symlink(n, in) = Make(in, LinkCount(n, in))
         /\ Unlink(n, in) = UnlinkRoot(n, in, k)
         /\ Rename(n, new, in) =
              MoveRoot(IF \E e \in Entries(vol) : e.name = new THEN MoveOver(n, new, in)
                       ELSE MoveDelete(n, new, in))
         /\ Write(in, j) = Then(Op("open", in), Allocs(j, in))
         /\ k > 0 => Truncate(in) = Then(Op("open", in), Frees(k - 1, in, Save(in, <<>>)))
         /\ Read(in) = Then(Op("open", in), Save(in, <<>>))
<1>1. in \in Inode /\ Root \in Inode
  BY DealersAssumption DEF File
<1>2. \A do \in Verbs : /\ Op(do, Root) \in Ops /\ Op(do, in) \in Ops
                        /\ Named(do, n, in) \in Ops /\ Named(do, new, in) \in Ops
  BY <1>1 DEF Op, Named, Ops
<1>3. /\ Op("open", Root) \in Ops /\ Op("save", Root) \in Ops /\ Op("close", Root) \in Ops
      /\ Op("open", in) \in Ops /\ Op("save", in) \in Ops /\ Op("close", in) \in Ops
      /\ Op("inc", in) \in Ops /\ Op("dec", in) \in Ops /\ Op("sbsave", in) \in Ops
      /\ Op("take", in) \in Ops /\ Op("give", in) \in Ops
      /\ Op("alloc", in) \in Ops /\ Op("free", in) \in Ops
      /\ Named("add", n, in) \in Ops /\ Named("add", new, in) \in Ops
      /\ Named("delete", n, in) \in Ops /\ Named("delete", new, in) \in Ops
  BY <1>2 DEF Verbs
<1>4. \A s, t, u \in Seq(Ops) : (s \o t) \o u = s \o (t \o u)
  BY ConcatAssociative
<1>5. <<>> \in Seq(Ops) /\ \A s \in Seq(Ops) : s \o <<>> = s /\ <<>> \o s = s
  BY EmptySeq, ConcatEmptySeq
<1>6. SaveClose(Root) \in Seq(Ops) /\ SaveClose(in) \in Seq(Ops)
  BY <1>3 DEF SaveClose
<1>7. SaveClose(Root) = SaveRoot
  <2>1. \A t \in Seq(Ops) :
          SaveClose(Root) \o t = Then(Op("save", Root), Then(Op("close", Root), t))
    BY <1>3, TwoOps DEF SaveClose
  <2>2. QED
    BY <1>5, <1>6, <2>1 DEF SaveRoot, CloseRoot
<1>8. \A t \in Seq(Ops) : SaveClose(in) \o t = Save(in, t)
  BY <1>3, TwoOps DEF SaveClose, Save, Close
<1>9. SaveClose(in) = Save(in, <<>>)
  BY <1>5, <1>6, <1>8
<1>10. /\ soAllocInode(in) \in Seq(Ops)
       /\ \A t \in Seq(Ops) : soAllocInode(in) \o t =
            Then(Op("take", in), Then(Op("save", in), Then(Op("sbsave", in), Then(Op("close", in), t))))
  <2>1. soAllocInode(in) \in Seq(Ops)
    BY <1>3 DEF soAllocInode
  <2>2. /\ Op("take", in) \in Ops /\ Op("save", in) \in Ops
        /\ Op("sbsave", in) \in Ops /\ Op("close", in) \in Ops
    BY <1>3
  <2>3. ASSUME NEW t \in Seq(Ops)
        PROVE  soAllocInode(in) \o t =
            Then(Op("take", in), Then(Op("save", in), Then(Op("sbsave", in), Then(Op("close", in), t))))
    BY ONLY <2>2, t \in Seq(Ops), FourOps DEF soAllocInode
  <2>4. QED
    BY <2>1, <2>3
<1>11. /\ soFreeInode(in) \in Seq(Ops)
       /\ \A t \in Seq(Ops) : soFreeInode(in) \o t =
            Then(Op("give", in), Then(Op("save", in), Then(Op("sbsave", in), Then(Op("close", in), t))))
  <2>1. soFreeInode(in) \in Seq(Ops)
    BY <1>3 DEF soFreeInode
  <2>2. /\ Op("give", in) \in Ops /\ Op("save", in) \in Ops
        /\ Op("sbsave", in) \in Ops /\ Op("close", in) \in Ops
    BY <1>3
  <2>3. ASSUME NEW t \in Seq(Ops)
        PROVE  soFreeInode(in) \o t =
            Then(Op("give", in), Then(Op("save", in), Then(Op("sbsave", in), Then(Op("close", in), t))))
    BY ONLY <2>2, t \in Seq(Ops), FourOps DEF soFreeInode
  <2>4. QED
    BY <2>1, <2>3
<1>12. /\ SaveRoot \in Seq(Ops) /\ Save(in, SaveRoot) \in Seq(Ops) /\ Save(in, <<>>) \in Seq(Ops)
       /\ NodeAdd(n, in) \in Seq(Ops) /\ LinkCount(n, in) \in Seq(Ops)
       /\ Give(in) \in Seq(Ops) /\ CloseTwice(in) \in Seq(Ops)
       /\ MovedOpen(in) \in Seq(Ops) /\ RootOnce(in) \in Seq(Ops)
       /\ MoveDelete(n, new, in) \in Seq(Ops) /\ MoveOver(n, new, in) \in Seq(Ops)
  BY Programs
<1>13. Mknod(n, in) = Make(in, NodeAdd(n, in))
  <2> DEFINE a == <<Op("open", Root)>>
             m == <<Op("open", in), Op("save", in), Named("add", n, in), Op("inc", in)>>
  <2>1. a \in Seq(Ops) /\ m \in Seq(Ops)
    BY <1>3
  <2>2. Mknod(n, in) = (((a \o soAllocInode(in)) \o m) \o SaveClose(in)) \o SaveClose(Root)
    BY DEF Mknod
  <2>3. m \o Save(in, SaveRoot) = MadeOpen(in, NodeAdd(n, in))
    <3>1. /\ Op("open", in) \in Ops /\ Op("save", in) \in Ops
          /\ Named("add", n, in) \in Ops /\ Op("inc", in) \in Ops
          /\ Save(in, SaveRoot) \in Seq(Ops)
      BY <1>3, <1>12
    <3>2. QED
      BY ONLY <3>1, FourOps DEF MadeOpen, MadeSave, NodeAdd, Counted
  <2> DEFINE ma == MadeOpen(in, NodeAdd(n, in))
  <2>4. ma \in Seq(Ops)
    BY <1>12, Programs
  <2>5. soAllocInode(in) \o ma = Take(in, NodeAdd(n, in))
    BY <1>10, <2>4 DEF Take, TookSave, TookSuper, TookClose
  <2>6. a \o Take(in, NodeAdd(n, in)) = Make(in, NodeAdd(n, in))
    BY DEF Make, Then
  <2> HIDE DEF a, m, ma
  <2>7. (((a \o soAllocInode(in)) \o m) \o SaveClose(in)) \o SaveClose(Root)
          = a \o (soAllocInode(in) \o (m \o (SaveClose(in) \o SaveClose(Root))))
    <3>1. /\ a \in Seq(Ops) /\ soAllocInode(in) \in Seq(Ops) /\ m \in Seq(Ops)
          /\ SaveClose(in) \in Seq(Ops) /\ SaveClose(Root) \in Seq(Ops)
      BY <1>6, <1>10, <2>1
    <3>2. Cat(Cat(Cat(Cat(a, soAllocInode(in)), m), SaveClose(in)), SaveClose(Root))
            = Cat(a, Cat(soAllocInode(in), Cat(m, Cat(SaveClose(in), SaveClose(Root)))))
      BY <3>1, Joined
    <3>3. QED
      BY <3>2 DEF Cat
  <2>8. SaveClose(in) \o SaveClose(Root) = Save(in, SaveRoot)
    BY <1>7, <1>8, <1>12
  <2>9. QED
    BY <2>2, <2>3, <2>5, <2>6, <2>7, <2>8 DEF ma
<1>14. Symlink(n, in) = Make(in, LinkCount(n, in))
  <2> DEFINE a == <<Op("open", Root)>>
             m == <<Op("open", in), Op("save", in), Op("inc", in), Op("alloc", in), Named("add", n, in)>>
  <2>1. a \in Seq(Ops) /\ m \in Seq(Ops)
    BY <1>3
  <2>2. Symlink(n, in) = (((a \o soAllocInode(in)) \o m) \o SaveClose(in)) \o SaveClose(Root)
    BY DEF Symlink
  <2>3. m \o Save(in, SaveRoot) = MadeOpen(in, LinkCount(n, in))
    <3>1. /\ Op("open", in) \in Ops /\ Op("save", in) \in Ops /\ Op("inc", in) \in Ops
          /\ Op("alloc", in) \in Ops /\ Named("add", n, in) \in Ops
          /\ Save(in, SaveRoot) \in Seq(Ops)
      BY <1>3, <1>12
    <3>2. QED
      BY ONLY <3>1, FiveOps DEF MadeOpen, MadeSave, LinkCount, LinkAlloc, LinkAdd
  <2> DEFINE ma == MadeOpen(in, LinkCount(n, in))
  <2>4. ma \in Seq(Ops)
    BY <1>12, Programs
  <2>5. soAllocInode(in) \o ma = Take(in, LinkCount(n, in))
    BY <1>10, <2>4 DEF Take, TookSave, TookSuper, TookClose
  <2>6. a \o Take(in, LinkCount(n, in)) = Make(in, LinkCount(n, in))
    BY DEF Make, Then
  <2> HIDE DEF a, m, ma
  <2>7. (((a \o soAllocInode(in)) \o m) \o SaveClose(in)) \o SaveClose(Root)
          = a \o (soAllocInode(in) \o (m \o (SaveClose(in) \o SaveClose(Root))))
    <3>1. /\ a \in Seq(Ops) /\ soAllocInode(in) \in Seq(Ops) /\ m \in Seq(Ops)
          /\ SaveClose(in) \in Seq(Ops) /\ SaveClose(Root) \in Seq(Ops)
      BY <1>6, <1>10, <2>1
    <3>2. Cat(Cat(Cat(Cat(a, soAllocInode(in)), m), SaveClose(in)), SaveClose(Root))
            = Cat(a, Cat(soAllocInode(in), Cat(m, Cat(SaveClose(in), SaveClose(Root)))))
      BY <3>1, Joined
    <3>3. QED
      BY <3>2 DEF Cat
  <2>8. SaveClose(in) \o SaveClose(Root) = Save(in, SaveRoot)
    BY <1>7, <1>8, <1>12
  <2>9. QED
    BY <2>2, <2>3, <2>5, <2>6, <2>7, <2>8 DEF ma
<1>15. soFreeFileClusters(in) \in Seq(Ops)
       /\ \A t \in Seq(Ops) : soFreeFileClusters(in) \o t = Frees(k, in, t)
  BY <1>3 DEF soFreeFileClusters, Frees, Times
<1>16. Unlink(n, in) = UnlinkRoot(n, in, k)
  <2> DEFINE m == <<Op("open", Root), Op("open", in), Op("dec", in), Named("delete", n, in)>>
  <2>1. m \in Seq(Ops)
    BY <1>3
  <2>2. Unlink(n, in) = (((m \o soFreeFileClusters(in)) \o soFreeInode(in)) \o SaveClose(in)) \o SaveClose(Root)
    BY DEF Unlink
  <2>3. soFreeInode(in) \o Save(in, SaveRoot) = Give(in)
    BY <1>11, <1>12 DEF Give, GaveSave, GaveSuper, GaveClose
  <2>4. soFreeFileClusters(in) \o Give(in) = Frees(k, in, Give(in)) /\ Frees(k, in, Give(in)) \in Seq(Ops)
    BY <1>12, <1>15, Programs
  <2>5. m \o Frees(k, in, Give(in)) = UnlinkRoot(n, in, k)
    <3>1. /\ Op("open", Root) \in Ops /\ Op("open", in) \in Ops
          /\ Op("dec", in) \in Ops /\ Named("delete", n, in) \in Ops
          /\ Frees(k, in, Give(in)) \in Seq(Ops)
      BY <1>3, <2>4
    <3>2. QED
      BY ONLY <3>1, FourOps DEF UnlinkRoot, UnlinkOpen, UnlinkDec, UnlinkDelete
  <2> HIDE DEF m
  <2>6. (((m \o soFreeFileClusters(in)) \o soFreeInode(in)) \o SaveClose(in)) \o SaveClose(Root)
          = m \o (soFreeFileClusters(in) \o (soFreeInode(in) \o (SaveClose(in) \o SaveClose(Root))))
    <3>1. /\ m \in Seq(Ops) /\ soFreeFileClusters(in) \in Seq(Ops) /\ soFreeInode(in) \in Seq(Ops)
          /\ SaveClose(in) \in Seq(Ops) /\ SaveClose(Root) \in Seq(Ops)
      BY <1>6, <1>11, <1>15, <2>1
    <3>2. Cat(Cat(Cat(Cat(m, soFreeFileClusters(in)), soFreeInode(in)), SaveClose(in)), SaveClose(Root))
            = Cat(m, Cat(soFreeFileClusters(in), Cat(soFreeInode(in), Cat(SaveClose(in), SaveClose(Root)))))
      BY <3>1, Joined
    <3>3. QED
      BY <3>2 DEF Cat
  <2>7. SaveClose(in) \o SaveClose(Root) = Save(in, SaveRoot)
    BY <1>7, <1>8, <1>12
  <2>8. QED
    BY <2>2, <2>3, <2>4, <2>5, <2>6, <2>7
<1>17. Rename(n, new, in) =
         MoveRoot(IF \E e \in Entries(vol) : e.name = new THEN MoveOver(n, new, in)
                  ELSE MoveDelete(n, new, in))
  <2> DEFINE a == <<Op("open", Root), Op("open", Root)>>
             d == <<Named("delete", new, in)>>
             m == <<Named("delete", n, in), Named("add", new, in), Op("open", in)>>
             s == <<Op("save", Root), Op("save", Root), Op("save", in)>>
             c == <<Op("close", Root), Op("close", Root), Op("close", in)>>
             both == \E e \in Entries(vol) : e.name = new
  <2>1. /\ a \in Seq(Ops) /\ d \in Seq(Ops) /\ m \in Seq(Ops)
        /\ s \in Seq(Ops) /\ c \in Seq(Ops) /\ <<>> \in Seq(Ops)
    BY <1>3
  <2>2. Rename(n, new, in) = (((a \o (IF both THEN d ELSE <<>>)) \o m) \o s) \o c
    BY DEF Rename
  <2>3. c = CloseTwice(in)
    <3>1. Op("close", Root) \in Ops /\ Op("close", in) \in Ops
      BY <1>3
    <3>2. ASSUME NEW t \in Seq(Ops)
          PROVE  c \o t = Then(Op("close", Root), Then(Op("close", Root), Then(Op("close", in), t)))
      BY ONLY <3>1, t \in Seq(Ops), ThreeOps
    <3>3. QED
      BY <1>5, <2>1, <3>2 DEF CloseTwice, CloseOnce, Close
  <2>4. s \o CloseTwice(in) = RootOnce(in)
    <3>1. Op("save", Root) \in Ops /\ Op("save", in) \in Ops /\ CloseTwice(in) \in Seq(Ops)
      BY <1>3, <1>12
    <3>2. QED
      BY ONLY <3>1, ThreeOps DEF RootOnce, RootTwice, MovedSave
  <2>5. m \o RootOnce(in) = MoveDelete(n, new, in)
    <3>1. /\ Named("delete", n, in) \in Ops /\ Named("add", new, in) \in Ops
          /\ Op("open", in) \in Ops /\ RootOnce(in) \in Seq(Ops)
      BY <1>3, <1>12
    <3>2. QED
      BY ONLY <3>1, ThreeOps DEF MoveDelete, MoveAdd, MovedOpen
  <2>6. d \o MoveDelete(n, new, in) = MoveOver(n, new, in)
    BY DEF MoveOver, Then
  <2>7. \A t \in Seq(Ops) : a \o t = MoveRoot(t)
    BY <1>3, TwoOps, Zenon DEF MoveRoot, MoveAgain
  <2> HIDE DEF a, d, m, s, c, both
  <2>8. ASSUME NEW x \in Seq(Ops)
        PROVE  (((a \o x) \o m) \o s) \o c = a \o (x \o (m \o (s \o c)))
    <3>1. Cat(Cat(Cat(Cat(a, x), m), s), c) = Cat(a, Cat(x, Cat(m, Cat(s, c))))
      BY <2>1, Joined
    <3>2. QED
      BY <3>1 DEF Cat
  <2>9. \A x \in {d, <<>>} : (((a \o x) \o m) \o s) \o c = a \o (x \o MoveDelete(n, new, in))
    BY <2>1, <2>3, <2>4, <2>5, <2>8
  <2>10. <<>> \o MoveDelete(n, new, in) = MoveDelete(n, new, in)
    BY <1>5, <1>12
  <2>11. CASE both
    BY <1>12, <2>2, <2>6, <2>7, <2>9, <2>11 DEF both
  <2>12. CASE ~ both
    BY <1>12, <2>2, <2>7, <2>9, <2>10, <2>12 DEF both
  <2>13. QED
    BY <2>11, <2>12
<1>18. Write(in, j) = Then(Op("open", in), Allocs(j, in))
  <2> DEFINE a == <<Op("open", in)>>
             r == [i \in 1 .. j |-> Op("alloc", in)]
  <2>1. a \in Seq(Ops) /\ r \in Seq(Ops)
    BY <1>3
  <2>2. Write(in, j) = (a \o r) \o SaveClose(in)
    BY DEF Write
  <2>3. (a \o r) \o SaveClose(in) = a \o (r \o SaveClose(in))
    BY <1>4, <1>6, <2>1
  <2>4. QED
    BY <1>9, <2>2, <2>3 DEF Allocs, Times, Then
<1>19. ASSUME k > 0
       PROVE  Truncate(in) = Then(Op("open", in), Frees(k - 1, in, Save(in, <<>>)))
  <2> DEFINE a == <<Op("open", in)>>
             r == [i \in 1 .. k - 1 |-> Op("free", in)]
             l == soFreeFileClusters(in)
  <2>1. a \in Seq(Ops) /\ r \in Seq(Ops) /\ Len(r) = k - 1 /\ \A i \in 1 .. k - 1 : r[i] = Op("free", in)
    BY <1>3, <1>19
  <2>2. l \in Seq(Ops) /\ Len(l) = k /\ \A i \in 1 .. k : l[i] = Op("free", in)
    BY <1>3 DEF soFreeFileClusters
  <2>3. l # <<>>
    BY <1>19, <2>2, EmptySeq
  <2>4. /\ Tail(l) \in Seq(Ops) /\ Len(Tail(l)) = Len(l) - 1
        /\ \A i \in 1 .. Len(Tail(l)) : Tail(l)[i] = l[i + 1]
    BY <2>2, <2>3, HeadTailProperties
  <2> HIDE DEF l, r
  <2>5. Tail(l) = r
    <3>1. Len(Tail(l)) = k - 1 /\ \A i \in 1 .. k - 1 : Tail(l)[i] = r[i]
      BY <1>19, <2>1, <2>2, <2>4
    <3>2. QED
      BY <2>1, <2>4, <3>1, SeqEqual
  <2>6. Truncate(in) = (a \o r) \o SaveClose(in)
    BY <2>5 DEF Truncate, l
  <2>7. (a \o r) \o SaveClose(in) = a \o (r \o SaveClose(in))
    BY <1>4, <1>6, <2>1
  <2>8. QED
    BY <1>9, <2>6, <2>7 DEF Frees, Times, Then, r
<1>20. Read(in) = Then(Op("open", in), Save(in, <<>>))
  BY <1>9 DEF Read, Then
<1>21. QED
  BY <1>13, <1>14, <1>16, <1>17, <1>18, <1>19, <1>20

-----------------------------------------------------------------------------
(* What the dealers do, as the calls see it                                   *)

\* Nothing but the number of handles has changed.
Same(y, z) ==
  /\ y \in Volumes
  /\ y.sb = z.sb /\ y.dsb = z.dsb /\ y.disk = z.disk /\ y.dir = z.dir
  /\ Inodes(y) = Inodes(z)

\* Only the inode i has changed, of what the calls see.
Only(y, z, i) == \A j \in Inode \ {i} : Inodes(y)[j] = Inodes(z)[j]

\* What is where in a volume.
LEMMA VolumeTypes ==
  ASSUME NEW z \in Volumes
  PROVE  /\ Inodes(z) \in [Inode -> InodeType]
         /\ Root \in Inode /\ File \subseteq Inode /\ Root \notin File
         /\ Entered(z) \subseteq Entry /\ Linked(z) \subseteq File /\ Used(z) \subseteq Name
         /\ Size(z) \in 0 .. DPC /\ DPC \in Nat \ {0}
         /\ NoEntry \notin Entry
<1>1. Root \in Inode /\ File \subseteq Inode /\ Root \notin File
  BY DealersAssumption DEF File
<1>2. Inodes(z) \in [Inode -> InodeType]
  BY DEF Inodes, Volumes
<1>3. Entered(z) \subseteq Entry
  BY DEF Entered, Volumes
<1>4. Linked(z) \subseteq File /\ Used(z) \subseteq Name
  BY <1>3 DEF Linked, Used, Entry
<1>5. Size(z) \in 0 .. DPC
  BY <1>1, <1>2 DEF Size, InodeType
<1>6. QED
  BY <1>1, <1>2, <1>3, <1>4, <1>5, VolumeAssumption DEF Entry

\* iOpen: the first handle reads the inode, which is then as it was on the disk.
LEMMA OpenDoes ==
  ASSUME NEW z \in Volumes, NEW i \in Inode, NEW y, y = iOpen(z, i)
  PROVE  Same(y, z) /\ y.count = [z.count EXCEPT ![i] = @ + 1]
<1> DEFINE c == [z.cache EXCEPT ![i] = IF z.count[i] = 0 THEN z.disk[i] ELSE @]
           n == [z.count EXCEPT ![i] = @ + 1]
<1>0. y = [z EXCEPT !.cache = c, !.count = n]
  BY DEF iOpen
<1>1. c \in [Inode -> InodeType] /\ n \in [Inode -> Nat]
  BY DEF Volumes
<1>2. /\ y.sb = z.sb /\ y.dsb = z.dsb /\ y.disk = z.disk /\ y.dir = z.dir
      /\ y.count = n /\ y.cache = c /\ y \in Volumes
  <2> HIDE DEF c, n
  <2>1. QED
    BY <1>0, <1>1 DEF Volumes
<1>3. ASSUME NEW j \in Inode
      PROVE  (IF y.count[j] > 0 THEN y.cache[j] ELSE y.disk[j])
               = (IF z.count[j] > 0 THEN z.cache[j] ELSE z.disk[j])
  BY <1>2 DEF Volumes
<1>4. Inodes(y) = Inodes(z)
  BY <1>3 DEF Inodes
<1>5. QED
  BY <1>2, <1>4 DEF Same

\* iSave of an open inode: the disk has it as the calls see it.
LEMMA SaveDoes ==
  ASSUME NEW z \in Volumes, NEW i \in Inode, z.count[i] > 0, NEW y, y = iSave(z, i)
  PROVE  /\ y \in Volumes /\ y.sb = z.sb /\ y.dsb = z.dsb /\ y.dir = z.dir
         /\ y.count = z.count /\ Inodes(y) = Inodes(z)
         /\ y.disk = [z.disk EXCEPT ![i] = Inodes(z)[i]]
<1> DEFINE buf == [[j \in SameBlock(i) |-> z.disk[j]] EXCEPT ![i] = z.cache[i]]
           d == [j \in Inode |-> IF j \in SameBlock(i) THEN buf[j] ELSE z.disk[j]]
<1>1. y = [z EXCEPT !.disk = d]
  BY DEF iSave
<1>2. Inodes(z)[i] = z.cache[i]
  BY DEF Inodes
<1>3. \A j \in SameBlock(i) : j \in Inode /\ buf[j] = IF j = i THEN z.cache[i] ELSE z.disk[j]
  BY DEF SameBlock
<1>4. i \in SameBlock(i)
  BY DEF SameBlock
<1>5. d = [z.disk EXCEPT ![i] = z.cache[i]]
  <2>1. d = [j \in Inode |-> IF j = i THEN z.cache[i] ELSE z.disk[j]]
    BY <1>3, <1>4
  <2>2. QED
    BY <2>1 DEF Volumes
<1> HIDE DEF d
<1>6. /\ y.sb = z.sb /\ y.dsb = z.dsb /\ y.dir = z.dir /\ y.cache = z.cache
      /\ y.count = z.count /\ y.disk = d /\ d \in [Inode -> InodeType]
  BY <1>1, <1>5 DEF Volumes
<1>7. y \in Volumes
  BY <1>1, <1>6 DEF Volumes
<1>8. Inodes(y) = Inodes(z)
  <2>1. \A j \in Inode : z.count[j] > 0 \/ y.disk[j] = z.disk[j]
    BY <1>5, <1>6 DEF Volumes
  <2>2. QED
    BY <1>6, <2>1 DEF Inodes
<1>9. QED
  BY <1>2, <1>5, <1>6, <1>7, <1>8

\* iClose of an inode that is saved, even of the last handle.
LEMMA CloseDoes ==
  ASSUME NEW z \in Volumes, NEW i \in Inode, z.count[i] > 0, Saved(z, i), NEW y, y = iClose(z, i)
  PROVE  Same(y, z) /\ y.count = [z.count EXCEPT ![i] = @ - 1]
<1>1. y \in Volumes
  BY DEF iClose, Volumes
<1>2. /\ y.sb = z.sb /\ y.dsb = z.dsb /\ y.disk = z.disk /\ y.dir = z.dir /\ y.cache = z.cache
      /\ y.count = [z.count EXCEPT ![i] = @ - 1]
  BY DEF iClose, Volumes
<1>3. z.cache[i] = z.disk[i]
  BY DEF Saved, Inodes
<1>4. ASSUME NEW j \in Inode
      PROVE  (IF y.count[j] > 0 THEN y.cache[j] ELSE y.disk[j])
               = (IF z.count[j] > 0 THEN z.cache[j] ELSE z.disk[j])
  BY <1>2, <1>3 DEF Volumes
<1>5. Inodes(y) = Inodes(z)
  BY <1>4 DEF Inodes
<1>6. QED
  BY <1>1, <1>2, <1>5 DEF Same

\* sbSave.
LEMMA SuperDoes ==
  ASSUME NEW z \in Volumes, NEW y, y = sbSave(z)
  PROVE  /\ y \in Volumes /\ y.sb = z.sb /\ y.dsb = z.sb /\ y.disk = z.disk /\ y.dir = z.dir
         /\ y.count = z.count /\ Inodes(y) = Inodes(z)
BY DEF sbSave, Volumes, Inodes

\* Closing the dealers and opening them: the disk is what there is.
LEMMA MountDoes ==
  ASSUME NEW z \in Volumes, NEW y, y = Mounted(z)
  PROVE  /\ y \in Volumes /\ y.sb = z.dsb /\ y.dsb = z.dsb /\ y.disk = z.disk /\ y.dir = z.dir
         /\ Inodes(y) = z.disk
<1>1. Blank \in InodeType
  BY VolumeAssumption DEF Blank, InodeType
<1>2. y \in Volumes
  BY <1>1 DEF Mounted, Volumes
<1>3. /\ y.sb = z.dsb /\ y.dsb = z.dsb /\ y.disk = z.disk /\ y.dir = z.dir
      /\ y.count = [i \in Inode |-> 0]
  BY DEF Mounted, Volumes
<1>4. Inodes(y) = z.disk
  BY <1>3 DEF Inodes, Volumes
<1>5. QED
  BY <1>2, <1>3, <1>4

\* An open inode is changed in memory.
LEMMA ChangeDoes ==
  ASSUME NEW z \in Volumes, NEW i \in Inode, z.count[i] > 0, NEW v \in InodeType,
         NEW y, y = [z EXCEPT !.cache = [z.cache EXCEPT ![i] = v]]
  PROVE  /\ y \in Volumes /\ y.sb = z.sb /\ y.dsb = z.dsb /\ y.disk = z.disk /\ y.dir = z.dir
         /\ y.count = z.count /\ Inodes(y) = [Inodes(z) EXCEPT ![i] = v]
<1> DEFINE c == [z.cache EXCEPT ![i] = v]
<1>0. y = [z EXCEPT !.cache = c]
  OBVIOUS
<1>1. c \in [Inode -> InodeType]
  BY DEF Volumes
<1>2. /\ y.sb = z.sb /\ y.dsb = z.dsb /\ y.disk = z.disk /\ y.dir = z.dir
      /\ y.count = z.count /\ y.cache = c /\ y \in Volumes
  <2> HIDE DEF c
  <2>1. QED
    BY <1>0, <1>1 DEF Volumes
<1>3. Inodes(y) = [Inodes(z) EXCEPT ![i] = v]
  BY <1>2 DEF Inodes, Volumes
<1>4. QED
  BY <1>2, <1>3

\* The number of names of an inode changes, and nothing else.
Counts(y, z, i) ==
  /\ y \in Volumes /\ y.sb = z.sb /\ y.dsb = z.dsb /\ y.disk = z.disk /\ y.dir = z.dir
  /\ y.count = z.count /\ Only(y, z, i)
  /\ Inodes(y)[i].free = Inodes(z)[i].free /\ Inodes(y)[i].refs = Inodes(z)[i].refs

\* iIncRefcount and iDecRefcount: the other fields are as they were.
LEMMA CountDoes ==
  ASSUME NEW z \in Volumes, NEW i \in Inode, z.count[i] > 0, NEW y,
         \/ y = iIncRefcount(z, i) /\ Inodes(z)[i].refcount = 0
         \/ y = iDecRefcount(z, i)
  PROVE  Counts(y, z, i)
<1> DEFINE v(c) == [z.cache[i] EXCEPT !.refcount = c]
<1>1. z.cache[i] \in InodeType /\ Inodes(z)[i] = z.cache[i] /\ Inodes(z) \in [Inode -> InodeType]
  BY VolumeTypes DEF Volumes, Inodes
<1>2. \A c \in 0 .. 1 : /\ v(c) \in InodeType
                        /\ v(c).free = z.cache[i].free /\ v(c).refs = z.cache[i].refs
  BY <1>1 DEF InodeType
<1>3. PICK c \in 0 .. 1 : y = [z EXCEPT !.cache = [z.cache EXCEPT ![i] = v(c)]]
  <2>1. CASE y = iIncRefcount(z, i) /\ Inodes(z)[i].refcount = 0
    <3>1. y = [z EXCEPT !.cache = [z.cache EXCEPT ![i] = v(z.cache[i].refcount + 1)]]
      BY <2>1 DEF iIncRefcount
    <3>2. z.cache[i].refcount + 1 \in 0 .. 1
      BY <1>1, <2>1
    <3>3. QED
      BY <3>1, <3>2
  <2>2. CASE y = iDecRefcount(z, i)
    <3> DEFINE r == z.cache[i].refcount
               d == IF r > 0 THEN r - 1 ELSE 0
    <3>1. y = [z EXCEPT !.cache = [z.cache EXCEPT ![i] = v(d)]]
      BY <2>2 DEF iDecRefcount
    <3>2. r \in 0 .. 1
      BY <1>1 DEF InodeType
    <3>3. d \in 0 .. 1
      BY <3>2
    <3>4. QED
      BY <3>1, <3>3
  <2>3. QED
    BY <2>1, <2>2
<1> HIDE DEF v
<1>4. /\ y \in Volumes /\ y.sb = z.sb /\ y.dsb = z.dsb /\ y.disk = z.disk /\ y.dir = z.dir
      /\ y.count = z.count /\ Inodes(y) = [Inodes(z) EXCEPT ![i] = v(c)]
  BY <1>2, <1>3, ChangeDoes
<1>5. Only(y, z, i) /\ Inodes(y)[i] = v(c)
  BY <1>1, <1>4 DEF Only
<1>6. QED
  BY <1>1, <1>2, <1>4, <1>5 DEF Counts

\* soAllocInode takes an inode from the free ones and clears it.
LEMMA TakeDoes ==
  ASSUME NEW z \in Volumes, NEW i \in Inode, NEW y, y = TakeInode(z, i)
  PROVE  /\ y \in Volumes /\ y.sb = [z.sb EXCEPT !.ifree = @ \ {i}]
         /\ y.dsb = z.dsb /\ y.disk = z.disk /\ y.dir = z.dir
         /\ y.count = [z.count EXCEPT ![i] = @ + 1]
         /\ Inodes(y) = [Inodes(z) EXCEPT ![i] = Blank]
<1> DEFINE s == [z.sb EXCEPT !.ifree = @ \ {i}]
           a == [z EXCEPT !.sb = s]
           b == iOpen(a, i)
<1>1. s \in Superblock
  BY DEF Volumes, Superblock
<1>2. /\ a \in Volumes /\ a.sb = s /\ a.dsb = z.dsb /\ a.disk = z.disk /\ a.dir = z.dir
      /\ a.count = z.count /\ Inodes(a) = Inodes(z)
  <2> HIDE DEF s
  <2>1. QED
    BY <1>1 DEF Volumes, Inodes
<1>3. y = [b EXCEPT !.cache = [b.cache EXCEPT ![i] = Blank]]
  BY DEF TakeInode
<1> HIDE DEF s, a, b
<1>4. Same(b, a) /\ b.count = [a.count EXCEPT ![i] = @ + 1]
  BY <1>2, OpenDoes DEF b
<1>5. b.count[i] > 0 /\ Blank \in InodeType
  BY <1>2, <1>4, VolumeAssumption DEF Volumes, Blank, InodeType
<1>6. /\ y \in Volumes /\ y.sb = b.sb /\ y.dsb = b.dsb /\ y.disk = b.disk /\ y.dir = b.dir
      /\ y.count = b.count /\ Inodes(y) = [Inodes(b) EXCEPT ![i] = Blank]
  <2>1. b \in Volumes
    BY <1>4 DEF Same
  <2>2. QED
    BY ONLY <1>3, <1>5, <2>1, i \in Inode, ChangeDoes
<1>7. QED
  BY <1>2, <1>4, <1>6 DEF Same, s

\* soFreeInode clears an inode and puts it with the free ones.
LEMMA GiveDoes ==
  ASSUME NEW z \in Volumes, NEW i \in Inode, NEW y, y = GiveInode(z, i)
  PROVE  /\ y \in Volumes /\ y.sb = [z.sb EXCEPT !.ifree = @ \cup {i}]
         /\ y.dsb = z.dsb /\ y.disk = z.disk /\ y.dir = z.dir
         /\ y.count = [z.count EXCEPT ![i] = @ + 1]
         /\ Inodes(y) = [Inodes(z) EXCEPT ![i] = [Blank EXCEPT !.free = TRUE]]
<1> DEFINE s == [z.sb EXCEPT !.ifree = @ \cup {i}]
           a == [z EXCEPT !.sb = s]
           b == iOpen(a, i)
           v == [Blank EXCEPT !.free = TRUE]
<1>1. s \in Superblock
  BY DEF Volumes, Superblock
<1>2. /\ a \in Volumes /\ a.sb = s /\ a.dsb = z.dsb /\ a.disk = z.disk /\ a.dir = z.dir
      /\ a.count = z.count /\ Inodes(a) = Inodes(z)
  <2> HIDE DEF s
  <2>1. QED
    BY <1>1 DEF Volumes, Inodes
<1>3. y = [b EXCEPT !.cache = [b.cache EXCEPT ![i] = v]]
  BY DEF GiveInode
<1>4. v \in InodeType
  <2>1. Blank \in InodeType
    BY VolumeAssumption DEF Blank, InodeType
  <2>2. QED
    BY <2>1 DEF InodeType
<1> HIDE DEF s, a, b, v
<1>5. Same(b, a) /\ b.count = [a.count EXCEPT ![i] = @ + 1]
  BY <1>2, OpenDoes DEF b
<1>6. b.count[i] > 0
  BY <1>2, <1>5 DEF Volumes
<1>7. /\ y \in Volumes /\ y.sb = b.sb /\ y.dsb = b.dsb /\ y.disk = b.disk /\ y.dir = b.dir
      /\ y.count = b.count /\ Inodes(y) = [Inodes(b) EXCEPT ![i] = v]
  <2>1. b \in Volumes
    BY <1>5 DEF Same
  <2>2. QED
    BY ONLY <1>3, <1>4, <1>6, <2>1, i \in Inode, ChangeDoes
<1>8. QED
  BY <1>2, <1>5, <1>7 DEF Same, s, v

\* A set of natural numbers that is not empty has a smallest one, and, if it is
\* bounded, a largest one.
LEMMA ExtremesAre ==
  ASSUME NEW S \in SUBSET Nat, S # {}
  PROVE  /\ SomeOf(S) \in S
         /\ Least(S) \in S /\ \A x \in S : Least(S) <= x
         /\ \A b \in Nat : (\A x \in S : x <= b) => Greatest(S) \in S /\ \A x \in S : x <= Greatest(S)
<1> DEFINE R == OpToRel(<, Nat)
<1>1. IsWellFoundedOn(R, Nat)
  BY NatLessThanWellFounded
<1>2. \A x, y \in Nat : x < y => <<x, y>> \in R
  BY DEF OpToRel
<1> HIDE DEF R
<1>3. ASSUME NEW T \in SUBSET Nat, T # {} PROVE \E x \in T : \A y \in T : x <= y
  <2>1. PICK x \in T : \A y \in T : ~ (<<y, x>> \in R)
    BY <1>1, <1>3, WFMin
  <2>2. ASSUME NEW y \in T PROVE x <= y
    <3>1. ~ (y < x)
      BY <1>2, <2>1
    <3>2. QED
      BY <3>1
  <2>3. QED
    BY <2>2
<1>4. SomeOf(S) \in S /\ Least(S) \in S /\ \A x \in S : Least(S) <= x
  BY <1>3 DEF SomeOf, Least
<1>5. ASSUME NEW b \in Nat, \A x \in S : x <= b
      PROVE  Greatest(S) \in S /\ \A x \in S : x <= Greatest(S)
  <2> DEFINE T == {b - x : x \in S}
  <2>1. T \in SUBSET Nat /\ T # {}
    <3>1. \A x \in S : b - x \in Nat
      BY <1>5
    <3>2. QED
      BY <3>1
  <2>2. PICK t \in T : \A y \in T : t <= y
    BY <1>3, <2>1
  <2>3. PICK x \in S : t = b - x
    OBVIOUS
  <2>4. ASSUME NEW y \in S PROVE y <= x
    <3>1. b - x <= b - y
      BY <2>2, <2>3
    <3>2. QED
      BY <3>1
  <2>5. QED
    BY <2>4 DEF Greatest
<1>6. QED
  BY <1>4, <1>5

\* A cluster goes from the free ones to an inode, or back, and the superblock is
\* on the disk.
Allocates(y, z, i, c) ==
  /\ y \in Volumes /\ y.sb = [z.sb EXCEPT !.cfree = @ \ {c}] /\ y.dsb = y.sb
  /\ y.disk = z.disk /\ y.dir = z.dir /\ y.count = z.count
  /\ c \in z.sb.cfree
  /\ Only(y, z, i) /\ Inodes(y)[i] = [Inodes(z)[i] EXCEPT !.refs = @ \cup {c}]
Releases(y, z, i, c) ==
  /\ y \in Volumes /\ y.sb = [z.sb EXCEPT !.cfree = @ \cup {c}] /\ y.dsb = y.sb
  /\ y.disk = z.disk /\ y.dir = z.dir /\ y.count = z.count
  /\ c \in Inodes(z)[i].refs
  /\ Only(y, z, i) /\ Inodes(y)[i] = [Inodes(z)[i] EXCEPT !.refs = @ \ {c}]

\* A new superblock is saved, and an inode has other clusters.
MoveCluster(z, i, s, r) == [sbSave([z EXCEPT !.sb = s]) EXCEPT !.cache[i].refs = r]

\* The superblock is saved, then the references of an open inode are changed.
LEMMA MoveClusterDoes ==
  ASSUME NEW z \in Volumes, NEW i \in Inode, z.count[i] > 0,
         NEW s \in Superblock, NEW r \in SUBSET Cluster,
         NEW y, y = MoveCluster(z, i, s, r)
  PROVE  /\ y \in Volumes /\ y.sb = s /\ y.dsb = s
         /\ y.disk = z.disk /\ y.dir = z.dir /\ y.count = z.count
         /\ Only(y, z, i) /\ Inodes(y)[i] = [Inodes(z)[i] EXCEPT !.refs = r]
<1> DEFINE a == sbSave([z EXCEPT !.sb = s])
           v == [a.cache[i] EXCEPT !.refs = r]
<1>1. /\ a \in Volumes /\ a.sb = s /\ a.dsb = s /\ a.disk = z.disk /\ a.dir = z.dir
      /\ a.count = z.count /\ a.cache = z.cache /\ Inodes(a) = Inodes(z)
  BY DEF sbSave, Volumes, Inodes
<1>2. y = [a EXCEPT !.cache = [a.cache EXCEPT ![i] = v]]
  BY DEF MoveCluster
<1>3. a.cache[i] \in InodeType /\ Inodes(z)[i] = a.cache[i] /\ Inodes(z) \in [Inode -> InodeType]
  BY <1>1, VolumeTypes DEF Volumes, Inodes
<1>4. v \in InodeType
  BY <1>3 DEF InodeType
<1> DEFINE w == v
<1> HIDE DEF a, w
<1>5. w \in InodeType /\ a \in Volumes /\ a.count[i] > 0
      /\ y = [a EXCEPT !.cache = [a.cache EXCEPT ![i] = w]]
  BY <1>1, <1>2, <1>4 DEF w
<1>6. /\ y \in Volumes /\ y.sb = a.sb /\ y.dsb = a.dsb /\ y.disk = a.disk /\ y.dir = a.dir
      /\ y.count = a.count /\ Inodes(y) = [Inodes(a) EXCEPT ![i] = w]
  BY ONLY <1>5, i \in Inode, ChangeDoes
<1>7. Only(y, z, i) /\ Inodes(y)[i] = w
  BY <1>1, <1>3, <1>6 DEF Only
<1>8. w = [Inodes(z)[i] EXCEPT !.refs = r]
  BY <1>3 DEF w
<1>9. QED
  BY <1>1, <1>6, <1>7, <1>8

\* soAllocCluster and the reference: the least of the free clusters.
LEMMA AllocDoes ==
  ASSUME NEW z \in Volumes, NEW i \in Inode, z.count[i] > 0, z.sb.cfree # {},
         NEW y, y = AllocCluster(z, i)
  PROVE  \E c \in Cluster : Allocates(y, z, i, c)
<1> DEFINE c == SomeOf(z.sb.cfree)
           s == [z.sb EXCEPT !.cfree = @ \ {c}]
           r == z.cache[i].refs \cup {c}
<1>1. z.sb.cfree \subseteq Cluster /\ z.cache[i] \in InodeType /\ Inodes(z)[i] = z.cache[i]
  BY DEF Volumes, Superblock, Inodes
<1>2. c \in z.sb.cfree /\ c \in Cluster
  BY <1>1, ExtremesAre, DealersAssumption
<1>3. y = MoveCluster(z, i, s, r)
  <2> DEFINE a == sbSave([z EXCEPT !.sb = s])
  <2>1. a.cache = z.cache
    BY DEF sbSave, Volumes
  <2>2. y = [a EXCEPT !.cache[i].refs = @ \cup {c}]
    BY DEF AllocCluster
  <2> HIDE DEF a, c
  <2>3. y = [a EXCEPT !.cache[i].refs = r]
    BY <2>1, <2>2
  <2>4. QED
    BY <2>3 DEF a, MoveCluster
<1> HIDE DEF c
<1>4. s \in Superblock /\ r \in SUBSET Cluster
  BY <1>1, <1>2 DEF Superblock, Volumes, InodeType
<1> DEFINE ss == s
           rr == r
<1> HIDE DEF ss, rr
<1>5. /\ ss \in Superblock /\ rr \in SUBSET Cluster
      /\ y = MoveCluster(z, i, ss, rr)
  BY <1>3, <1>4 DEF ss, rr
<1>6. /\ y \in Volumes /\ y.sb = ss /\ y.dsb = ss
      /\ y.disk = z.disk /\ y.dir = z.dir /\ y.count = z.count
      /\ Only(y, z, i) /\ Inodes(y)[i] = [Inodes(z)[i] EXCEPT !.refs = rr]
  BY ONLY <1>5, z \in Volumes, i \in Inode, z.count[i] > 0, MoveClusterDoes
<1>7. Allocates(y, z, i, c)
  BY <1>1, <1>2, <1>6 DEF Allocates, ss, rr
<1>8. QED
  BY <1>2, <1>7

\* soFreeCluster and the reference: the least of the file's.
LEMMA FreeDoes ==
  ASSUME NEW z \in Volumes, NEW i \in Inode, z.count[i] > 0, Inodes(z)[i].refs # {},
         NEW y, y = FreeCluster(z, i)
  PROVE  \E c \in Cluster : Releases(y, z, i, c)
<1> DEFINE c == SomeOf(z.cache[i].refs)
           s == [z.sb EXCEPT !.cfree = @ \cup {c}]
           r == z.cache[i].refs \ {c}
<1>1. z.sb.cfree \subseteq Cluster /\ z.cache[i] \in InodeType /\ Inodes(z)[i] = z.cache[i]
  BY DEF Volumes, Superblock, Inodes
<1>2. c \in z.cache[i].refs /\ c \in Cluster
  BY <1>1, ExtremesAre, DealersAssumption DEF InodeType
<1>3. y = MoveCluster(z, i, s, r)
  <2> DEFINE a == sbSave([z EXCEPT !.sb = s])
  <2>1. a.cache = z.cache
    BY DEF sbSave, Volumes
  <2>2. y = [a EXCEPT !.cache[i].refs = @ \ {c}]
    BY DEF FreeCluster
  <2> HIDE DEF a, c
  <2>3. y = [a EXCEPT !.cache[i].refs = r]
    BY <2>1, <2>2
  <2>4. QED
    BY <2>3 DEF a, MoveCluster
<1> HIDE DEF c
<1>4. s \in Superblock /\ r \in SUBSET Cluster
  BY <1>1, <1>2 DEF Superblock, Volumes, InodeType
<1> DEFINE ss == s
           rr == r
<1> HIDE DEF ss, rr
<1>5. /\ ss \in Superblock /\ rr \in SUBSET Cluster
      /\ y = MoveCluster(z, i, ss, rr)
  BY <1>3, <1>4 DEF ss, rr
<1>6. /\ y \in Volumes /\ y.sb = ss /\ y.dsb = ss
      /\ y.disk = z.disk /\ y.dir = z.dir /\ y.count = z.count
      /\ Only(y, z, i) /\ Inodes(y)[i] = [Inodes(z)[i] EXCEPT !.refs = rr]
  BY ONLY <1>5, z \in Volumes, i \in Inode, z.count[i] > 0, MoveClusterDoes
<1>7. Releases(y, z, i, c)
  BY <1>1, <1>2, <1>6 DEF Releases, ss, rr
<1>8. QED
  BY <1>2, <1>7

\* The directory has other entries and another size, in memory and, for the
\* entries, on the disk.
Resize(z, n, d) == [z EXCEPT !.dir = d, !.cache[Root].size = n]
Resized(y, z, n) ==
  /\ y \in Volumes /\ y.sb = z.sb /\ y.dsb = z.dsb /\ y.disk = z.disk /\ y.count = z.count
  /\ Only(y, z, Root) /\ Size(y) = n

\* The directory's cluster is written, and its size changed in memory.
LEMMA ResizeDoes ==
  ASSUME NEW z \in Volumes, z.count[Root] > 0, NEW n \in 0 .. DPC,
         NEW d \in [Slot -> Entry \cup {NoEntry}],
         NEW y, y = Resize(z, n, d)
  PROVE  Resized(y, z, n) /\ y.dir = d
<1> DEFINE a == [z EXCEPT !.dir = d]
           v == [z.cache[Root] EXCEPT !.size = n]
<1>1. /\ a \in Volumes /\ a.sb = z.sb /\ a.dsb = z.dsb /\ a.disk = z.disk /\ a.dir = d
      /\ a.count = z.count /\ a.cache = z.cache /\ Inodes(a) = Inodes(z)
  BY DEF Volumes, Inodes
<1>2. /\ Root \in Inode /\ z.cache[Root] \in InodeType
      /\ Inodes(z) \in [Inode -> InodeType]
  BY VolumeTypes DEF Volumes
<1>3. v \in InodeType /\ v.size = n
  BY <1>2 DEF InodeType
<1>4. y = [a EXCEPT !.cache = [a.cache EXCEPT ![Root] = v]]
  BY <1>1 DEF Resize
<1> HIDE DEF a, v
<1>5. /\ y \in Volumes /\ y.sb = a.sb /\ y.dsb = a.dsb /\ y.disk = a.disk /\ y.dir = a.dir
      /\ y.count = a.count /\ Inodes(y) = [Inodes(a) EXCEPT ![Root] = v]
  <2>1. a \in Volumes /\ a.count[Root] > 0
    BY <1>1
  <2>2. QED
    BY ONLY <1>2, <1>3, <1>4, <2>1, ChangeDoes
<1>6. Only(y, z, Root) /\ Inodes(y)[Root] = v
  BY <1>1, <1>2, <1>5 DEF Only
<1>7. QED
  BY <1>1, <1>3, <1>5, <1>6 DEF Resized, Size

\* soAddDirEntry, where there is room.
LEMMA AddDoes ==
  ASSUME NEW z \in Volumes, z.count[Root] > 0, Size(z) < DPC, NEW e \in Entry,
         NEW y, y = AddDirEntry(z, e)
  PROVE  Resized(y, z, Size(z) + 1) /\ y.dir = [z.dir EXCEPT ![Size(z)] = e]
<1> DEFINE d == [z.dir EXCEPT ![Size(z)] = e]
           n == Size(z) + 1
<1>1. Size(z) = z.cache[Root].size /\ Size(z) \in 0 .. DPC /\ DPC \in Nat
  <2>1. Size(z) \in 0 .. DPC /\ DPC \in Nat /\ Root \in Inode
    BY VolumeTypes
  <2>2. QED
    BY <2>1 DEF Size, Inodes
<1>2. n \in 0 .. DPC /\ Size(z) \in Slot
  BY <1>1 DEF Slot
<1>3. d \in [Slot -> Entry \cup {NoEntry}]
  BY <1>2 DEF Volumes
<1>4. y = Resize(z, n, d)
  BY <1>1 DEF AddDirEntry, Resize
<1> HIDE DEF d, n
<1>5. Resized(y, z, n) /\ y.dir = d
  BY ONLY <1>2, <1>3, <1>4, z \in Volumes, z.count[Root] > 0, ResizeDoes
<1>6. QED
  BY <1>5 DEF d, n

\* soDeleteDirEntry, of a name that is there, whatever the size says.
LEMMA DeleteDoes ==
  ASSUME NEW z \in Volumes, z.count[Root] > 0, Size(z) >= 1, NEW n, Holding(z, n) # {},
         NEW y, y = DeleteDirEntry(z, n)
  PROVE  /\ Resized(y, z, Size(z) - 1)
         /\ LET i == Least(Holding(z, n))
                last == Greatest({s \in Slot : z.dir[s] # NoEntry})
            IN  /\ i \in Holding(z, n) /\ last \in Slot /\ z.dir[last] # NoEntry
                /\ \A s \in Slot : z.dir[s] # NoEntry => s <= last
                /\ y.dir = IF i = DPC - 1 \/ z.dir[i + 1] = NoEntry
                           THEN [z.dir EXCEPT ![i] = NoEntry]
                           ELSE [z.dir EXCEPT ![i] = z.dir[last], ![last] = NoEntry]
<1> DEFINE i == Least(Holding(z, n))
           some == {s \in Slot : z.dir[s] # NoEntry}
           last == Greatest(some)
           alone == i = DPC - 1 \/ z.dir[i + 1] = NoEntry
           d == IF alone THEN [z.dir EXCEPT ![i] = NoEntry]
                ELSE [z.dir EXCEPT ![i] = z.dir[last], ![last] = NoEntry]
           m == Size(z) - 1
<1>1. Size(z) = z.cache[Root].size /\ Size(z) \in 0 .. DPC /\ DPC \in Nat
  <2>1. Size(z) \in 0 .. DPC /\ DPC \in Nat /\ Root \in Inode
    BY VolumeTypes
  <2>2. QED
    BY <2>1 DEF Size, Inodes
<1>2. m \in 0 .. DPC
  BY <1>1
<1>3. i \in Holding(z, n)
  BY ExtremesAre, <1>1 DEF Holding, Slot
<1>4. last \in some /\ \A s \in some : s <= last
  <2>1. some \in SUBSET Nat /\ some # {} /\ DPC \in Nat /\ \A s \in some : s <= DPC
    BY <1>1, <1>3 DEF Holding, Slot
  <2> HIDE DEF some
  <2>2. QED
    BY <2>1, ExtremesAre
<1>5. d \in [Slot -> Entry \cup {NoEntry}]
  BY <1>3, <1>4 DEF Holding, Volumes
<1>6. y = Resize(z, m, d)
  BY <1>1 DEF DeleteDirEntry, Resize
<1>7. Resized(y, z, m) /\ y.dir = d
  <2> HIDE DEF d, m
  <2>1. QED
    BY ONLY <1>2, <1>5, <1>6, z \in Volumes, z.count[Root] > 0, ResizeDoes
<1>8. QED
  BY <1>3, <1>4, <1>7

-----------------------------------------------------------------------------
(* The entries of a sound directory                                           *)

\* Its entries are those soGetDirEntry finds.
LEMMA ListedEntries ==
  ASSUME NEW z \in Volumes, Listed(z)
  PROVE  /\ \A s \in Slot : s < Size(z) => z.dir[s] \in Entry /\ z.dir[s] \in Entered(z)
         /\ \A e \in Entered(z) : \E s \in Slot : s < Size(z) /\ z.dir[s] = e
         /\ Entries(z) = Entered(z)
<1>1. \A s \in Slot : s < Size(z) => z.dir[s] \in Entry /\ z.dir[s] \in Entered(z)
  BY DEF Listed, Volumes, Entered
<1>2. \A e \in Entered(z) : \E s \in Slot : s < Size(z) /\ z.dir[s] = e
  BY DEF Listed, Entered
<1>3. Entries(z) = Entered(z)
  BY DEF Entries, Visible, Entered, Listed, Size
<1>4. QED
  BY <1>1, <1>2, <1>3

\* Of two entries neither the names nor the inodes are the same.
LEMMA ListedOnce ==
  ASSUME NEW z \in Volumes, Listed(z), NEW e \in Entered(z), NEW f \in Entered(z), e # f
  PROVE  e.name # f.name /\ e.in # f.in
BY ListedEntries DEF Listed

\* An entry is added behind the others.
LEMMA AddListed ==
  ASSUME NEW z \in Volumes, Listed(z), Size(z) < DPC, NEW e \in Entry,
         e.name \notin Used(z), e.in \notin Linked(z),
         NEW y \in Volumes, Size(y) = Size(z) + 1, y.dir = [z.dir EXCEPT ![Size(z)] = e]
  PROVE  /\ Listed(y) /\ Entered(y) = Entered(z) \cup {e}
         /\ Linked(y) = Linked(z) \cup {e.in} /\ Used(y) = Used(z) \cup {e.name}
<1>1. Size(z) \in 0 .. DPC /\ DPC \in Nat /\ NoEntry \notin Entry
  BY VolumeTypes
<1>2. Size(z) \in Slot /\ z.dir \in [Slot -> Entry \cup {NoEntry}]
  BY <1>1 DEF Slot, Volumes
<1>3. /\ \A s \in Slot : y.dir[s] = IF s = Size(z) THEN e ELSE z.dir[s]
      /\ \A s \in Slot : s < Size(y) <=> s < Size(z) \/ s = Size(z)
  BY <1>1, <1>2 DEF Slot
<1>4. Entered(y) = Entered(z) \cup {e}
  <2>1. ASSUME NEW f \in Entered(y) PROVE f \in Entered(z) \cup {e}
    BY <1>3 DEF Entered
  <2>2. e \in Entered(y)
    BY <1>1, <1>2, <1>3 DEF Entered
  <2>3. ASSUME NEW f \in Entered(z) PROVE f \in Entered(y)
    <3>1. PICK s \in Slot : s < Size(z) /\ z.dir[s] = f
      BY ListedEntries
    <3>2. s # Size(z)
      BY <1>1, <3>1
    <3>3. QED
      BY <1>3, <3>1, <3>2 DEF Entered
  <2>4. QED
    BY <2>1, <2>2, <2>3
<1>5. Linked(y) = Linked(z) \cup {e.in} /\ Used(y) = Used(z) \cup {e.name}
  BY <1>4 DEF Linked, Used
<1>6. Listed(y)
  <2>1. \A s \in Slot : y.dir[s] # NoEntry <=> s < Size(y)
    BY <1>1, <1>3 DEF Listed
  <2>2. \A s \in Slot : s < Size(z) => z.dir[s].name # e.name /\ z.dir[s].in # e.in
    BY ListedEntries DEF Used, Linked
  <2>3. ASSUME NEW s \in Slot, NEW t \in Slot, s < Size(y), t < Size(y), s # t
        PROVE  y.dir[s].name # y.dir[t].name /\ y.dir[s].in # y.dir[t].in
    <3>1. CASE s = Size(z)
      BY <1>3, <2>2, <2>3, <3>1
    <3>2. CASE t = Size(z)
      BY <1>3, <2>2, <2>3, <3>2
    <3>3. CASE s # Size(z) /\ t # Size(z)
      BY <1>3, <2>3, <3>3 DEF Listed
    <3>4. QED
      BY <3>1, <3>2, <3>3
  <2>4. QED
    BY <2>1, <2>3 DEF Listed
<1>7. QED
  BY <1>4, <1>5, <1>6

\* An entry is deleted, and the last takes its place.
LEMMA DeleteListed ==
  ASSUME NEW z \in Volumes, z.count[Root] > 0, Listed(z), NEW e \in Entered(z),
         NEW y, y = DeleteDirEntry(z, e.name)
  PROVE  /\ Resized(y, z, Size(z) - 1) /\ Size(z) >= 1
         /\ Listed(y) /\ Entered(y) = Entered(z) \ {e}
         /\ Linked(y) = Linked(z) \ {e.in} /\ Used(y) = Used(z) \ {e.name}
<1> DEFINE i == Least(Holding(z, e.name))
           last == Greatest({s \in Slot : z.dir[s] # NoEntry})
<1>1. Size(z) \in 0 .. DPC /\ DPC \in Nat /\ NoEntry \notin Entry /\ e \in Entry /\ e # NoEntry
  BY VolumeTypes
<1>2. PICK t \in Slot : t < Size(z) /\ z.dir[t] = e
  BY ListedEntries
<1>3. Size(z) >= 1 /\ Holding(z, e.name) # {}
  BY <1>1, <1>2 DEF Slot, Holding
<1>4. /\ Resized(y, z, Size(z) - 1)
      /\ i \in Holding(z, e.name) /\ last \in Slot /\ z.dir[last] # NoEntry
      /\ \A s \in Slot : z.dir[s] # NoEntry => s <= last
      /\ y.dir = IF i = DPC - 1 \/ z.dir[i + 1] = NoEntry
                 THEN [z.dir EXCEPT ![i] = NoEntry]
                 ELSE [z.dir EXCEPT ![i] = z.dir[last], ![last] = NoEntry]
  BY <1>3, DeleteDoes
<1> HIDE DEF i, last
<1>5. i \in Slot /\ i < Size(z) /\ z.dir[i] = e
  BY <1>2, <1>4 DEF Holding, Listed
<1>6. last = Size(z) - 1
  <2>1. Size(z) - 1 \in Slot /\ Size(z) - 1 < Size(z)
    BY <1>1, <1>3 DEF Slot
  <2>2. Size(z) - 1 <= last /\ last < Size(z)
    BY <1>4, <2>1 DEF Listed
  <2>3. QED
    BY <1>1, <1>4, <2>2 DEF Slot
<1>7. i <= last
  BY <1>1, <1>4, <1>5
<1>8. i = DPC - 1 \/ z.dir[i + 1] = NoEntry => i = last
  <2>1. ASSUME i < last PROVE i + 1 \in Slot /\ i + 1 < Size(z) /\ i # DPC - 1
    BY <1>1, <1>4, <1>5, <1>6, <2>1 DEF Slot
  <2>2. ASSUME i < last PROVE z.dir[i + 1] # NoEntry
    BY <2>1, <2>2 DEF Listed
  <2>3. QED
    BY <1>4, <1>5, <1>7, <2>1, <2>2 DEF Slot
<1>9. z.dir \in [Slot -> Entry \cup {NoEntry}]
  BY DEF Volumes
<1>10. \A s \in Slot : y.dir[s] = IF s = last THEN NoEntry ELSE IF s = i THEN z.dir[last] ELSE z.dir[s]
  BY <1>4, <1>5, <1>8, <1>9
<1>11. Size(y) = Size(z) - 1 /\ y \in Volumes
  BY <1>4 DEF Resized
<1>12. \A s \in Slot : s < Size(y) <=> s < Size(z) /\ s # last
  BY <1>1, <1>6, <1>11 DEF Slot
<1>13. last \in Slot /\ last < Size(z)
  BY <1>1, <1>4, <1>6
<1>14. Listed(y)
  <2>1. \A s \in Slot : y.dir[s] # NoEntry <=> s < Size(y)
    BY <1>4, <1>5, <1>10, <1>12 DEF Listed
  <2>2. ASSUME NEW s \in Slot, NEW r \in Slot, s < Size(y), r < Size(y), s # r
        PROVE  y.dir[s].name # y.dir[r].name /\ y.dir[s].in # y.dir[r].in
    <3>1. s < Size(z) /\ r < Size(z) /\ s # last /\ r # last
      BY <1>12, <2>2
    <3>2. CASE s = i
      BY <1>10, <1>13, <2>2, <3>1, <3>2 DEF Listed
    <3>3. CASE r = i
      BY <1>10, <1>13, <2>2, <3>1, <3>3 DEF Listed
    <3>4. CASE s # i /\ r # i
      BY <1>10, <2>2, <3>1, <3>4 DEF Listed
    <3>5. QED
      BY <3>2, <3>3, <3>4
  <2>3. QED
    BY <2>1, <2>2 DEF Listed
<1>15. Entered(y) = Entered(z) \ {e}
  <2>1. ASSUME NEW f \in Entered(y) PROVE f \in Entered(z) \ {e}
    <3>1. PICK s \in Slot : y.dir[s] = f /\ f # NoEntry
      BY DEF Entered
    <3>2. s # last
      BY <1>10, <3>1
    <3>3. CASE s = i
      <4>1. f = z.dir[last] /\ last # i
        BY <1>10, <3>1, <3>2, <3>3
      <4>2. z.dir[last].name # z.dir[i].name
        BY <1>5, <1>13, <4>1 DEF Listed
      <4>3. QED
        BY <1>4, <1>5, <4>1, <4>2 DEF Entered
    <3>4. CASE s # i
      <4>1. f = z.dir[s]
        BY <1>10, <3>1, <3>2, <3>4
      <4>2. s < Size(z)
        BY <3>1, <4>1 DEF Listed
      <4>3. z.dir[s].name # z.dir[i].name
        BY <1>5, <3>4, <4>2 DEF Listed
      <4>4. QED
        BY <1>5, <3>1, <4>1, <4>3 DEF Entered
    <3>5. QED
      BY <3>3, <3>4
  <2>2. ASSUME NEW f \in Entered(z) \ {e} PROVE f \in Entered(y)
    <3>1. PICK s \in Slot : s < Size(z) /\ z.dir[s] = f /\ f # NoEntry
      BY ListedEntries DEF Entered
    <3>2. s # i
      BY <1>5, <2>2, <3>1
    <3>3. CASE s = last
      <4>1. y.dir[i] = f
        BY <1>5, <1>10, <3>1, <3>2, <3>3
      <4>2. QED
        BY <1>5, <3>1, <4>1 DEF Entered
    <3>4. CASE s # last
      <4>1. y.dir[s] = f
        BY <1>10, <3>1, <3>2, <3>4
      <4>2. QED
        BY <3>1, <4>1 DEF Entered
    <3>5. QED
      BY <3>3, <3>4
  <2>3. QED
    BY <2>1, <2>2
<1>16. Linked(y) = Linked(z) \ {e.in} /\ Used(y) = Used(z) \ {e.name}
  <2>1. \A f \in Entered(z) \ {e} : f.in # e.in /\ f.name # e.name
    BY ListedOnce
  <2>2. QED
    BY <1>15, <2>1 DEF Linked, Used
<1>17. QED
  BY <1>3, <1>4, <1>14, <1>15, <1>16

-----------------------------------------------------------------------------
(* What holds of a volume all along, and the operations                       *)

\* An operation by its name.
LEMMA DoIs ==
  ASSUME NEW z, NEW i, NEW n
  PROVE  /\ Do(z, Op("open", i)) = iOpen(z, i)
         /\ Do(z, Op("save", i)) = iSave(z, i)
         /\ Do(z, Op("close", i)) = iClose(z, i)
         /\ Do(z, Op("inc", i)) = iIncRefcount(z, i)
         /\ Do(z, Op("dec", i)) = iDecRefcount(z, i)
         /\ Do(z, Op("sbsave", i)) = sbSave(z)
         /\ Do(z, Op("take", i)) = TakeInode(z, i)
         /\ Do(z, Op("give", i)) = GiveInode(z, i)
         /\ Do(z, Op("alloc", i)) = AllocCluster(z, i)
         /\ Do(z, Op("free", i)) = FreeCluster(z, i)
         /\ Do(z, Named("add", n, i)) = AddDirEntry(z, [name |-> n, in |-> i])
         /\ Do(z, Named("delete", n, i)) = DeleteDirEntry(z, n)
BY DEF Do, Op, Named

\* Whether an operation throws.
LEMMA ThrowsIs ==
  ASSUME NEW z, NEW i, NEW n
  PROVE  /\ \A do \in {"open", "sbsave", "give", "free"} : ~ Throws(z, Op(do, i))
         /\ \A do \in {"save", "close", "inc", "dec"} : Throws(z, Op(do, i)) <=> z.count[i] = 0
         /\ Throws(z, Op("take", i)) <=> z.sb.ifree = {}
         /\ Throws(z, Op("alloc", i)) <=> z.sb.cfree = {}
         /\ Throws(z, Named("add", n, i)) <=>
              z.cache[Root].size >= DPC \/ \E e \in Entries(z) : e.name = n
         /\ Throws(z, Named("delete", n, i)) <=> Holding(z, n) = {}
BY DEF Throws, Op, Named, NotOpen

\* A volume of which nothing but the handles changes stays as it was.
LEMMA FitSame ==
  ASSUME NEW st, NEW to, NEW tr, NEW z, Fit(z, st, to, tr), NEW y, Same(y, z)
  PROVE  Fit(y, st, to, tr)
<1>1. Entered(y) = Entered(z) /\ Linked(y) = Linked(z) /\ Size(y) = Size(z)
  BY DEF Same, Entered, Linked, Size
<1>2. Sound(z) => Sound(y)
  BY <1>1 DEF Same, Sound, Listed, Taken
<1>3. Unshared(z) => Unshared(y)
  BY <1>1 DEF Same, Unshared, Private, Alone
<1>4. \A i : Adds(z, i) => Adds(y, i)
  BY DEF Same, Adds
<1>5. QED
  BY <1>1, <1>2, <1>3, <1>4 DEF Same, Fit

\* Saving an inode.
LEMMA FitSave ==
  ASSUME NEW st, NEW to, NEW tr, NEW z, Fit(z, st, to, tr), NEW i \in Inode,
         NEW y \in Volumes, y.sb = z.sb, y.dsb = z.dsb, y.dir = z.dir, Inodes(y) = Inodes(z),
         y.disk = [z.disk EXCEPT ![i] = Inodes(z)[i]]
  PROVE  Fit(y, st, to, tr)
<1>1. Entered(y) = Entered(z) /\ Linked(y) = Linked(z) /\ Size(y) = Size(z)
  BY DEF Entered, Linked, Size
<1>2. z \in Volumes /\ z.disk \in [Inode -> InodeType]
  BY DEF Fit, Volumes
<1>3. Linked(z) \subseteq Inode
  BY <1>2, VolumeTypes
<1>4. \A j \in Inode : y.disk[j] = IF j = i THEN Inodes(z)[i] ELSE z.disk[j]
  BY <1>2
<1>5. Sound(z) => Sound(y)
  BY <1>1, <1>3, <1>4 DEF Sound, Listed, Taken
<1>6. Unshared(z) => Unshared(y)
  BY <1>1 DEF Unshared, Private, Alone
<1>7. \A j \in Linked(z) : Adds(z, j) => Adds(y, j)
  BY <1>3, <1>4 DEF Adds
<1>8. QED
  BY <1>1, <1>5, <1>6, <1>7 DEF Fit

\* Saving the superblock.
LEMMA FitSuper ==
  ASSUME NEW st, NEW to, NEW tr, NEW z, Fit(z, st, to, tr),
         NEW y \in Volumes, y.sb = z.sb, y.dsb = z.sb, y.dir = z.dir, Inodes(y) = Inodes(z),
         y.disk = z.disk
  PROVE  Fit(y, st, to, tr)
<1>1. Entered(y) = Entered(z) /\ Linked(y) = Linked(z) /\ Size(y) = Size(z)
  BY DEF Entered, Linked, Size
<1>2. Sound(z) => Sound(y)
  BY <1>1 DEF Sound, Listed, Taken
<1>3. Unshared(z) => Unshared(y)
  BY <1>1 DEF Unshared, Private, Alone
<1>4. \A i : Adds(z, i) => Adds(y, i)
  BY DEF Adds
<1>5. QED
  BY <1>1, <1>2, <1>3, <1>4 DEF Fit

\* Counting the names of a file.
LEMMA FitCounts ==
  ASSUME NEW st, NEW to, NEW tr, NEW z, Fit(z, st, to, tr), NEW i \in File,
         NEW y, Counts(y, z, i)
  PROVE  Fit(y, st, to, tr)
<1>1. z \in Volumes /\ Root \in Inode \ {i}
  BY DealersAssumption DEF Fit, File
<1>2. /\ Linked(z) \subseteq Inode
      /\ \A j \in Inode : /\ Inodes(y)[j].free = Inodes(z)[j].free
                          /\ Inodes(y)[j].refs = Inodes(z)[j].refs
  BY <1>1, VolumeTypes DEF Counts, Only
<1>3. Entered(y) = Entered(z) /\ Linked(y) = Linked(z) /\ Size(y) = Size(z)
  BY <1>1 DEF Entered, Linked, Size, Counts, Only
<1>4. Sound(z) => Sound(y)
  BY <1>2, <1>3 DEF Counts, Sound, Listed, Taken
<1>5. Unshared(z) => Unshared(y)
  BY <1>2, <1>3 DEF Counts, Unshared, Private, Alone
<1>6. \A j \in Linked(z) : Adds(z, j) => Adds(y, j)
  BY <1>2 DEF Counts, Adds
<1>7. QED
  BY <1>3, <1>4, <1>5, <1>6 DEF Counts, Fit

\* Taking a free inode, and giving back one that has no name any more.
LEMMA FitTake ==
  ASSUME NEW st, NEW to, NEW tr, NEW z, Fit(z, st, to, tr), NEW i \in File,
         ~ st => i \notin Linked(z), NEW v \in InodeType,
         NEW y \in Volumes, y.sb.cfree = z.sb.cfree,
         \A j \in File \ {i} : j \in y.sb.ifree <=> j \in z.sb.ifree,
         y.dsb = z.dsb, y.disk = z.disk, y.dir = z.dir,
         Inodes(y) = [Inodes(z) EXCEPT ![i] = v]
  PROVE  Fit(y, st, to, tr)
<1>1. z \in Volumes /\ Root \in Inode \ {i}
  BY DealersAssumption DEF Fit, File
<1>2. /\ Linked(z) \subseteq File /\ File \subseteq Inode
      /\ \A j \in Inode \ {i} : Inodes(y)[j] = Inodes(z)[j]
  BY <1>1, VolumeTypes
<1>3. Entered(y) = Entered(z) /\ Linked(y) = Linked(z) /\ Size(y) = Size(z)
  BY <1>1, <1>2 DEF Entered, Linked, Size
<1>4. ~ st /\ Sound(z) => Sound(y)
  BY <1>2, <1>3 DEF Sound, Listed, Taken
<1>5. ~ st /\ Unshared(z) => Unshared(y)
  BY <1>2, <1>3 DEF Unshared, Private, Alone
<1>6. ~ st => \A j \in Linked(z) : Adds(z, j) => Adds(y, j)
  BY <1>2 DEF Adds
<1>7. QED
  BY <1>3, <1>4, <1>5, <1>6 DEF Fit

\* Allocating a cluster.
LEMMA FitAlloc ==
  ASSUME NEW st, NEW to, NEW tr, NEW z, Fit(z, st, to, tr), NEW i \in File,
         NEW y, NEW c, Allocates(y, z, i, c)
  PROVE  Fit(y, st, to, tr)
<1>1. z \in Volumes /\ Root \in Inode \ {i}
  BY DealersAssumption DEF Fit, File
<1>2. /\ Linked(z) \subseteq Inode
      /\ \A j \in Inode \ {i} : Inodes(y)[j] = Inodes(z)[j]
      /\ Inodes(z)[i] \in InodeType
  BY <1>1, VolumeTypes DEF Allocates, Only
<1>3. /\ Inodes(y)[i].refs = Inodes(z)[i].refs \cup {c}
      /\ Inodes(y)[i].free = Inodes(z)[i].free
  BY <1>2 DEF Allocates, InodeType
<1>4. y.sb.cfree = z.sb.cfree \ {c} /\ y.sb.ifree = z.sb.ifree /\ y.dsb = y.sb /\ c \in z.sb.cfree
  BY <1>1 DEF Allocates, Volumes, Superblock
<1>5. Entered(y) = Entered(z) /\ Linked(y) = Linked(z) /\ Size(y) = Size(z)
  BY <1>1, <1>2 DEF Entered, Linked, Size, Allocates
<1>6. Sound(z) => Sound(y)
  <2>1. /\ y.dir = z.dir /\ y.disk = z.disk /\ y.dsb.ifree = z.sb.ifree
        /\ \A j \in Linked(z) : Inodes(y)[j].free = Inodes(z)[j].free
    BY <1>2, <1>3, <1>4 DEF Allocates
  <2>2. QED
    BY <1>4, <1>5, <2>1 DEF Sound, Listed, Taken
<1>7. Unshared(z) => Unshared(y)
  BY <1>2, <1>3, <1>4, <1>5 DEF Unshared, Private, Alone
<1>8. \A j \in Linked(z) : Adds(z, j) => Adds(y, j)
  BY <1>2, <1>3 DEF Allocates, Adds
<1>9. QED
  BY <1>4, <1>5, <1>6, <1>7, <1>8 DEF Allocates, Fit

\* Freeing a cluster of a file that soTruncate shortens or that has no name any
\* more.
LEMMA FitRelease ==
  ASSUME NEW st, NEW to, NEW tr, NEW z, Fit(z, st, to, tr), NEW i \in File,
         NEW y, NEW c, Releases(y, z, i, c),
         ~ st => \/ i \in Linked(z) /\ tr
                 \/ i \notin Linked(z) /\ (~ to => Alone(z, i))
  PROVE  Fit(y, st, to, tr)
<1>1. z \in Volumes /\ Root \in Inode \ {i}
  BY DealersAssumption DEF Fit, File
<1>2. /\ Linked(z) \subseteq Inode
      /\ \A j \in Inode \ {i} : Inodes(y)[j] = Inodes(z)[j]
      /\ Inodes(z)[i] \in InodeType
  BY <1>1, VolumeTypes DEF Releases, Only
<1>3. /\ Inodes(y)[i].refs = Inodes(z)[i].refs \ {c}
      /\ Inodes(y)[i].free = Inodes(z)[i].free
  BY <1>2 DEF Releases, InodeType
<1>4. /\ y.sb.cfree = z.sb.cfree \cup {c} /\ y.sb.ifree = z.sb.ifree /\ y.dsb = y.sb
      /\ c \in Inodes(z)[i].refs
  BY <1>1 DEF Releases, Volumes, Superblock
<1>5. Entered(y) = Entered(z) /\ Linked(y) = Linked(z) /\ Size(y) = Size(z)
  BY <1>1, <1>2 DEF Entered, Linked, Size, Releases
<1>6. Sound(z) => Sound(y)
  <2>1. /\ y.dir = z.dir /\ y.disk = z.disk /\ y.dsb.ifree = z.sb.ifree
        /\ \A j \in Linked(z) : Inodes(y)[j].free = Inodes(z)[j].free
    BY <1>2, <1>3, <1>4 DEF Releases
  <2>2. QED
    BY <1>4, <1>5, <2>1 DEF Sound, Listed, Taken
<1>7. ASSUME ~ st, ~ to PROVE Unshared(y)
  <2>1. Unshared(z) /\ Alone(z, i)
    BY <1>7 DEF Fit, Unshared, Private
  <2>2. ASSUME NEW j \in Linked(z) PROVE Private(y, j)
    <3>1. CASE j = i
      BY <1>2, <1>3, <1>4, <1>5, <2>1, <3>1 DEF Unshared, Private, Alone
    <3>2. CASE j # i
      BY <1>2, <1>3, <1>4, <1>5, <2>1, <3>2 DEF Unshared, Private, Alone
    <3>3. QED
      BY <3>1, <3>2
  <2>3. QED
    BY <1>5, <2>2 DEF Unshared
<1>8. ~ st /\ ~ tr => \A j \in Linked(z) : Adds(z, j) => Adds(y, j)
  BY <1>2, <1>3 DEF Releases, Adds
<1>9. QED
  BY <1>4, <1>5, <1>6, <1>7, <1>8 DEF Releases, Fit

\* Adding an entry.
LEMMA FitAdd ==
  ASSUME NEW st, NEW to, NEW tr, NEW z, Fit(z, st, to, tr), NEW e \in Entry, Size(z) < DPC,
         NEW y, Resized(y, z, Size(z) + 1), y.dir = [z.dir EXCEPT ![Size(z)] = e],
         ~ st => e.name \notin Used(z) /\ e.in \notin Linked(z) /\ Taken(z, e.in) /\ Adds(z, e.in),
         ~ st /\ ~ to => Private(z, e.in)
  PROVE  Fit(y, st, to, tr)
<1>1. z \in Volumes /\ y \in Volumes
  BY DEF Fit, Resized
<1>2. /\ Linked(z) \cup {e.in} \subseteq File
      /\ \A j \in File : Inodes(y)[j] = Inodes(z)[j]
      /\ Size(y) = Size(z) + 1
  BY <1>1, VolumeTypes DEF Resized, Only, Entry
<1>3. ASSUME ~ st
      PROVE  /\ Listed(y)
             /\ Linked(y) = Linked(z) \cup {e.in}
  BY <1>1, <1>2, <1>3, AddListed DEF Fit, Sound
<1>4. ASSUME ~ st PROVE Sound(y)
  BY <1>2, <1>3, <1>4 DEF Resized, Fit, Sound, Taken
<1>5. ASSUME ~ st, ~ to PROVE Unshared(y)
  <2>1. Unshared(z) /\ Private(z, e.in) /\ Linked(y) = Linked(z) \cup {e.in}
    BY <1>3, <1>5 DEF Fit
  <2>2. ASSUME NEW j \in Linked(y) PROVE Private(y, j)
    <3>1. CASE j = e.in
      BY <1>2, <2>1, <3>1 DEF Resized, Unshared, Private, Alone
    <3>2. CASE j # e.in
      BY <1>2, <2>1, <3>2 DEF Resized, Unshared, Private, Alone
    <3>3. QED
      BY <3>1, <3>2
  <2>3. QED
    BY <2>2 DEF Unshared
<1>6. ASSUME ~ st, ~ tr PROVE \A j \in Linked(y) : Adds(y, j)
  BY <1>2, <1>3, <1>6 DEF Resized, Fit, Adds
<1>7. QED
  BY <1>4, <1>5, <1>6 DEF Resized, Fit

\* Deleting one.
LEMMA FitDelete ==
  ASSUME NEW st, NEW to, NEW tr, NEW z, Fit(z, st, to, tr), z.count[Root] > 0, Size(z) >= 1,
         NEW n, Holding(z, n) # {},
         ~ st => \E e \in Entered(z) : e.name = n,
         NEW y, y = DeleteDirEntry(z, n)
  PROVE  Fit(y, st, to, tr)
<1>1. z \in Volumes /\ Resized(y, z, Size(z) - 1)
  BY DeleteDoes DEF Fit
<1>2. /\ Linked(z) \subseteq File
      /\ \A j \in File : Inodes(y)[j] = Inodes(z)[j]
  BY <1>1, VolumeTypes DEF Resized, Only
<1>3. ASSUME ~ st PROVE Listed(y) /\ Linked(y) \subseteq Linked(z)
  <2>1. PICK e \in Entered(z) : e.name = n
    BY <1>3
  <2>2. QED
    BY <1>1, <1>3, <2>1, DeleteListed DEF Fit, Sound
<1>4. ASSUME ~ st PROVE Sound(y)
  BY <1>1, <1>2, <1>3, <1>4 DEF Resized, Fit, Sound, Taken
<1>5. ASSUME ~ st, ~ to PROVE Unshared(y)
  BY <1>1, <1>2, <1>3, <1>5 DEF Resized, Fit, Unshared, Private, Alone
<1>6. ASSUME ~ st, ~ tr PROVE \A j \in Linked(y) : Adds(y, j)
  BY <1>1, <1>2, <1>3, <1>6 DEF Resized, Fit, Adds
<1>7. QED
  BY <1>1, <1>4, <1>5, <1>6 DEF Resized, Fit

\* The volume mounted again: what was not saved is gone, and was nothing of the
\* directory, nor of the clusters a file has given back.
LEMMA FitMount ==
  ASSUME NEW st, NEW to, NEW z, NEW cut, Fit(z, st, to, cut),
         ~ st => Saved(z, Root),
         ~ st /\ ~ to /\ cut => \A i \in Linked(z) : Saved(z, i),
         NEW y, y = Mounted(z)
  PROVE  /\ Fit(y, st, to, FALSE) /\ y.sb = y.dsb
         /\ \A i \in Inode : Saved(y, i) /\ Adds(y, i)
<1>1. z \in Volumes /\ z.sb.cfree = z.dsb.cfree
  BY DEF Fit
<1>2. /\ y \in Volumes /\ y.sb = z.dsb /\ y.dsb = z.dsb /\ y.disk = z.disk /\ y.dir = z.dir
      /\ Inodes(y) = z.disk
  BY <1>1, MountDoes
<1>3. Root \in Inode /\ Linked(z) \subseteq Inode
  BY <1>1, VolumeTypes
<1>4. Entered(y) = Entered(z) /\ Linked(y) = Linked(z)
  BY <1>2 DEF Entered, Linked
<1>5. ASSUME ~ st PROVE Sound(y)
  <2>1. Size(y) = Size(z)
    BY <1>2, <1>5 DEF Size, Saved
  <2>2. QED
    BY <1>2, <1>4, <1>5, <2>1 DEF Fit, Sound, Listed, Taken
<1>6. ASSUME ~ st, ~ to PROVE Unshared(y)
  <2>1. \A i \in Linked(z) : Adds(z, i)
    BY <1>6 DEF Fit, Saved, Adds
  <2>2. Unshared(z)
    BY <1>6 DEF Fit
  <2>3. QED
    BY <1>1, <1>2, <1>4, <2>1, <2>2 DEF Unshared, Private, Alone, Adds
<1>7. \A i \in Inode : Saved(y, i) /\ Adds(y, i)
  BY <1>2 DEF Saved, Adds
<1>8. QED
  BY <1>2, <1>3, <1>4, <1>5, <1>6, <1>7 DEF Fit

-----------------------------------------------------------------------------
(* Every operation of a call leaves what the next one relies on              *)

\* A call that has anything to do is not done.
LEMMA NotDone ==
  ASSUME NEW in \in File, NEW n \in Name, NEW new \in Name
  PROVE  /\ CloseRoot # <<>> /\ SaveRoot # <<>>
         /\ \A t \in {<<>>, SaveRoot} : Close(in, t) # <<>> /\ Save(in, t) # <<>>
         /\ Counted(in) # <<>> /\ LinkAdd(n, in) # <<>> /\ LinkAlloc(n, in) # <<>>
         /\ <<>> \notin Makes(n, in)
         /\ \A t \in Makes(n, in) :
              /\ MadeSave(in, t) # <<>> /\ MadeOpen(in, t) # <<>> /\ TookClose(in, t) # <<>>
              /\ TookSuper(in, t) # <<>> /\ TookSave(in, t) # <<>> /\ Take(in, t) # <<>>
              /\ Make(in, t) # <<>>
         /\ GaveClose(in) # <<>> /\ GaveSuper(in) # <<>> /\ GaveSave(in) # <<>> /\ Give(in) # <<>>
         /\ \A k \in Nat :
              /\ UnlinkDelete(n, in, k) # <<>> /\ UnlinkDec(n, in, k) # <<>>
              /\ UnlinkOpen(n, in, k) # <<>> /\ UnlinkRoot(n, in, k) # <<>>
              /\ Allocs(k, in) # <<>>
              /\ Frees(k, in, Give(in)) # <<>> /\ Frees(k, in, Save(in, <<>>)) # <<>>
              /\ Then(Op("open", in), Allocs(k, in)) # <<>>
              /\ Then(Op("open", in), Frees(k, in, Save(in, <<>>))) # <<>>
         /\ CloseOnce(in) # <<>> /\ CloseTwice(in) # <<>> /\ MovedSave(in) # <<>>
         /\ RootTwice(in) # <<>> /\ RootOnce(in) # <<>> /\ MovedOpen(in) # <<>>
         /\ MoveAdd(new, in) # <<>> /\ <<>> \notin Moves(n, new, in)
         /\ \A t \in Moves(n, new, in) : MoveAgain(t) # <<>> /\ MoveRoot(t) # <<>>
<1>1. /\ CloseRoot # <<>> /\ SaveRoot # <<>>
      /\ \A t \in {<<>>, SaveRoot} : Close(in, t) # <<>> /\ Save(in, t) # <<>>
      /\ Counted(in) # <<>> /\ LinkAdd(n, in) # <<>> /\ LinkAlloc(n, in) # <<>>
      /\ NodeAdd(n, in) # <<>> /\ LinkCount(n, in) # <<>>
  BY Heads DEF Goes
<1>2. \A t \in Makes(n, in) :
        /\ MadeSave(in, t) # <<>> /\ MadeOpen(in, t) # <<>> /\ TookClose(in, t) # <<>>
        /\ TookSuper(in, t) # <<>> /\ TookSave(in, t) # <<>> /\ Take(in, t) # <<>>
        /\ Make(in, t) # <<>>
  BY Heads DEF Goes
<1>3. /\ GaveClose(in) # <<>> /\ GaveSuper(in) # <<>> /\ GaveSave(in) # <<>> /\ Give(in) # <<>>
      /\ CloseOnce(in) # <<>> /\ CloseTwice(in) # <<>> /\ MovedSave(in) # <<>>
      /\ RootTwice(in) # <<>> /\ RootOnce(in) # <<>> /\ MovedOpen(in) # <<>>
      /\ MoveAdd(new, in) # <<>> /\ MoveDelete(n, new, in) # <<>> /\ MoveOver(n, new, in) # <<>>
  BY MoreHeads DEF Goes
<1>4. \A t \in Moves(n, new, in) : MoveAgain(t) # <<>> /\ MoveRoot(t) # <<>>
  BY MoreHeads DEF Goes
<1>5. \A k \in Nat :
        /\ UnlinkDelete(n, in, k) # <<>> /\ UnlinkDec(n, in, k) # <<>>
        /\ UnlinkOpen(n, in, k) # <<>> /\ UnlinkRoot(n, in, k) # <<>>
        /\ Then(Op("open", in), Allocs(k, in)) # <<>>
        /\ Then(Op("open", in), Frees(k, in, Save(in, <<>>))) # <<>>
  BY MoreHeads DEF Goes
<1>6. ASSUME NEW k \in Nat
      PROVE  /\ Allocs(k, in) # <<>>
             /\ Frees(k, in, Give(in)) # <<>> /\ Frees(k, in, Save(in, <<>>)) # <<>>
  <2>1. CASE k = 0
    BY <1>1, <1>3, <2>1, MoreHeads
  <2>2. CASE k # 0
    <3>1. k - 1 \in Nat /\ (k - 1) + 1 = k
      BY <2>2
    <3>2. /\ Goes(Allocs((k - 1) + 1, in), Op("alloc", in), Allocs(k - 1, in))
          /\ \A t \in {Give(in), Save(in, <<>>)} :
               Goes(Frees((k - 1) + 1, in, t), Op("free", in), Frees(k - 1, in, t))
      BY <3>1, MoreHeads
    <3>3. QED
      BY <3>1, <3>2 DEF Goes
  <2>3. QED
    BY <2>1, <2>2
<1>7. QED
  BY <1>1, <1>2, <1>3, <1>4, <1>5, <1>6 DEF Makes, Moves

\* The call goes on with t.
Goon(t) ==
  /\ vol \in Volumes /\ vol' \in Volumes
  /\ todo' = t /\ call' = IF t = <<>> THEN "none" ELSE call
  /\ stale' = stale /\ torn' = torn
  /\ Fit(vol', stale, torn, call = "truncate")

\* What is to be shown of a step.
LEMMA Going ==
  ASSUME IInv, Step, NEW t, Goon(t), t = <<>> => Idle', t # <<>> => Running'
  PROVE  IInv'
<1>1. torn \in BOOLEAN /\ stale \in BOOLEAN /\ call # "none"
  BY DEF IInv, Step
<1>2. CASE t = <<>>
  <2>1. \A i \in File : Adds(vol', i)
    BY <1>2 DEF Idle, All
  <2>2. Linked(vol') \subseteq File
    BY VolumeTypes DEF Goon
  <2>3. Fit(vol', stale', torn', call' = "truncate")
    BY <1>2, <2>1, <2>2 DEF Goon, Fit
  <2>4. QED
    BY <1>1, <1>2, <2>3 DEF IInv, Goon
<1>3. CASE t # <<>>
  BY <1>1, <1>3 DEF IInv, Goon
<1>4. QED
  BY <1>2, <1>3

\* What a step does, and what it leaves to be shown.
LEMMA Doing ==
  ASSUME IInv, Step, NEW op, NEW t, Goes(todo, op, t)
  PROVE  /\ vol' = Do(vol, op) /\ ~ Throws(vol, op)
         /\ vol \in Volumes /\ Fit(vol, stale, torn, call = "truncate")
         /\ Fit(vol', stale, torn, call = "truncate") => Goon(t)
         /\ vol.count \in [Inode -> Nat]
BY DEF Step, Goes, IInv, Fit, Goon, Volumes

\* The predicates of the annotations that only the handles could not change.
Unmoved == 
  /\ Entered(vol') = Entered(vol) /\ Linked(vol') = Linked(vol) /\ Used(vol') = Used(vol)
  /\ Size(vol') = Size(vol) /\ Inodes(vol') = Inodes(vol) 

\* Opening a handle, and closing one of a saved inode.
Handled ==
  /\ Unmoved /\ vol'.sb = vol.sb /\ (Written' <=> Written)
  /\ \A i : /\ Saved(vol', i) <=> Saved(vol, i)
            /\ Adds(vol', i) <=> Adds(vol, i)
            /\ Taken(vol', i) <=> Taken(vol, i)
            /\ Alone(vol', i) <=> Alone(vol, i)
            /\ Private(vol', i) <=> Private(vol, i)

\* What Same says, said of the annotations.
LEMMA Handling ==
  ASSUME Same(vol', vol) PROVE Handled
<1>1. Unmoved
  BY DEF Same, Unmoved, Entered, Linked, Used, Size
<1>2. QED
  BY <1>1 DEF Same, Unmoved, Handled, Written, Saved, Adds, Taken, Alone, Private

\* A step that opens a handle.
LEMMA Opening ==
  ASSUME IInv, Step, NEW i \in Inode, NEW t, Goes(todo, Op("open", i), t)
  PROVE  Goon(t) /\ Handled /\ vol'.count = [vol.count EXCEPT ![i] = @ + 1]
<1>1. vol' = iOpen(vol, i) /\ vol \in Volumes /\ Fit(vol, stale, torn, call = "truncate")
  BY Doing, DoIs
<1>2. Same(vol', vol) /\ vol'.count = [vol.count EXCEPT ![i] = @ + 1]
  BY ONLY <1>1, i \in Inode, OpenDoes
<1>3. Fit(vol', stale, torn, call = "truncate")
  BY ONLY <1>1, <1>2, FitSame
<1>4. QED
  BY <1>2, <1>3, Doing, Handling

\* A step that closes one, of an inode that is saved.
LEMMA Closing ==
  ASSUME IInv, Step, NEW i \in Inode, NEW t, Goes(todo, Op("close", i), t),
         vol.count[i] >= 1, Saved(vol, i)
  PROVE  Goon(t) /\ Handled /\ vol'.count = [vol.count EXCEPT ![i] = @ - 1]
<1>1. /\ vol' = iClose(vol, i) /\ vol \in Volumes /\ Fit(vol, stale, torn, call = "truncate")
      /\ vol.count \in [Inode -> Nat]
  BY Doing, DoIs
<1>2. vol.count[i] > 0
  BY <1>1
<1>3. Same(vol', vol) /\ vol'.count = [vol.count EXCEPT ![i] = @ - 1]
  BY ONLY <1>1, <1>2, i \in Inode, Saved(vol, i), CloseDoes
<1>4. Fit(vol', stale, torn, call = "truncate")
  BY ONLY <1>1, <1>3, FitSame
<1>5. QED
  BY <1>3, <1>4, Doing, Handling

\* Saving an inode: it is saved, and the others are as they were.
LEMMA Saving ==
  ASSUME IInv, Step, NEW i \in Inode, NEW t, Goes(todo, Op("save", i), t), vol.count[i] >= 1
  PROVE  /\ Goon(t) /\ Unmoved /\ vol'.count = vol.count /\ vol'.sb = vol.sb
         /\ Written' <=> Written
         /\ Saved(vol', i) /\ Adds(vol', i)
         /\ \A j \in Inode \ {i} : /\ Saved(vol', j) <=> Saved(vol, j)
                                   /\ Adds(vol', j) <=> Adds(vol, j)
         /\ \A j : /\ Alone(vol', j) <=> Alone(vol, j)
                   /\ Private(vol', j) <=> Private(vol, j)
<1>1. /\ vol' = iSave(vol, i) /\ vol \in Volumes /\ Fit(vol, stale, torn, call = "truncate")
      /\ vol.count \in [Inode -> Nat] /\ vol.disk \in [Inode -> InodeType]
  BY Doing, DoIs DEF Volumes
<1>2. vol.count[i] > 0
  BY <1>1
<1>3. /\ vol' \in Volumes /\ vol'.sb = vol.sb /\ vol'.dsb = vol.dsb /\ vol'.dir = vol.dir
      /\ vol'.count = vol.count /\ Inodes(vol') = Inodes(vol)
      /\ vol'.disk = [vol.disk EXCEPT ![i] = Inodes(vol)[i]]
  BY ONLY <1>1, <1>2, i \in Inode, SaveDoes
<1>4. Fit(vol', stale, torn, call = "truncate")
  BY ONLY <1>1, <1>3, i \in Inode, FitSave
<1>5. Goon(t)
  BY <1>4, Doing
<1>6. Unmoved
  BY <1>3 DEF Unmoved, Entered, Linked, Used, Size
<1>7. \A j \in Inode : vol'.disk[j] = IF j = i THEN Inodes(vol)[i] ELSE vol.disk[j]
  BY <1>1, <1>3
<1>8. Saved(vol', i) /\ Adds(vol', i)
  BY <1>3, <1>7 DEF Saved, Adds
<1>9. \A j \in Inode \ {i} : (Saved(vol', j) <=> Saved(vol, j)) /\ (Adds(vol', j) <=> Adds(vol, j))
  BY <1>3, <1>7 DEF Saved, Adds
<1>10. \A j : (Alone(vol', j) <=> Alone(vol, j)) /\ (Private(vol', j) <=> Private(vol, j))
  BY <1>3, <1>6 DEF Unmoved, Alone, Private
<1>11. Written' <=> Written
  BY <1>3 DEF Written
<1>12. QED
  BY <1>3, <1>5, <1>6, <1>8, <1>9, <1>10, <1>11

\* Saving the superblock.
LEMMA SavingSuper ==
  ASSUME IInv, Step, NEW i, NEW t, Goes(todo, Op("sbsave", i), t)
  PROVE  /\ Goon(t) /\ Unmoved /\ vol'.count = vol.count /\ vol'.sb = vol.sb
         /\ Written'
         /\ \A j : /\ Saved(vol', j) <=> Saved(vol, j)
                   /\ Adds(vol', j) <=> Adds(vol, j)
                   /\ Alone(vol', j) <=> Alone(vol, j)
<1>1. vol' = sbSave(vol) /\ vol \in Volumes /\ Fit(vol, stale, torn, call = "truncate")
  BY Doing, DoIs
<1>2. /\ vol' \in Volumes /\ vol'.sb = vol.sb /\ vol'.dsb = vol.sb /\ vol'.disk = vol.disk
      /\ vol'.dir = vol.dir /\ vol'.count = vol.count /\ Inodes(vol') = Inodes(vol)
  BY ONLY <1>1, SuperDoes
<1>3. Fit(vol', stale, torn, call = "truncate")
  BY ONLY <1>1, <1>2, FitSuper
<1>4. Goon(t)
  BY <1>3, Doing
<1>5. Unmoved
  BY <1>2 DEF Unmoved, Entered, Linked, Used, Size
<1>6. QED
  BY <1>2, <1>4, <1>5 DEF Written, Unmoved, Saved, Adds, Alone

\* The directory is as it was.
Listing == /\ Entered(vol') = Entered(vol) /\ Linked(vol') = Linked(vol)
           /\ Used(vol') = Used(vol) /\ Size(vol') = Size(vol)
\* So are the inodes but for i.
Rest(i) == \A j \in Inode \ {i} : /\ Inodes(vol')[j] = Inodes(vol)[j]
                                  /\ Saved(vol', j) <=> Saved(vol, j)
                                  /\ Adds(vol', j) <=> Adds(vol, j)

\* Counting a name of a file.
LEMMA Counting ==
  ASSUME IInv, Step, NEW i \in File, NEW t, vol.count[i] >= 1,
         \/ Goes(todo, Op("inc", i), t) /\ Inodes(vol)[i].refcount = 0
         \/ Goes(todo, Op("dec", i), t)
  PROVE  /\ Goon(t) /\ Listing /\ Rest(i) /\ vol'.count = vol.count /\ vol'.sb = vol.sb
         /\ Written' <=> Written
         /\ Inodes(vol')[i].refs = Inodes(vol)[i].refs
         /\ Adds(vol', i) <=> Adds(vol, i)
         /\ Taken(vol', i) <=> Taken(vol, i)
<1>1. i \in Inode /\ Root \in Inode \ {i}
  BY DealersAssumption DEF File
<1>2. /\ vol \in Volumes /\ Fit(vol, stale, torn, call = "truncate") /\ vol.count \in [Inode -> Nat]
      /\ \/ vol' = iIncRefcount(vol, i) /\ Inodes(vol)[i].refcount = 0
         \/ vol' = iDecRefcount(vol, i)
  BY Doing, DoIs
<1>3. vol.count[i] > 0
  BY <1>1, <1>2
<1>4. Counts(vol', vol, i)
  BY ONLY <1>1, <1>2, <1>3, CountDoes
<1>5. Fit(vol', stale, torn, call = "truncate")
  BY ONLY <1>2, <1>4, i \in File, FitCounts
<1>6. Goon(t)
  BY <1>5, Doing
<1>7. Listing
  BY <1>1, <1>4 DEF Listing, Entered, Linked, Used, Size, Counts, Only
<1>8. Rest(i)
  BY <1>4 DEF Rest, Counts, Only, Saved, Adds
<1>9. QED
  BY <1>4, <1>6, <1>7, <1>8 DEF Counts, Written, Adds, Taken

\* Taking a free inode.
LEMMA Taking ==
  ASSUME IInv, Step, NEW i \in File, NEW t, Goes(todo, Op("take", i), t),
         vol.sb.ifree # {} => i \in vol.sb.ifree
  PROVE  /\ Goon(t) /\ Listing /\ Rest(i)
         /\ vol'.sb.ifree = vol.sb.ifree \ {i}
         /\ vol'.count = [vol.count EXCEPT ![i] = @ + 1]
         /\ Inodes(vol')[i] = Blank
         /\ ~ stale => i \notin Linked(vol)
<1>1. i \in Inode /\ Root \in Inode \ {i}
  BY DealersAssumption DEF File
<1>2. /\ vol \in Volumes /\ Fit(vol, stale, torn, call = "truncate")
      /\ vol' = TakeInode(vol, i) /\ vol.sb.ifree # {}
  <2>1. /\ vol \in Volumes /\ Fit(vol, stale, torn, call = "truncate")
        /\ vol' = TakeInode(vol, i) /\ ~ Throws(vol, Op("take", i))
    BY Doing, DoIs
  <2>2. QED
    BY <2>1, ThrowsIs
<1>3. /\ vol' \in Volumes /\ vol'.sb = [vol.sb EXCEPT !.ifree = @ \ {i}]
      /\ vol'.dsb = vol.dsb /\ vol'.disk = vol.disk /\ vol'.dir = vol.dir
      /\ vol'.count = [vol.count EXCEPT ![i] = @ + 1]
      /\ Inodes(vol') = [Inodes(vol) EXCEPT ![i] = Blank]
  BY ONLY <1>1, <1>2, TakeDoes
<1>4. ~ stale => i \notin Linked(vol)
  BY <1>2 DEF Fit, Sound, Taken
<1>5. vol'.sb.ifree = vol.sb.ifree \ {i} /\ vol'.sb.cfree = vol.sb.cfree
  BY <1>2, <1>3 DEF Volumes, Superblock
<1>6. /\ \A j \in File \ {i} : j \in vol'.sb.ifree <=> j \in vol.sb.ifree
      /\ Blank \in InodeType
  BY <1>5, VolumeAssumption DEF Blank, InodeType
<1>7. Fit(vol', stale, torn, call = "truncate")
  <2> DEFINE v == Blank
  <2>1. /\ v \in InodeType /\ Inodes(vol') = [Inodes(vol) EXCEPT ![i] = v]
        /\ vol' \in Volumes /\ vol'.dsb = vol.dsb /\ vol'.disk = vol.disk /\ vol'.dir = vol.dir
    BY <1>3, <1>6
  <2> HIDE DEF v
  <2>2. QED
    BY ONLY <1>2, <1>4, <1>5, <1>6, <2>1, i \in File, FitTake
<1>8. Goon(t)
  BY <1>7, Doing
<1>9. /\ Inodes(vol) \in [Inode -> InodeType]
      /\ \A j \in Inode : Inodes(vol')[j] = IF j = i THEN Blank ELSE Inodes(vol)[j]
  BY <1>2, <1>3, VolumeTypes
<1>10. Listing
  BY <1>1, <1>3, <1>9 DEF Listing, Entered, Linked, Used, Size
<1>11. Rest(i)
  BY <1>3, <1>9 DEF Rest, Saved, Adds
<1>12. QED
  BY <1>1, <1>3, <1>4, <1>5, <1>8, <1>9, <1>10, <1>11

\* Giving back an inode without a name.
LEMMA Giving ==
  ASSUME IInv, Step, NEW i \in File, NEW t, Goes(todo, Op("give", i), t),
         ~ stale => i \notin Linked(vol)
  PROVE  /\ Goon(t) /\ Listing /\ Rest(i)
         /\ vol'.count = [vol.count EXCEPT ![i] = @ + 1]
         /\ Alone(vol', i)
<1>1. i \in Inode /\ Root \in Inode \ {i}
  BY DealersAssumption DEF File
<1>2. /\ vol \in Volumes /\ Fit(vol, stale, torn, call = "truncate")
      /\ vol' = GiveInode(vol, i)
  BY Doing, DoIs
<1> DEFINE v == [Blank EXCEPT !.free = TRUE]
<1>3. /\ vol' \in Volumes /\ vol'.sb = [vol.sb EXCEPT !.ifree = @ \cup {i}]
      /\ vol'.dsb = vol.dsb /\ vol'.disk = vol.disk /\ vol'.dir = vol.dir
      /\ vol'.count = [vol.count EXCEPT ![i] = @ + 1]
      /\ Inodes(vol') = [Inodes(vol) EXCEPT ![i] = v]
  BY ONLY <1>1, <1>2, GiveDoes
<1>4. v \in InodeType /\ v.refs = {}
  <2>1. Blank \in InodeType /\ Blank.refs = {}
    BY VolumeAssumption DEF Blank, InodeType
  <2>2. QED
    BY <2>1 DEF InodeType
<1> HIDE DEF v
<1>5. /\ \A j \in File \ {i} : j \in vol'.sb.ifree <=> j \in vol.sb.ifree
      /\ vol'.sb.cfree = vol.sb.cfree
  BY <1>2, <1>3 DEF Volumes, Superblock
<1>6. Fit(vol', stale, torn, call = "truncate")
  BY ONLY <1>2, <1>3, <1>4, <1>5, i \in File, ~ stale => i \notin Linked(vol), FitTake
<1>7. Goon(t)
  BY <1>6, Doing
<1>8. /\ Inodes(vol) \in [Inode -> InodeType]
      /\ \A j \in Inode : Inodes(vol')[j] = IF j = i THEN v ELSE Inodes(vol)[j]
  BY <1>2, <1>3, VolumeTypes
<1>9. Listing
  BY <1>1, <1>3, <1>8 DEF Listing, Entered, Linked, Used, Size
<1>10. Rest(i)
  BY <1>3, <1>8 DEF Rest, Saved, Adds
<1>11. Alone(vol', i)
  BY <1>1, <1>4, <1>8 DEF Alone
<1>12. QED
  BY <1>3, <1>7, <1>9, <1>10, <1>11

\* Allocating a cluster.
LEMMA Allocating ==
  ASSUME IInv, Step, NEW i \in File, NEW t, Goes(todo, Op("alloc", i), t), vol.count[i] >= 1
  PROVE  /\ Goon(t) /\ Listing /\ Rest(i) /\ vol'.count = vol.count /\ Written'
         /\ Adds(vol, i) => Adds(vol', i)
         /\ Taken(vol, i) => Taken(vol', i)
         /\ ~ stale /\ ~ torn /\ i \notin Linked(vol) /\ Inodes(vol)[i].refs = {} => Private(vol', i)
<1>1. i \in Inode /\ Root \in Inode \ {i}
  BY DealersAssumption DEF File
<1>2. /\ vol \in Volumes /\ Fit(vol, stale, torn, call = "truncate") /\ vol.count \in [Inode -> Nat]
      /\ vol' = AllocCluster(vol, i) /\ vol.sb.cfree # {}
  BY Doing, DoIs, ThrowsIs
<1>3. vol.count[i] > 0
  BY <1>1, <1>2
<1>4. PICK c \in Cluster : Allocates(vol', vol, i, c)
  BY ONLY <1>1, <1>2, <1>3, AllocDoes
<1>5. Fit(vol', stale, torn, call = "truncate")
  BY ONLY <1>2, <1>4, i \in File, FitAlloc
<1>6. Goon(t)
  BY <1>5, Doing
<1>7. /\ Inodes(vol)[i] \in InodeType /\ Linked(vol) \subseteq Inode
      /\ \A j \in Inode \ {i} : Inodes(vol')[j] = Inodes(vol)[j]
      /\ vol'.dir = vol.dir /\ vol'.disk = vol.disk /\ vol'.count = vol.count /\ vol'.dsb = vol'.sb
      /\ c \in vol.sb.cfree
  BY <1>1, <1>2, <1>4, VolumeTypes DEF Allocates, Only
<1>8. /\ Inodes(vol')[i].refs = Inodes(vol)[i].refs \cup {c}
      /\ Inodes(vol')[i].free = Inodes(vol)[i].free
  BY <1>4, <1>7 DEF Allocates, InodeType
<1>9. vol'.sb.cfree = vol.sb.cfree \ {c} /\ vol'.sb.ifree = vol.sb.ifree
  BY <1>2, <1>4 DEF Allocates, Volumes, Superblock
<1>10. Listing
  BY <1>1, <1>7 DEF Listing, Entered, Linked, Used, Size
<1>11. Rest(i)
  BY <1>7 DEF Rest, Saved, Adds
<1>12. Adds(vol, i) => Adds(vol', i)
  BY <1>7, <1>8 DEF Adds
<1>13. Taken(vol, i) => Taken(vol', i)
  BY <1>7, <1>8, <1>9 DEF Taken
<1>14. ASSUME ~ stale, ~ torn, i \notin Linked(vol), Inodes(vol)[i].refs = {}
       PROVE  Private(vol', i)
  <2>1. \A j \in Linked(vol) : c \notin Inodes(vol)[j].refs
    BY <1>2, <1>7, <1>14 DEF Fit, Unshared, Private
  <2>2. QED
    BY <1>7, <1>8, <1>9, <1>10, <1>14, <2>1 DEF Listing, Private, Alone
<1>15. QED
  BY <1>6, <1>7, <1>10, <1>11, <1>12, <1>13, <1>14 DEF Written

\* Freeing a cluster.
LEMMA Releasing ==
  ASSUME IInv, Step, NEW i \in File, NEW t, Goes(todo, Op("free", i), t), vol.count[i] >= 1,
         NEW k \in Nat, k + 1 = Cardinality(Inodes(vol)[i].refs),
         ~ stale => \/ i \in Linked(vol) /\ call = "truncate"
                    \/ i \notin Linked(vol) /\ (~ torn => Alone(vol, i))
  PROVE  /\ Goon(t) /\ Listing /\ Rest(i) /\ vol'.count = vol.count /\ Written'
         /\ k = Cardinality(Inodes(vol')[i].refs)
         /\ Alone(vol, i) => Alone(vol', i)
<1>1. i \in Inode /\ Root \in Inode \ {i}
  BY DealersAssumption DEF File
<1>2. /\ vol \in Volumes /\ Fit(vol, stale, torn, call = "truncate") /\ vol.count \in [Inode -> Nat]
      /\ vol' = FreeCluster(vol, i)
  BY Doing, DoIs
<1>3. vol.count[i] > 0
  BY <1>1, <1>2
<1>4. /\ Inodes(vol)[i] \in InodeType /\ Linked(vol) \subseteq Inode
      /\ Inodes(vol)[i].refs \subseteq Cluster /\ IsFiniteSet(Inodes(vol)[i].refs)
  <2>1. Inodes(vol)[i] \in InodeType /\ Linked(vol) \subseteq Inode
    BY <1>1, <1>2, VolumeTypes
  <2>2. Inodes(vol)[i].refs \subseteq Cluster
    BY <2>1 DEF InodeType
  <2>3. QED
    BY <2>1, <2>2, DealersAssumption, FS_Subset
<1>5. Inodes(vol)[i].refs # {}
  BY <1>4, FS_EmptySet
<1>6. PICK c \in Cluster : Releases(vol', vol, i, c)
  BY ONLY <1>1, <1>2, <1>3, <1>5, FreeDoes
<1>7. Fit(vol', stale, torn, call = "truncate")
  BY ONLY <1>2, <1>6, i \in File, FitRelease,
          ~ stale => \/ i \in Linked(vol) /\ call = "truncate"
                     \/ i \notin Linked(vol) /\ (~ torn => Alone(vol, i))
<1>8. Goon(t)
  BY <1>7, Doing
<1>9. /\ \A j \in Inode \ {i} : Inodes(vol')[j] = Inodes(vol)[j]
      /\ vol'.dir = vol.dir /\ vol'.disk = vol.disk /\ vol'.count = vol.count /\ vol'.dsb = vol'.sb
      /\ c \in Inodes(vol)[i].refs
      /\ Inodes(vol')[i].refs = Inodes(vol)[i].refs \ {c}
  BY <1>4, <1>6 DEF Releases, Only, InodeType
<1>10. Listing
  BY <1>1, <1>9 DEF Listing, Entered, Linked, Used, Size
<1>11. Rest(i)
  BY <1>9 DEF Rest, Saved, Adds
<1>12. k = Cardinality(Inodes(vol')[i].refs)
  <2> DEFINE r == Inodes(vol)[i].refs
  <2>1. IsFiniteSet(r) /\ c \in r /\ Inodes(vol')[i].refs = r \ {c} /\ k + 1 = Cardinality(r)
    BY <1>4, <1>9
  <2> HIDE DEF r
  <2>2. Cardinality(r \ {c}) = Cardinality(r) - 1
    BY <2>1, FS_RemoveElement
  <2>3. QED
    BY <2>1, <2>2
<1>13. Alone(vol, i) => Alone(vol', i)
  BY <1>4, <1>9, <1>10 DEF Listing, Alone
<1>14. QED
  BY <1>8, <1>9, <1>10, <1>11, <1>12, <1>13 DEF Written

\* The files are as they were.
Resting == \A j \in File : /\ Inodes(vol')[j] = Inodes(vol)[j]
                           /\ Saved(vol', j) <=> Saved(vol, j)
                           /\ Adds(vol', j) <=> Adds(vol, j)
                           /\ Taken(vol', j) <=> Taken(vol, j)

\* Adding a name.
LEMMA Adding ==
  ASSUME IInv, Step, NEW i \in File, NEW n \in Name, NEW t, Goes(todo, Named("add", n, i), t),
         vol.count[Root] >= 1,
         ~ stale => n \notin Used(vol) /\ i \notin Linked(vol) /\ Taken(vol, i) /\ Adds(vol, i),
         ~ stale /\ ~ torn => Private(vol, i)
  PROVE  /\ Goon(t) /\ Resting /\ vol'.count = vol.count
         /\ Written' <=> Written
<1> DEFINE e == [name |-> n, in |-> i]
           cut == call = "truncate"
<1>1. e \in Entry /\ e.name = n /\ e.in = i /\ Root \in Inode
  BY DealersAssumption DEF Entry
<1>2. /\ vol \in Volumes /\ Fit(vol, stale, torn, cut) /\ vol.count \in [Inode -> Nat]
      /\ vol' = AddDirEntry(vol, e)
      /\ ~ Throws(vol, Named("add", n, i))
  BY Doing, DoIs
<1> HIDE DEF e, cut
<1>3. vol.count[Root] > 0
  BY <1>1, <1>2
<1>4. Size(vol) < DPC
  <2>1. ~ (vol.cache[Root].size >= DPC)
    BY <1>2, ThrowsIs
  <2>2. vol.cache[Root].size = Size(vol) /\ Size(vol) \in 0 .. DPC /\ DPC \in Nat
    <3>1. Size(vol) \in 0 .. DPC /\ DPC \in Nat
      BY <1>2, VolumeTypes
    <3>2. QED
      BY <1>1, <1>3, <3>1 DEF Size, Inodes
  <2>3. QED
    BY <2>1, <2>2
<1>5. Resized(vol', vol, Size(vol) + 1) /\ vol'.dir = [vol.dir EXCEPT ![Size(vol)] = e]
  BY ONLY <1>1, <1>2, <1>3, <1>4, AddDoes
<1>6. /\ ~ stale => e.name \notin Used(vol) /\ e.in \notin Linked(vol) /\ Taken(vol, e.in) /\ Adds(vol, e.in)
      /\ ~ stale /\ ~ torn => Private(vol, e.in)
  BY <1>1
<1>7. Fit(vol', stale, torn, cut)
  BY ONLY <1>1, <1>2, <1>4, <1>5, <1>6, FitAdd
<1>8. Goon(t)
  BY <1>7, Doing DEF cut
<1>9. Resting
  BY <1>5, DealersAssumption DEF Resized, Only, Resting, Saved, Adds, Taken, File
<1>10. QED
  BY <1>5, <1>8, <1>9 DEF Resized, Written

\* Deleting one.
LEMMA Deleting ==
  ASSUME IInv, Step, NEW i, NEW n, NEW t, Goes(todo, Named("delete", n, i), t),
         vol.count[Root] >= 1, Size(vol) >= 1,
         ~ stale => \E e \in Entered(vol) : e.name = n
  PROVE  /\ Goon(t) /\ Resting /\ vol'.count = vol.count /\ Size(vol') = Size(vol) - 1
         /\ Written' <=> Written
         /\ \A e \in Entered(vol) :
              ~ stale /\ e.name = n =>
                /\ Entered(vol') = Entered(vol) \ {e}
                /\ Linked(vol') = Linked(vol) \ {e.in} /\ Used(vol') = Used(vol) \ {n}
         /\ \A j \in File : ~ stale /\ Private(vol, j) => Private(vol', j)
<1> DEFINE cut == call = "truncate"
<1>1. /\ vol \in Volumes /\ Fit(vol, stale, torn, cut) /\ vol.count \in [Inode -> Nat]
      /\ vol' = DeleteDirEntry(vol, n) /\ ~ Throws(vol, Named("delete", n, i))
  BY Doing, DoIs
<1> HIDE DEF cut
<1>2. Holding(vol, n) # {} /\ Root \in Inode
  BY <1>1, ThrowsIs, DealersAssumption
<1>3. vol.count[Root] > 0
  BY <1>1, <1>2
<1>4. Fit(vol', stale, torn, cut)
  BY ONLY <1>1, <1>2, <1>3, Size(vol) >= 1, ~ stale => \E e \in Entered(vol) : e.name = n, FitDelete
<1>5. Goon(t)
  BY <1>4, Doing DEF cut
<1>6. Resized(vol', vol, Size(vol) - 1)
  BY ONLY <1>1, <1>2, <1>3, Size(vol) >= 1, DeleteDoes
<1>7. Resting
  BY <1>6, DealersAssumption DEF Resized, Only, Resting, Saved, Adds, Taken, File
<1>8. ASSUME NEW e \in Entered(vol), ~ stale, e.name = n
      PROVE  /\ Entered(vol') = Entered(vol) \ {e}
             /\ Linked(vol') = Linked(vol) \ {e.in} /\ Used(vol') = Used(vol) \ {n}
  <2>1. Listed(vol) /\ vol' = DeleteDirEntry(vol, e.name)
    BY <1>1, <1>8 DEF Fit, Sound
  <2>2. /\ Entered(vol') = Entered(vol) \ {e}
        /\ Linked(vol') = Linked(vol) \ {e.in} /\ Used(vol') = Used(vol) \ {e.name}
    BY ONLY <1>1, <1>3, <2>1, e \in Entered(vol), DeleteListed
  <2>3. QED
    BY <1>8, <2>2
<1>9. ASSUME NEW j \in File, ~ stale, Private(vol, j)
      PROVE  Private(vol', j)
  <2>1. Linked(vol') \subseteq Linked(vol) /\ Linked(vol) \subseteq File
    BY <1>1, <1>8, <1>9, VolumeTypes
  <2>2. QED
    BY <1>6, <1>7, <1>9, <2>1 DEF Resized, Resting, Private, Alone
<1>10. QED
  BY <1>5, <1>6, <1>7, <1>8, <1>9 DEF Resized, Written

-----------------------------------------------------------------------------
(* Each operation of a call leaves what the next one relies on               *)

\* What the steps below know of the inodes and the handles.
LEMMA Known ==
  ASSUME IInv, NEW in \in File
  PROVE  /\ in \in Inode /\ Root \in Inode /\ in # Root /\ File \subseteq Inode \ {Root}
         /\ vol \in Volumes /\ vol.count \in [Inode -> Nat]
         /\ Fit(vol, stale, torn, call = "truncate")
BY DealersAssumption DEF File, IInv, Fit, Volumes

\* A call comes to its end.
LEMMA StepEnd ==
  ASSUME IInv, Step, NEW in \in File, NEW n \in Name, NEW new \in Name, AtEnd(in)
  PROVE  IInv'
<1>1. /\ in \in Inode /\ Root \in Inode /\ in # Root /\ File \subseteq Inode \ {Root}
      /\ vol.count \in [Inode -> Nat]
  BY Known
<1>2. CASE todo = CloseRoot /\ vol.count[Root] >= 1 /\ Saved(vol, Root) /\ Written /\ All
  <2>1. Goes(todo, Op("close", Root), <<>>)
    BY <1>2, Heads
  <2>2. Goon(<<>>) /\ Handled
    BY <1>1, <1>2, <2>1, Closing
  <2>3. Idle'
    BY <1>2, <2>2 DEF Handled, Idle, RootSafe, All, Goon
  <2>4. QED
    BY <2>2, <2>3, Going
<1>3. CASE todo = SaveRoot /\ vol.count[Root] >= 1 /\ Written /\ All
  <2>1. Goes(todo, Op("save", Root), CloseRoot)
    BY <1>3, Heads
  <2>2. /\ Goon(CloseRoot) /\ vol'.count = vol.count /\ (Written' <=> Written) /\ Saved(vol', Root)
        /\ \A j \in Inode \ {Root} : Adds(vol', j) <=> Adds(vol, j)
    BY <1>1, <1>3, <2>1, Saving
  <2>3. AtEnd(in)'
    BY <1>1, <1>3, <2>2 DEF AtEnd, All, Goon
  <2>4. Running'
    BY <2>3 DEF Running
  <2>5. QED
    BY <2>2, <2>4, NotDone, Going
<1>4. ASSUME NEW t \in {<<>>, SaveRoot},
             t = <<>> => RootSafe, t = SaveRoot => vol.count[Root] >= 1,
             vol.count[in] >= 1, Written, Others(in), todo = Save(in, t)
      PROVE  IInv'
  <2>1. Goes(todo, Op("save", in), Close(in, t))
    BY <1>4, Heads
  <2>2. /\ Goon(Close(in, t)) /\ vol'.count = vol.count /\ (Written' <=> Written) /\ Saved(vol', in)
        /\ \A j \in Inode \ {in} : /\ Adds(vol', j) <=> Adds(vol, j)
                                   /\ Saved(vol', j) <=> Saved(vol, j)
    BY <1>1, <1>4, <2>1, Saving
  <2>3. (RootSafe' <=> RootSafe) /\ (Others(in)' <=> Others(in))
    BY <1>1, <2>2 DEF RootSafe, Others, Goon
  <2>4. AtEnd(in)'
    BY <1>4, <2>2, <2>3 DEF AtEnd, Goon
  <2>5. Running'
    BY <2>4 DEF Running
  <2>6. QED
    BY <2>2, <2>5, NotDone, Going
<1>5. ASSUME NEW t \in {<<>>, SaveRoot},
             t = <<>> => RootSafe, t = SaveRoot => vol.count[Root] >= 1,
             vol.count[in] >= 1, Written, Others(in), todo = Close(in, t), Saved(vol, in)
      PROVE  IInv'
  <2>1. Goes(todo, Op("close", in), t)
    BY <1>5, Heads
  <2>2. Goon(t) /\ Handled /\ vol'.count = [vol.count EXCEPT ![in] = @ - 1]
    BY <1>1, <1>5, <2>1, Closing
  <2>3. vol'.count[Root] = vol.count[Root] /\ Written' /\ (RootSafe' <=> RootSafe)
    BY <1>1, <1>5, <2>2 DEF Handled, RootSafe, Goon
  <2>4. All'
    BY <1>1, <1>5, <2>2 DEF Handled, Others, All, Saved, Adds
  <2>5. CASE t = <<>>
    <3>1. Idle'
      BY <1>5, <2>2, <2>3, <2>4, <2>5 DEF Idle, Goon
    <3>2. QED
      BY <2>2, <2>5, <3>1, Going
  <2>6. CASE t = SaveRoot
    <3>1. AtEnd(in)'
      BY <1>5, <2>2, <2>3, <2>4, <2>6 DEF AtEnd, Goon
    <3>2. Running'
      BY <3>1 DEF Running
    <3>3. QED
      BY <2>2, <2>6, <3>2, NotDone, Going
  <2>7. QED
    BY <2>5, <2>6
<1>6. QED
  BY <1>2, <1>3, <1>4, <1>5 DEF AtEnd

\* A call looks for a free inode and takes one.
LEMMA StepTake ==
  ASSUME IInv, Step, NEW in \in File, NEW n \in Name, NEW new \in Name, AtTake(n, in)
  PROVE  IInv'
<1>1. /\ in \in Inode /\ Root \in Inode /\ in # Root /\ File \subseteq Inode \ {Root}
      /\ vol.count \in [Inode -> Nat]
  BY Known
<1>2. PICK t \in Makes(n, in) :
        /\ ~ stale => n \notin Used(vol)
        /\ RootSafe /\ Written /\ All
        /\ vol.sb.ifree # {} => in \in vol.sb.ifree
        /\ todo = Make(in, t) \/ (todo = Take(in, t) /\ vol.count[Root] >= 1)
  BY DEF AtTake
<1>3. CASE todo = Make(in, t)
  <2>1. Goes(todo, Op("open", Root), Take(in, t))
    BY <1>3, Heads
  <2>2. Goon(Take(in, t)) /\ Handled /\ vol'.count = [vol.count EXCEPT ![Root] = @ + 1]
    BY <1>1, <2>1, Opening
  <2>3. vol'.count[Root] >= 1 /\ (RootSafe' <=> RootSafe) /\ All'
    BY <1>1, <1>2, <2>2 DEF Handled, RootSafe, All, Goon
  <2>4. AtTake(n, in)'
    BY <1>2, <2>2, <2>3 DEF AtTake, Handled, Unmoved, Goon
  <2>5. Running'
    BY <2>4 DEF Running
  <2>6. QED
    BY <2>2, <2>5, NotDone, Going
<1>4. CASE todo = Take(in, t) /\ vol.count[Root] >= 1
  <2>1. Goes(todo, Op("take", in), TookSave(in, t))
    BY <1>4, Heads
  <2>2. /\ Goon(TookSave(in, t)) /\ Listing /\ Rest(in)
        /\ vol'.sb.ifree = vol.sb.ifree \ {in}
        /\ vol'.count = [vol.count EXCEPT ![in] = @ + 1]
        /\ Inodes(vol')[in] = Blank
        /\ ~ stale => in \notin Linked(vol)
    BY <1>2, <2>1, Taking
  <2>3. vol'.count[Root] >= 1 /\ vol'.count[in] >= 1
    BY <1>1, <1>4, <2>2
  <2>4. RootSafe' /\ Others(in)'
    BY <1>1, <1>2, <2>2 DEF Rest, RootSafe, Others, All, Goon
  <2>5. AtMade(n, in)'
    BY <1>2, <2>2, <2>3, <2>4 DEF AtMade, Listing, Goon, Handles
  <2>6. Running'
    BY <2>5 DEF Running
  <2>7. QED
    BY <2>2, <2>6, NotDone, Going
<1>5. QED
  BY <1>2, <1>3, <1>4

\* It has one, and makes it ready.
LEMMA StepMade ==
  ASSUME IInv, Step, NEW in \in File, NEW n \in Name, NEW new \in Name, AtMade(n, in)
  PROVE  IInv'
<1>1. /\ in \in Inode /\ Root \in Inode /\ in # Root /\ File \subseteq Inode \ {Root}
      /\ vol.count \in [Inode -> Nat]
  BY Known
<1>2. PICK t \in Makes(n, in) :
        /\ ~ stale => n \notin Used(vol) /\ in \notin Linked(vol)
        /\ RootSafe /\ Others(in)
        /\ in \notin vol.sb.ifree /\ Inodes(vol)[in] = Blank
        /\ \/ todo = TookSave(in, t) /\ Handles(1, in, 1)
           \/ todo = TookSuper(in, t) /\ Handles(1, in, 1) /\ Saved(vol, in)
           \/ todo = TookClose(in, t) /\ Handles(1, in, 1) /\ Saved(vol, in) /\ Written
           \/ todo = MadeOpen(in, t) /\ Handles(1, in, 0) /\ Saved(vol, in) /\ Written
           \/ todo = MadeSave(in, t) /\ Handles(1, in, 1) /\ Saved(vol, in) /\ Written
           \/ todo = t /\ Handles(1, in, 1) /\ Saved(vol, in) /\ Written
  BY DEF AtMade
<1>3. CASE todo = TookSave(in, t) /\ Handles(1, in, 1)
  <2>1. Goes(todo, Op("save", in), TookSuper(in, t))
    BY <1>3, Heads
  <2>2. vol.count[in] >= 1
    BY <1>3 DEF Handles
  <2>3. /\ Goon(TookSuper(in, t)) /\ Unmoved /\ vol'.count = vol.count /\ vol'.sb = vol.sb
        /\ Saved(vol', in)
        /\ \A j \in Inode \ {in} : /\ Saved(vol', j) <=> Saved(vol, j)
                                   /\ Adds(vol', j) <=> Adds(vol, j)
    BY <1>1, <2>1, <2>2, Saving
  <2>4. RootSafe' /\ Others(in)' /\ Handles(1, in, 1)'
    BY <1>1, <1>2, <1>3, <2>3 DEF RootSafe, Others, Handles, Goon
  <2>5. AtMade(n, in)'
    BY <1>2, <2>3, <2>4 DEF AtMade, Unmoved, Goon
  <2>6. Running'
    BY <2>5 DEF Running
  <2>7. QED
    BY <2>3, <2>6, NotDone, Going
<1>4. CASE todo = TookSuper(in, t) /\ Handles(1, in, 1) /\ Saved(vol, in)
  <2>1. Goes(todo, Op("sbsave", in), TookClose(in, t))
    BY <1>4, Heads
  <2>2. /\ Goon(TookClose(in, t)) /\ Unmoved /\ vol'.count = vol.count /\ vol'.sb = vol.sb
        /\ Written'
        /\ \A j : (Saved(vol', j) <=> Saved(vol, j)) /\ (Adds(vol', j) <=> Adds(vol, j))
    BY <2>1, SavingSuper
  <2>3. RootSafe' /\ Others(in)' /\ Handles(1, in, 1)'
    BY <1>2, <1>4, <2>2 DEF RootSafe, Others, Handles, Goon
  <2>4. AtMade(n, in)'
    BY <1>2, <1>4, <2>2, <2>3 DEF AtMade, Unmoved, Goon
  <2>5. Running'
    BY <2>4 DEF Running
  <2>6. QED
    BY <2>2, <2>5, NotDone, Going
<1>5. CASE todo = TookClose(in, t) /\ Handles(1, in, 1) /\ Saved(vol, in) /\ Written
  <2>1. Goes(todo, Op("close", in), MadeOpen(in, t))
    BY <1>5, Heads
  <2>2. Goon(MadeOpen(in, t)) /\ Handled /\ vol'.count = [vol.count EXCEPT ![in] = @ - 1]
    BY <1>1, <1>5, <2>1, Closing DEF Handles
  <2>3. Handles(1, in, 0)'
    BY <1>1, <1>5, <2>2 DEF Handles
  <2>4. RootSafe' /\ Others(in)'
    BY <1>2, <2>2 DEF Handled, RootSafe, Others, Goon
  <2>5. AtMade(n, in)'
    BY <1>2, <1>5, <2>2, <2>3, <2>4 DEF AtMade, Handled, Unmoved, Goon
  <2>6. Running'
    BY <2>5 DEF Running
  <2>7. QED
    BY <2>2, <2>6, NotDone, Going
<1>6. CASE todo = MadeOpen(in, t) /\ Handles(1, in, 0) /\ Saved(vol, in) /\ Written
  <2>1. Goes(todo, Op("open", in), MadeSave(in, t))
    BY <1>6, Heads
  <2>2. Goon(MadeSave(in, t)) /\ Handled /\ vol'.count = [vol.count EXCEPT ![in] = @ + 1]
    BY <1>1, <2>1, Opening
  <2>3. Handles(1, in, 1)'
    BY <1>1, <1>6, <2>2 DEF Handles
  <2>4. RootSafe' /\ Others(in)'
    BY <1>2, <2>2 DEF Handled, RootSafe, Others, Goon
  <2>5. AtMade(n, in)'
    BY <1>2, <1>6, <2>2, <2>3, <2>4 DEF AtMade, Handled, Unmoved, Goon
  <2>6. Running'
    BY <2>5 DEF Running
  <2>7. QED
    BY <2>2, <2>6, NotDone, Going
<1>7. CASE todo = MadeSave(in, t) /\ Handles(1, in, 1) /\ Saved(vol, in) /\ Written
  <2>1. Goes(todo, Op("save", in), t)
    BY <1>7, Heads
  <2>2. vol.count[in] >= 1
    BY <1>7 DEF Handles
  <2>3. /\ Goon(t) /\ Unmoved /\ vol'.count = vol.count /\ vol'.sb = vol.sb
        /\ (Written' <=> Written) /\ Saved(vol', in)
        /\ \A j \in Inode \ {in} : /\ Saved(vol', j) <=> Saved(vol, j)
                                   /\ Adds(vol', j) <=> Adds(vol, j)
    BY <1>1, <2>1, <2>2, Saving
  <2>4. RootSafe' /\ Others(in)' /\ Handles(1, in, 1)'
    BY <1>1, <1>2, <1>7, <2>3 DEF RootSafe, Others, Handles, Goon
  <2>5. AtMade(n, in)'
    BY <1>2, <1>7, <2>3, <2>4 DEF AtMade, Unmoved, Goon
  <2>6. Running'
    BY <2>5 DEF Running
  <2>7. QED
    BY <2>3, <2>6, NotDone, Going
<1>8. CASE todo = t /\ Handles(1, in, 1) /\ Saved(vol, in) /\ Written
  <2>1. /\ Blank.free = FALSE /\ Blank.refs = {} /\ Blank.refcount = 0
        /\ vol.count[Root] >= 1 /\ vol.count[in] >= 1
    BY <1>8 DEF Blank, Handles
  <2>2. Taken(vol, in) /\ Adds(vol, in) /\ All
    BY <1>2, <1>8, <2>1 DEF Taken, Adds, Saved, Written, Others, All
  <2>3. CASE t = NodeAdd(n, in)
    <3>1. Goes(todo, Named("add", n, in), Counted(in))
      BY <1>8, <2>3, Heads
    <3>2. Private(vol, in)
      BY <1>2, <2>1 DEF Private, Alone
    <3>3. Goon(Counted(in)) /\ Resting /\ vol'.count = vol.count /\ (Written' <=> Written)
      BY <1>2, <2>1, <2>2, <3>1, <3>2, Adding
    <3>4. AtCount(in)'
      BY <1>2, <1>8, <2>1, <2>2, <3>3 DEF AtCount, Handles, Resting, All, Goon
    <3>5. Running'
      BY <3>4 DEF Running
    <3>6. QED
      BY <3>3, <3>5, NotDone, Going
  <2>4. CASE t = LinkCount(n, in)
    <3>1. Goes(todo, Op("inc", in), LinkAlloc(n, in))
      BY <1>8, <2>4, Heads
    <3>2. /\ Goon(LinkAlloc(n, in)) /\ Listing /\ Rest(in) /\ vol'.count = vol.count
          /\ (Written' <=> Written) /\ Inodes(vol')[in].refs = Inodes(vol)[in].refs
          /\ (Adds(vol', in) <=> Adds(vol, in)) /\ (Taken(vol', in) <=> Taken(vol, in))
      BY <1>2, <2>1, <3>1, Counting
    <3>3. RootSafe' /\ All' /\ Handles(1, in, 1)'
      BY <1>1, <1>2, <2>1, <2>2, <3>2 DEF Rest, RootSafe, All, Handles, Goon
    <3>4. AtLink(n, in)'
      BY <1>2, <1>8, <2>1, <2>2, <3>2, <3>3 DEF AtLink, Listing, Goon
    <3>5. Running'
      BY <3>4 DEF Running
    <3>6. QED
      BY <3>2, <3>5, NotDone, Going
  <2>5. QED
    BY <2>3, <2>4 DEF Makes
<1>9. QED
  BY <1>2, <1>3, <1>4, <1>5, <1>6, <1>7, <1>8

\* soSymlink gives it a cluster and a name.
LEMMA StepLink ==
  ASSUME IInv, Step, NEW in \in File, NEW n \in Name, NEW new \in Name, AtLink(n, in)
  PROVE  IInv'
<1>1. /\ in \in Inode /\ Root \in Inode /\ in # Root /\ File \subseteq Inode \ {Root}
      /\ vol.count \in [Inode -> Nat]
  BY Known
<1>2. vol.count[Root] >= 1 /\ vol.count[in] >= 1
  BY DEF AtLink, Handles
<1>3. CASE todo = LinkAlloc(n, in) /\ Inodes(vol)[in].refs = {}
  <2>1. Goes(todo, Op("alloc", in), LinkAdd(n, in))
    BY <1>3, Heads
  <2>2. /\ Goon(LinkAdd(n, in)) /\ Listing /\ Rest(in) /\ vol'.count = vol.count /\ Written'
        /\ Adds(vol, in) => Adds(vol', in)
        /\ Taken(vol, in) => Taken(vol', in)
        /\ ~ stale /\ ~ torn /\ in \notin Linked(vol) /\ Inodes(vol)[in].refs = {} => Private(vol', in)
    BY <1>2, <2>1, Allocating
  <2>3. RootSafe' /\ All' /\ Handles(1, in, 1)'
    BY <1>1, <1>2, <2>2 DEF AtLink, Rest, RootSafe, All, Handles, Goon
  <2>4. AtLink(n, in)'
    BY <1>3, <2>2, <2>3 DEF AtLink, Listing, Goon
  <2>5. Running'
    BY <2>4 DEF Running
  <2>6. QED
    BY <2>2, <2>5, NotDone, Going
<1>4. CASE todo = LinkAdd(n, in) /\ (~ stale /\ ~ torn => Private(vol, in))
  <2>1. Goes(todo, Named("add", n, in), Save(in, SaveRoot))
    BY <1>4, Heads
  <2>2. /\ ~ stale => n \notin Used(vol) /\ in \notin Linked(vol) /\ Taken(vol, in) /\ Adds(vol, in)
        /\ Written /\ All
    BY DEF AtLink, All
  <2>3. /\ Goon(Save(in, SaveRoot)) /\ Resting /\ vol'.count = vol.count
        /\ (Written' <=> Written)
    BY <1>2, <1>4, <2>1, <2>2, Adding
  <2>4. Others(in)'
    BY <2>2, <2>3 DEF Resting, Others, All
  <2>5. AtEnd(in)'
    BY <1>2, <2>2, <2>3, <2>4, NotDone DEF AtEnd, Goon
  <2>6. Running'
    BY <2>5 DEF Running
  <2>7. QED
    BY <2>3, <2>6, NotDone, Going
<1>5. QED
  BY <1>3, <1>4 DEF AtLink

\* soMknod counts the name.
LEMMA StepCount ==
  ASSUME IInv, Step, NEW in \in File, NEW n \in Name, NEW new \in Name, AtCount(in)
  PROVE  IInv'
<1>1. vol.count[Root] >= 1 /\ vol.count[in] >= 1 /\ in # Root
  BY Known DEF AtCount, Handles
<1>2. Goes(todo, Op("inc", in), Save(in, SaveRoot))
  BY Heads DEF AtCount
<1>3. /\ Goon(Save(in, SaveRoot)) /\ Rest(in) /\ vol'.count = vol.count
      /\ (Written' <=> Written)
  BY <1>1, <1>2, Counting DEF AtCount
<1>4. Others(in)'
  BY <1>3, Known DEF AtCount, Rest, Others, All
<1>5. AtEnd(in)'
  BY <1>1, <1>3, <1>4, NotDone DEF AtCount, AtEnd, Goon
<1>6. Running'
  BY <1>5 DEF Running
<1>7. QED
  BY <1>3, <1>6, NotDone, Going

\* soUnlink, up to the name it deletes.
LEMMA StepUnlink ==
  ASSUME IInv, Step, NEW in \in File, NEW n \in Name, NEW new \in Name, AtUnlink(n, in)
  PROVE  IInv'
<1> DEFINE e == [name |-> n, in |-> in]
<1>1. /\ in \in Inode /\ Root \in Inode /\ in # Root /\ File \subseteq Inode \ {Root}
      /\ vol.count \in [Inode -> Nat] /\ Fit(vol, stale, torn, call = "truncate")
  BY Known
<1>2. PICK k \in Nat :
        /\ ~ stale => e \in Entered(vol)
        /\ RootSafe /\ Written /\ All
        /\ Size(vol) >= 1 /\ k = Cardinality(Inodes(vol)[in].refs)
        /\ \/ todo = UnlinkRoot(n, in, k)
           \/ todo = UnlinkOpen(n, in, k) /\ vol.count[Root] >= 1
           \/ todo \in {UnlinkDec(n, in, k), UnlinkDelete(n, in, k)} /\ Handles(1, in, 1)
  BY DEF AtUnlink
<1>3. CASE todo = UnlinkRoot(n, in, k)
  <2>1. Goes(todo, Op("open", Root), UnlinkOpen(n, in, k))
    BY <1>3, MoreHeads
  <2>2. Goon(UnlinkOpen(n, in, k)) /\ Handled /\ vol'.count = [vol.count EXCEPT ![Root] = @ + 1]
    BY <1>1, <2>1, Opening
  <2>3. vol'.count[Root] >= 1 /\ RootSafe' /\ All'
    BY <1>1, <1>2, <2>2 DEF Handled, RootSafe, All, Goon
  <2>4. AtUnlink(n, in)'
    BY <1>2, <2>2, <2>3 DEF AtUnlink, Handled, Unmoved, Goon
  <2>5. Running'
    BY <2>4 DEF Running
  <2>6. QED
    BY <2>2, <2>5, NotDone, Going
<1>4. CASE todo = UnlinkOpen(n, in, k) /\ vol.count[Root] >= 1
  <2>1. Goes(todo, Op("open", in), UnlinkDec(n, in, k))
    BY <1>4, MoreHeads
  <2>2. Goon(UnlinkDec(n, in, k)) /\ Handled /\ vol'.count = [vol.count EXCEPT ![in] = @ + 1]
    BY <1>1, <2>1, Opening
  <2>3. Handles(1, in, 1)' /\ RootSafe' /\ All'
    BY <1>1, <1>2, <1>4, <2>2 DEF Handled, Handles, RootSafe, All, Goon
  <2>4. AtUnlink(n, in)'
    BY <1>2, <2>2, <2>3 DEF AtUnlink, Handled, Unmoved, Goon
  <2>5. Running'
    BY <2>4 DEF Running
  <2>6. QED
    BY <2>2, <2>5, NotDone, Going
<1>5. CASE todo = UnlinkDec(n, in, k) /\ Handles(1, in, 1)
  <2>1. Goes(todo, Op("dec", in), UnlinkDelete(n, in, k))
    BY <1>5, MoreHeads
  <2>2. /\ Goon(UnlinkDelete(n, in, k)) /\ Listing /\ Rest(in) /\ vol'.count = vol.count
        /\ (Written' <=> Written) /\ Inodes(vol')[in].refs = Inodes(vol)[in].refs
        /\ (Adds(vol', in) <=> Adds(vol, in))
    BY <1>5, <2>1, Counting DEF Handles
  <2>3. Handles(1, in, 1)' /\ RootSafe' /\ All'
    BY <1>1, <1>2, <1>5, <2>2 DEF Rest, Handles, RootSafe, All, Goon
  <2>4. AtUnlink(n, in)'
    BY <1>2, <2>2, <2>3 DEF AtUnlink, Listing, Goon
  <2>5. Running'
    BY <2>4 DEF Running
  <2>6. QED
    BY <2>2, <2>5, NotDone, Going
<1>6. CASE todo = UnlinkDelete(n, in, k) /\ Handles(1, in, 1)
  <2>1. Goes(todo, Named("delete", n, in), Frees(k, in, Give(in)))
    BY <1>6, MoreHeads
  <2>2. e.name = n /\ e.in = in
    OBVIOUS
  <2>3. /\ ~ stale => \E d \in Entered(vol) : d.name = n
        /\ vol.count[Root] >= 1
    BY <1>2, <1>6, <2>2 DEF Handles
  <2>4. /\ Goon(Frees(k, in, Give(in))) /\ Resting /\ vol'.count = vol.count
        /\ (Written' <=> Written)
        /\ \A d \in Entered(vol) : ~ stale /\ d.name = n => Linked(vol') = Linked(vol) \ {d.in}
        /\ \A j \in File : ~ stale /\ Private(vol, j) => Private(vol', j)
    BY <1>2, <2>1, <2>3, Deleting
  <2>5. ~ stale => in \notin Linked(vol') /\ in \in Linked(vol)
    BY <1>2, <2>2, <2>4 DEF Linked
  <2>6. ~ stale /\ ~ torn => Alone(vol', in)
    BY <1>1, <2>4, <2>5 DEF Fit, Unshared, Private
  <2>7. Handles(1, in, 1)' /\ Others(in)' /\ k = Cardinality(Inodes(vol')[in].refs)
    BY <1>2, <1>6, <2>4 DEF Handles, Resting, Others, All
  <2>8. AtGive(in)'
    BY <1>2, <2>4, <2>5, <2>6, <2>7 DEF AtGive, Goon
  <2>9. Running'
    BY <2>8 DEF Running
  <2>10. QED
    BY <2>4, <2>9, NotDone, Going
<1>7. QED
  BY <1>2, <1>3, <1>4, <1>5, <1>6

\* And from there on: the clusters and the inode are given back.
LEMMA StepGive ==
  ASSUME IInv, Step, NEW in \in File, NEW n \in Name, NEW new \in Name, AtGive(in)
  PROVE  IInv'
<1>1. /\ in \in Inode /\ Root \in Inode /\ in # Root /\ File \subseteq Inode \ {Root}
      /\ vol.count \in [Inode -> Nat]
  BY Known
<1>2. /\ ~ stale => in \notin Linked(vol)
      /\ ~ stale /\ ~ torn => Alone(vol, in)
      /\ Others(in)
  BY DEF AtGive
<1>3. ASSUME Handles(1, in, 1), Written, NEW k \in Nat,
             k = Cardinality(Inodes(vol)[in].refs), todo = Frees(k, in, Give(in))
      PROVE  IInv'
  <2>1. vol.count[in] >= 1
    BY <1>3 DEF Handles
  <2>2. CASE k = 0
    <3>1. Goes(todo, Op("give", in), GaveSave(in))
      BY <1>3, <2>2, MoreHeads
    <3>2. /\ Goon(GaveSave(in)) /\ Listing /\ Rest(in)
          /\ vol'.count = [vol.count EXCEPT ![in] = @ + 1]
          /\ Alone(vol', in)
      BY <1>2, <3>1, Giving
    <3>3. Handles(1, in, 2)' /\ Others(in)'
      BY <1>1, <1>2, <1>3, <3>2 DEF Handles, Rest, Others
    <3>4. AtGive(in)'
      BY <1>2, <3>2, <3>3 DEF AtGive, Listing, Goon
    <3>5. Running'
      BY <3>4 DEF Running
    <3>6. QED
      BY <3>2, <3>5, NotDone, Going
  <2>3. CASE k # 0
    <3>1. k - 1 \in Nat /\ (k - 1) + 1 = k
      BY <2>3
    <3>2. Goes(todo, Op("free", in), Frees(k - 1, in, Give(in)))
      <4>1. Goes(Frees((k - 1) + 1, in, Give(in)), Op("free", in), Frees(k - 1, in, Give(in)))
        BY <3>1, MoreHeads
      <4>2. QED
        BY <1>3, <3>1, <4>1
    <3>3. (k - 1) + 1 = Cardinality(Inodes(vol)[in].refs)
      BY <1>3, <3>1
    <3>4. /\ Goon(Frees(k - 1, in, Give(in))) /\ Listing /\ Rest(in) /\ vol'.count = vol.count
          /\ Written' /\ k - 1 = Cardinality(Inodes(vol')[in].refs)
          /\ Alone(vol, in) => Alone(vol', in)
      BY ONLY IInv, Step, in \in File, <1>2, <2>1, <3>1, <3>2, <3>3, Releasing
    <3>5. Handles(1, in, 1)' /\ Others(in)'
      BY <1>1, <1>2, <1>3, <3>4 DEF Handles, Rest, Others
    <3>6. AtGive(in)'
      BY <1>2, <3>1, <3>4, <3>5 DEF AtGive, Listing, Goon
    <3>7. Running'
      BY <3>6 DEF Running
    <3>8. QED
      BY <3>1, <3>4, <3>7, NotDone, Going
  <2>4. QED
    BY <2>2, <2>3
<1>4. CASE todo = GaveSave(in) /\ Handles(1, in, 2)
  <2>1. Goes(todo, Op("save", in), GaveSuper(in))
    BY <1>4, MoreHeads
  <2>2. /\ Goon(GaveSuper(in)) /\ Unmoved /\ vol'.count = vol.count /\ Saved(vol', in)
        /\ \A j \in Inode \ {in} : Adds(vol', j) <=> Adds(vol, j)
        /\ \A j : Alone(vol', j) <=> Alone(vol, j)
    BY <1>1, <1>4, <2>1, Saving DEF Handles
  <2>3. Handles(1, in, 2)' /\ Others(in)'
    BY <1>1, <1>2, <1>4, <2>2 DEF Handles, Others
  <2>4. AtGive(in)'
    BY <1>2, <2>2, <2>3 DEF AtGive, Unmoved, Goon
  <2>5. Running'
    BY <2>4 DEF Running
  <2>6. QED
    BY <2>2, <2>5, NotDone, Going
<1>5. CASE todo = GaveSuper(in) /\ Handles(1, in, 2) /\ Saved(vol, in)
  <2>1. Goes(todo, Op("sbsave", in), GaveClose(in))
    BY <1>5, MoreHeads
  <2>2. /\ Goon(GaveClose(in)) /\ Unmoved /\ vol'.count = vol.count /\ Written'
        /\ \A j : /\ Saved(vol', j) <=> Saved(vol, j)
                  /\ Adds(vol', j) <=> Adds(vol, j)
                  /\ Alone(vol', j) <=> Alone(vol, j)
    BY <2>1, SavingSuper
  <2>3. Handles(1, in, 2)' /\ Others(in)'
    BY <1>2, <1>5, <2>2 DEF Handles, Others
  <2>4. AtGive(in)'
    BY <1>2, <1>5, <2>2, <2>3 DEF AtGive, Unmoved, Goon
  <2>5. Running'
    BY <2>4 DEF Running
  <2>6. QED
    BY <2>2, <2>5, NotDone, Going
<1>6. CASE todo = GaveClose(in) /\ Handles(1, in, 2) /\ Saved(vol, in) /\ Written
  <2>1. Goes(todo, Op("close", in), Save(in, SaveRoot))
    BY <1>6, MoreHeads
  <2>2. vol.count[in] >= 1 /\ vol.count[in] >= 2 /\ vol.count[Root] >= 1
    BY <1>1, <1>6 DEF Handles
  <2>3. Goon(Save(in, SaveRoot)) /\ Handled /\ vol'.count = [vol.count EXCEPT ![in] = @ - 1]
    BY <1>1, <1>6, <2>1, <2>2, Closing
  <2>4. vol'.count[Root] >= 1 /\ vol'.count[in] >= 1 /\ Others(in)'
    BY <1>1, <1>2, <2>2, <2>3 DEF Handled, Others
  <2>5. AtEnd(in)'
    BY <1>6, <2>3, <2>4, NotDone DEF AtEnd, Handled, Goon
  <2>6. Running'
    BY <2>5 DEF Running
  <2>7. QED
    BY <2>3, <2>6, NotDone, Going
<1>7. QED
  BY <1>3, <1>4, <1>5, <1>6 DEF AtGive

\* A rename that replaces a name is not one that does not.
LEMMA MovesDiffer ==
  ASSUME NEW in \in File, NEW n \in Name, NEW new \in Name, n # new
  PROVE  MoveOver(n, new, in) # MoveDelete(n, new, in)
<1>1. /\ Head(MoveOver(n, new, in)) = Named("delete", new, in)
      /\ Head(MoveDelete(n, new, in)) = Named("delete", n, in)
  BY MoreHeads DEF Goes
<1>2. Named("delete", new, in).name = new /\ Named("delete", n, in).name = n
  BY DEF Named
<1>3. QED
  BY <1>1, <1>2

\* soRename deletes one name or two.
LEMMA StepMove ==
  ASSUME IInv, Step, NEW in \in File, NEW n \in Name, NEW new \in Name, AtMove(n, new, in)
  PROVE  IInv'
<1> DEFINE e == [name |-> n, in |-> in]
<1>1. /\ in \in Inode /\ Root \in Inode /\ in # Root /\ File \subseteq Inode \ {Root}
      /\ vol \in Volumes /\ vol.count \in [Inode -> Nat] /\ Fit(vol, stale, torn, call = "truncate")
  BY Known
<1>2. PICK t \in Moves(n, new, in) :
        /\ n # new
        /\ ~ stale => /\ e \in Entered(vol)
                      /\ t = MoveDelete(n, new, in) => new \notin Used(vol)
                      /\ t = MoveOver(n, new, in) => new \in Used(vol)
        /\ Size(vol) >= IF t = MoveOver(n, new, in) THEN 2 ELSE 1
        /\ Written /\ All
        /\ \/ todo = MoveRoot(t) /\ RootSafe
           \/ todo = MoveAgain(t) /\ RootSafe /\ vol.count[Root] >= 1
           \/ todo = t /\ vol.count[Root] >= 2
  BY DEF AtMove
<1>3. e.name = n /\ e.in = in
  OBVIOUS
<1>4. Size(vol) \in 0 .. DPC /\ DPC \in Nat
  BY <1>1, VolumeTypes
<1>5. CASE todo = MoveRoot(t) /\ RootSafe
  <2>1. Goes(todo, Op("open", Root), MoveAgain(t))
    BY <1>5, MoreHeads
  <2>2. Goon(MoveAgain(t)) /\ Handled /\ vol'.count = [vol.count EXCEPT ![Root] = @ + 1]
    BY <1>1, <2>1, Opening
  <2>3. vol'.count[Root] >= 1 /\ RootSafe' /\ All'
    BY <1>1, <1>2, <1>5, <2>2 DEF Handled, RootSafe, All, Goon
  <2>4. AtMove(n, new, in)'
    BY <1>2, <2>2, <2>3 DEF AtMove, Handled, Unmoved, Goon
  <2>5. Running'
    BY <2>4 DEF Running
  <2>6. QED
    BY <2>2, <2>5, NotDone, Going
<1>6. CASE todo = MoveAgain(t) /\ RootSafe /\ vol.count[Root] >= 1
  <2>1. Goes(todo, Op("open", Root), t)
    BY <1>6, MoreHeads
  <2>2. Goon(t) /\ Handled /\ vol'.count = [vol.count EXCEPT ![Root] = @ + 1]
    BY <1>1, <2>1, Opening
  <2>3. vol'.count[Root] >= 2 /\ All'
    BY <1>1, <1>2, <1>6, <2>2 DEF Handled, All
  <2>4. AtMove(n, new, in)'
    BY <1>2, <2>2, <2>3 DEF AtMove, Handled, Unmoved, Goon
  <2>5. Running'
    BY <2>4 DEF Running
  <2>6. QED
    BY <2>2, <2>5, NotDone, Going
<1>7. CASE todo = t /\ vol.count[Root] >= 2 /\ t = MoveOver(n, new, in)
  <2>1. Goes(todo, Named("delete", new, in), MoveDelete(n, new, in))
    BY <1>7, MoreHeads
  <2>2. /\ ~ stale => \E d \in Entered(vol) : d.name = new
        /\ Size(vol) >= 2 /\ vol.count[Root] >= 1
    BY <1>1, <1>2, <1>7 DEF Used
  <2>3. Size(vol) >= 1
    BY <1>4, <2>2
  <2>4. /\ Goon(MoveDelete(n, new, in)) /\ Resting /\ vol'.count = vol.count
        /\ Size(vol') = Size(vol) - 1 /\ (Written' <=> Written)
        /\ \A d \in Entered(vol) :
             ~ stale /\ d.name = new =>
               /\ Entered(vol') = Entered(vol) \ {d} /\ Used(vol') = Used(vol) \ {new}
    BY <2>1, <2>2, <2>3, Deleting
  <2>5. Size(vol') >= 1
    BY <1>4, <2>2, <2>4
  <2>6. ~ stale => e \in Entered(vol') /\ new \notin Used(vol')
    BY <1>2, <1>3, <2>2, <2>4
  <2>7. All'
    BY <1>2, <2>4 DEF Resting, All
  <2>8. MoveDelete(n, new, in) # MoveOver(n, new, in) /\ MoveDelete(n, new, in) \in Moves(n, new, in)
    BY <1>2, MovesDiffer DEF Moves
  <2>9. AtMove(n, new, in)'
    BY <1>2, <1>7, <2>4, <2>5, <2>6, <2>7, <2>8 DEF AtMove, Goon
  <2>10. Running'
    BY <2>9 DEF Running
  <2>11. QED
    BY <2>4, <2>8, <2>10, NotDone, Going
<1>8. CASE todo = t /\ vol.count[Root] >= 2 /\ t = MoveDelete(n, new, in)
  <2>1. Goes(todo, Named("delete", n, in), MoveAdd(new, in))
    BY <1>8, MoreHeads
  <2>2. /\ ~ stale => \E d \in Entered(vol) : d.name = n
        /\ vol.count[Root] >= 1
    BY <1>1, <1>2, <1>3, <1>8
  <2>3. Size(vol) >= 1
    BY <1>2, <1>8, MovesDiffer
  <2>4. /\ Goon(MoveAdd(new, in)) /\ Resting /\ vol'.count = vol.count
        /\ Size(vol') = Size(vol) - 1 /\ (Written' <=> Written)
        /\ \A d \in Entered(vol) :
             ~ stale /\ d.name = n =>
               /\ Linked(vol') = Linked(vol) \ {d.in} /\ Used(vol') = Used(vol) \ {n}
        /\ \A j \in File : ~ stale /\ Private(vol, j) => Private(vol', j)
    BY <2>1, <2>2, <2>3, Deleting
  <2>5. Size(vol') < DPC
    BY <1>4, <2>4
  <2>6. ~ stale => in \in Linked(vol) /\ Taken(vol, in)
    BY <1>1, <1>2, <1>3 DEF Linked, Fit, Sound
  <2>7. ~ stale => new \notin Used(vol') /\ in \notin Linked(vol') /\ Taken(vol', in)
    BY <1>2, <1>3, <1>8, <2>4, <2>6 DEF Resting
  <2>8. ~ stale /\ ~ torn => Private(vol', in)
    BY <1>1, <2>4, <2>6 DEF Fit, Unshared
  <2>9. All'
    BY <1>2, <2>4 DEF Resting, All
  <2>10. AtMoveAdd(new, in)'
    BY <1>2, <1>8, <2>4, <2>5, <2>7, <2>8, <2>9 DEF AtMoveAdd, Goon
  <2>11. Running'
    BY <2>10 DEF Running
  <2>12. QED
    BY <2>4, <2>11, NotDone, Going
<1>9. QED
  BY <1>2, <1>5, <1>6, <1>7, <1>8 DEF Moves

\* It adds the new one.
LEMMA StepMoveAdd ==
  ASSUME IInv, Step, NEW in \in File, NEW n \in Name, NEW new \in Name, AtMoveAdd(new, in)
  PROVE  IInv'
<1>1. /\ vol.count \in [Inode -> Nat] /\ vol.count[Root] >= 2 /\ vol.count[Root] >= 1
      /\ vol.count[in] >= 0
  BY Known DEF AtMoveAdd
<1>2. Goes(todo, Named("add", new, in), MovedOpen(in))
  BY MoreHeads DEF AtMoveAdd
<1>3. /\ ~ stale => /\ new \notin Used(vol) /\ in \notin Linked(vol) /\ Taken(vol, in) /\ Adds(vol, in)
      /\ ~ stale /\ ~ torn => Private(vol, in)
  BY DEF AtMoveAdd, All
<1>4. Goon(MovedOpen(in)) /\ Resting /\ vol'.count = vol.count /\ (Written' <=> Written)
  BY <1>1, <1>2, <1>3, Adding
<1>5. AtMoved(in)'
  BY <1>1, <1>4 DEF AtMoveAdd, AtMoved, Handles, Resting, All, Goon
<1>6. Running'
  BY <1>5 DEF Running
<1>7. QED
  BY <1>4, <1>6, NotDone, Going

\* And saves and closes what it has opened.
LEMMA StepMoved ==
  ASSUME IInv, Step, NEW in \in File, NEW n \in Name, NEW new \in Name, AtMoved(in)
  PROVE  IInv'
<1>1. /\ in \in Inode /\ Root \in Inode /\ in # Root /\ File \subseteq Inode \ {Root}
      /\ vol.count \in [Inode -> Nat]
  BY Known
<1>2. Written /\ All
  BY DEF AtMoved
<1>3. CASE todo = MovedOpen(in) /\ Handles(2, in, 0)
  <2>1. Goes(todo, Op("open", in), RootOnce(in))
    BY <1>3, MoreHeads
  <2>2. Goon(RootOnce(in)) /\ Handled /\ vol'.count = [vol.count EXCEPT ![in] = @ + 1]
    BY <1>1, <2>1, Opening
  <2>3. Handles(2, in, 1)' /\ All'
    BY <1>1, <1>2, <1>3, <2>2 DEF Handled, Handles, All
  <2>4. AtMoved(in)'
    BY <1>2, <2>2, <2>3 DEF AtMoved, Handled, Goon
  <2>5. Running'
    BY <2>4 DEF Running
  <2>6. QED
    BY <2>2, <2>5, NotDone, Going
<1>4. CASE todo = RootOnce(in) /\ Handles(2, in, 1)
  <2>1. Goes(todo, Op("save", Root), RootTwice(in)) /\ vol.count[Root] >= 1
    BY <1>1, <1>4, MoreHeads DEF Handles
  <2>2. /\ Goon(RootTwice(in)) /\ vol'.count = vol.count /\ (Written' <=> Written)
        /\ Saved(vol', Root) /\ \A j \in Inode \ {Root} : Adds(vol', j) <=> Adds(vol, j)
    BY <1>1, <2>1, Saving
  <2>3. Handles(2, in, 1)' /\ All'
    BY <1>1, <1>2, <1>4, <2>2 DEF Handles, All
  <2>4. AtMoved(in)'
    BY <1>2, <2>2, <2>3 DEF AtMoved, Goon
  <2>5. Running'
    BY <2>4 DEF Running
  <2>6. QED
    BY <2>2, <2>5, NotDone, Going
<1>5. CASE todo = RootTwice(in) /\ Handles(2, in, 1)
  <2>1. Goes(todo, Op("save", Root), MovedSave(in)) /\ vol.count[Root] >= 1
    BY <1>1, <1>5, MoreHeads DEF Handles
  <2>2. /\ Goon(MovedSave(in)) /\ vol'.count = vol.count /\ (Written' <=> Written)
        /\ Saved(vol', Root) /\ \A j \in Inode \ {Root} : Adds(vol', j) <=> Adds(vol, j)
    BY <1>1, <2>1, Saving
  <2>3. Handles(2, in, 1)' /\ All'
    BY <1>1, <1>2, <1>5, <2>2 DEF Handles, All
  <2>4. AtMoved(in)'
    BY <1>2, <2>2, <2>3 DEF AtMoved, Goon
  <2>5. Running'
    BY <2>4 DEF Running
  <2>6. QED
    BY <2>2, <2>5, NotDone, Going
<1>6. CASE todo = MovedSave(in) /\ Handles(2, in, 1) /\ Saved(vol, Root)
  <2>1. Goes(todo, Op("save", in), CloseTwice(in)) /\ vol.count[in] >= 1
    BY <1>1, <1>6, MoreHeads DEF Handles
  <2>2. /\ Goon(CloseTwice(in)) /\ vol'.count = vol.count /\ (Written' <=> Written)
        /\ Saved(vol', in) /\ Adds(vol', in)
        /\ \A j \in Inode \ {in} : /\ Saved(vol', j) <=> Saved(vol, j)
                                   /\ Adds(vol', j) <=> Adds(vol, j)
    BY <1>1, <2>1, Saving
  <2>3. Handles(2, in, 1)' /\ All' /\ Saved(vol', Root)
    BY <1>1, <1>2, <1>6, <2>2 DEF Handles, All
  <2>4. AtMoved(in)'
    BY <1>2, <2>2, <2>3 DEF AtMoved, Goon
  <2>5. Running'
    BY <2>4 DEF Running
  <2>6. QED
    BY <2>2, <2>5, NotDone, Going
<1>7. CASE todo = CloseTwice(in) /\ Handles(2, in, 1) /\ Saved(vol, Root) /\ Saved(vol, in)
  <2>1. Goes(todo, Op("close", Root), CloseOnce(in)) /\ vol.count[Root] >= 1
    BY <1>1, <1>7, MoreHeads DEF Handles
  <2>2. Goon(CloseOnce(in)) /\ Handled /\ vol'.count = [vol.count EXCEPT ![Root] = @ - 1]
    BY <1>1, <1>7, <2>1, Closing
  <2>3. Handles(1, in, 1)' /\ All'
    BY <1>1, <1>2, <1>7, <2>2 DEF Handled, Handles, All
  <2>4. AtMoved(in)'
    BY <1>2, <1>7, <2>2, <2>3 DEF AtMoved, Handled, Goon
  <2>5. Running'
    BY <2>4 DEF Running
  <2>6. QED
    BY <2>2, <2>5, NotDone, Going
<1>8. CASE todo = CloseOnce(in) /\ Handles(1, in, 1) /\ Saved(vol, Root) /\ Saved(vol, in)
  <2>1. Goes(todo, Op("close", Root), Close(in, <<>>)) /\ vol.count[Root] >= 1
    BY <1>1, <1>8, MoreHeads DEF Handles
  <2>2. Goon(Close(in, <<>>)) /\ Handled /\ vol'.count = [vol.count EXCEPT ![Root] = @ - 1]
    BY <1>1, <1>8, <2>1, Closing
  <2>3. vol'.count[in] >= 1 /\ Others(in)' /\ RootSafe'
    BY <1>1, <1>2, <1>8, <2>2 DEF Handled, Handles, Others, All, RootSafe
  <2>4. AtEnd(in)'
    <3>1. Close(in, <<>>) # <<>> /\ <<>> # SaveRoot
      BY NotDone
    <3>2. QED
      BY <1>2, <1>8, <2>2, <2>3, <3>1 DEF AtEnd, Handled, Goon
  <2>5. Running'
    BY <2>4 DEF Running
  <2>6. QED
    BY <2>2, <2>5, NotDone, Going
<1>9. QED
  BY <1>3, <1>4, <1>5, <1>6, <1>7, <1>8 DEF AtMoved

\* soWrite, soTruncate and soRead.
LEMMA StepData ==
  ASSUME IInv, Step, NEW in \in File, NEW n \in Name, NEW new \in Name, AtData(in)
  PROVE  IInv'
<1>1. /\ in \in Inode /\ Root \in Inode /\ in # Root /\ File \subseteq Inode \ {Root}
      /\ vol.count \in [Inode -> Nat]
  BY Known
<1>2. RootSafe /\ Written /\ Others(in)
  BY DEF AtData
<1>3. ASSUME todo = Save(in, <<>>), vol.count[in] >= 1
      PROVE  IInv'
  <2>1. <<>> # SaveRoot
    BY NotDone
  <2>2. AtEnd(in)
    BY <1>2, <1>3, <2>1 DEF AtEnd
  <2>3. QED
    BY <2>2, StepEnd
<1>4. ASSUME NEW k \in Nat, Adds(vol, in), todo = Then(Op("open", in), Allocs(k, in))
      PROVE  IInv'
  <2>1. Goes(todo, Op("open", in), Allocs(k, in))
    BY <1>4, MoreHeads
  <2>2. Goon(Allocs(k, in)) /\ Handled /\ vol'.count = [vol.count EXCEPT ![in] = @ + 1]
    BY <1>1, <2>1, Opening
  <2>3. vol'.count[in] >= 1 /\ RootSafe' /\ Others(in)'
    BY <1>1, <1>2, <2>2 DEF Handled, RootSafe, Others, Goon
  <2>4. AtData(in)'
    BY <1>2, <1>4, <2>2, <2>3 DEF AtData, Handled, Goon
  <2>5. Running'
    BY <2>4 DEF Running
  <2>6. QED
    BY <2>2, <2>5, NotDone, Going
<1>5. ASSUME NEW k \in Nat, Adds(vol, in), todo = Allocs(k, in), vol.count[in] >= 1
      PROVE  IInv'
  <2>1. CASE k = 0
    BY <1>3, <1>5, <2>1, MoreHeads
  <2>2. CASE k # 0
    <3>1. k - 1 \in Nat /\ (k - 1) + 1 = k
      BY <2>2
    <3>2. Goes(todo, Op("alloc", in), Allocs(k - 1, in))
      <4>1. Goes(Allocs((k - 1) + 1, in), Op("alloc", in), Allocs(k - 1, in))
        BY <3>1, MoreHeads
      <4>2. QED
        BY <1>5, <3>1, <4>1
    <3>3. /\ Goon(Allocs(k - 1, in)) /\ Rest(in) /\ vol'.count = vol.count /\ Written'
          /\ Adds(vol, in) => Adds(vol', in)
      BY <1>5, <3>2, Allocating
    <3>4. RootSafe' /\ Others(in)'
      BY <1>1, <1>2, <3>3 DEF Rest, RootSafe, Others, Goon
    <3>5. AtData(in)'
      BY <1>5, <3>1, <3>3, <3>4 DEF AtData, Goon
    <3>6. Running'
      BY <3>5 DEF Running
    <3>7. QED
      BY <3>1, <3>3, <3>6, NotDone, Going
  <2>3. QED
    BY <2>1, <2>2
<1>6. ASSUME NEW k \in Nat, k + 1 = Cardinality(Inodes(vol)[in].refs), call = "truncate",
             ~ stale => in \in Linked(vol),
             todo = Then(Op("open", in), Frees(k, in, Save(in, <<>>)))
      PROVE  IInv'
  <2> DEFINE t == Frees(k, in, Save(in, <<>>))
  <2>1. Goes(todo, Op("open", in), t)
    BY <1>6, MoreHeads
  <2>2. t # <<>>
    BY NotDone
  <2> HIDE DEF t
  <2>3. Goon(t) /\ Handled /\ vol'.count = [vol.count EXCEPT ![in] = @ + 1]
    BY <1>1, <2>1, Opening
  <2>4. vol'.count[in] >= 1 /\ RootSafe' /\ Others(in)' /\ call' = "truncate"
    BY <1>1, <1>2, <1>6, <2>2, <2>3 DEF Handled, RootSafe, Others, Goon
  <2>5. AtData(in)'
    BY <1>2, <1>6, <2>3, <2>4 DEF AtData, Handled, Unmoved, Goon, t
  <2>6. Running'
    BY <2>5 DEF Running
  <2>7. QED
    BY <2>2, <2>3, <2>6, Going
<1>7. ASSUME NEW k \in Nat, k + 1 = Cardinality(Inodes(vol)[in].refs), call = "truncate",
             ~ stale => in \in Linked(vol),
             todo = Frees(k, in, Save(in, <<>>)), vol.count[in] >= 1
      PROVE  IInv'
  <2>1. CASE k = 0
    BY <1>3, <1>7, <2>1, MoreHeads
  <2>2. CASE k # 0
    <3> DEFINE t == Frees(k - 1, in, Save(in, <<>>))
    <3>1. k - 1 \in Nat /\ (k - 1) + 1 = k
      BY <2>2
    <3>2. Goes(todo, Op("free", in), t)
      <4>1. Goes(Frees((k - 1) + 1, in, Save(in, <<>>)), Op("free", in), t)
        BY <3>1, MoreHeads
      <4>2. QED
        BY <1>7, <3>1, <4>1
    <3>3. t # <<>>
      BY <3>1, NotDone
    <3> HIDE DEF t
    <3>4. /\ Goon(t) /\ Listing /\ Rest(in) /\ vol'.count = vol.count /\ Written'
          /\ k = Cardinality(Inodes(vol')[in].refs)
      BY ONLY IInv, Step, in \in File, <1>7, <3>2, Releasing
    <3>5. RootSafe' /\ Others(in)' /\ call' = "truncate"
      BY <1>1, <1>2, <1>7, <3>3, <3>4 DEF Rest, RootSafe, Others, Goon
    <3>6. AtData(in)'
      BY <1>7, <3>1, <3>4, <3>5 DEF AtData, Listing, Goon, t
    <3>7. Running'
      BY <3>6 DEF Running
    <3>8. QED
      BY <3>3, <3>4, <3>7, Going
  <2>3. QED
    BY <2>1, <2>2
<1>8. QED
  BY <1>4, <1>5, <1>6, <1>7 DEF AtData

\* Whatever the operation.
LEMMA StepKeeps ==
  ASSUME IInv, Step
  PROVE  IInv'
<1>1. Running
  BY DEF IInv, Step
<1>2. PICK in \in File, n \in Name, new \in Name :
        \/ AtEnd(in) \/ AtTake(n, in) \/ AtMade(n, in) \/ AtLink(n, in) \/ AtCount(in)
        \/ AtUnlink(n, in) \/ AtGive(in)
        \/ AtMove(n, new, in) \/ AtMoveAdd(new, in) \/ AtMoved(in)
        \/ AtData(in)
  BY <1>1 DEF Running
<1>3. QED
  BY <1>2, StepEnd, StepTake, StepMade, StepLink, StepCount, StepUnlink, StepGive,
     StepMove, StepMoveAdd, StepMoved, StepData

-----------------------------------------------------------------------------
(* The other actions                                                          *)

\* A call begins.
LEMMA Beginning ==
  ASSUME IInv, NEW name, name # "none", NEW ops, Calls(name, ops), Running'
  PROVE  IInv'
<1>1. /\ torn' = torn /\ stale' = stale /\ vol' = vol /\ call' = name
      /\ torn \in BOOLEAN /\ stale \in BOOLEAN /\ Fit(vol, stale, torn, FALSE)
  BY DEF IInv, Calls
<1>2. Fit(vol', stale', torn', call' = "truncate")
  BY <1>1 DEF Fit
<1>3. QED
  BY <1>1, <1>2 DEF IInv

\* What it finds.
LEMMA Beginnings ==
  ASSUME IInv, call = "none"
  PROVE  /\ vol \in Volumes /\ Written /\ RootSafe /\ All
         /\ ~ stale => Entries(vol) = Entered(vol)
         /\ \A in \in File : Cardinality(Inodes(vol)[in].refs) \in Nat
         /\ \A e \in Entries(vol) :
              /\ e.name \in Name /\ e.in \in File
              /\ [name |-> e.name, in |-> e.in] \in Entered(vol) /\ e.in \in Linked(vol)
              /\ Size(vol) >= 1
         /\ \A e, d \in Entries(vol) : e.name # d.name => Size(vol) >= 2
<1>1. vol \in Volumes /\ Fit(vol, stale, torn, FALSE) /\ Written /\ RootSafe /\ All
  BY DEF IInv, Idle, Fit
<1>2. ~ stale => Entries(vol) = Entered(vol)
  BY <1>1, ListedEntries DEF Fit, Sound
<1>3. ASSUME NEW in \in File PROVE Cardinality(Inodes(vol)[in].refs) \in Nat
  <2>1. Inodes(vol)[in].refs \subseteq Cluster
    BY <1>1, VolumeTypes DEF InodeType
  <2>2. QED
    BY <2>1, DealersAssumption, FS_Subset, FS_CardinalityType
<1>4. /\ Size(vol) \in Nat
      /\ \A e \in Entries(vol) : \E s \in Slot : s < Size(vol) /\ vol.dir[s] = e /\ e # NoEntry
  BY <1>1, VolumeTypes DEF Entries, Visible, Size
<1>5. ASSUME NEW e \in Entries(vol)
      PROVE  /\ e.name \in Name /\ e.in \in File
             /\ [name |-> e.name, in |-> e.in] \in Entered(vol) /\ e.in \in Linked(vol)
             /\ Size(vol) >= 1
  <2>1. PICK s \in Slot : s < Size(vol) /\ vol.dir[s] = e /\ e # NoEntry
    BY <1>4
  <2>2. e \in Entered(vol) /\ e \in Entry
    BY <1>1, <2>1, VolumeTypes DEF Entered
  <2>3. e = [name |-> e.name, in |-> e.in] /\ e.name \in Name /\ e.in \in File
    BY <2>2 DEF Entry
  <2>4. Size(vol) >= 1
    BY <1>4, <2>1, VolumeAssumption DEF Slot
  <2>5. QED
    BY <2>2, <2>3, <2>4 DEF Linked
<1>6. ASSUME NEW e \in Entries(vol), NEW d \in Entries(vol), e.name # d.name
      PROVE  Size(vol) >= 2
  <2>1. PICK s \in Slot : s < Size(vol) /\ vol.dir[s] = e
    BY <1>4
  <2>2. PICK r \in Slot : r < Size(vol) /\ vol.dir[r] = d
    BY <1>4
  <2>3. s # r
    BY <1>6, <2>1, <2>2
  <2>4. QED
    BY <1>4, <2>1, <2>2, <2>3, VolumeAssumption DEF Slot
<1>7. QED
  BY <1>1, <1>2, <1>3, <1>5, <1>6

\* soMknod and soSymlink.
LEMMA BeginMake ==
  ASSUME IInv, NEW in \in File, NEW n \in Name,
         ~ \E e \in Entries(vol) : e.name = n,
         vol.sb.ifree # {} => in \in vol.sb.ifree,
         Calls("mknod", Mknod(n, in)) \/ Calls("symlink", Symlink(n, in))
  PROVE  IInv'
<1>1. /\ call = "none" /\ vol' = vol /\ stale' = stale
  BY DEF Calls
<1>2. /\ Written /\ RootSafe /\ All
      /\ ~ stale => n \notin Used(vol)
  BY <1>1, Beginnings DEF Used
<1>3. Mknod(n, in) = Make(in, NodeAdd(n, in)) /\ Symlink(n, in) = Make(in, LinkCount(n, in))
  <2>1. Cardinality(Inodes(vol)[in].refs) \in Nat
    BY <1>1, Beginnings
  <2>2. QED
    BY ONLY <2>1, in \in File, n \in Name, 0 \in Nat, CallPrograms
<1>4. PICK t \in Makes(n, in) : todo' = Make(in, t)
  BY <1>3 DEF Calls, Makes
<1>5. Written' /\ RootSafe' /\ All'
  BY <1>1, <1>2 DEF Written, RootSafe, All
<1>6. AtTake(n, in)'
  BY <1>1, <1>2, <1>4, <1>5 DEF AtTake
<1>7. Running'
  BY <1>6 DEF Running
<1>8. QED
  BY <1>7, Beginning

\* soUnlink.
LEMMA BeginUnlink ==
  ASSUME IInv, NEW e \in Entries(vol), Calls("unlink", Unlink(e.name, e.in))
  PROVE  IInv'
<1>1. call = "none" /\ vol' = vol /\ stale' = stale
  BY DEF Calls
<1> DEFINE n == e.name
           in == e.in
           k == Cardinality(Inodes(vol)[in].refs)
<1>2. /\ Written /\ RootSafe /\ All
      /\ n \in Name /\ in \in File /\ k \in Nat
      /\ [name |-> n, in |-> in] \in Entered(vol) /\ Size(vol) >= 1
  BY <1>1, Beginnings
<1>3. todo' = Unlink(n, in) /\ Calls("unlink", Unlink(n, in))
  BY DEF Calls
<1>4. k = Cardinality(Inodes(vol)[in].refs)
  OBVIOUS
<1> HIDE DEF n, in, k
<1>5. Unlink(n, in) = UnlinkRoot(n, in, k)
  BY ONLY <1>2, <1>4, 0 \in Nat, CallPrograms
<1>6. Written' /\ RootSafe' /\ All'
  BY <1>1, <1>2 DEF Written, RootSafe, All
<1>7. AtUnlink(n, in)'
  BY <1>1, <1>2, <1>3, <1>4, <1>5, <1>6 DEF AtUnlink
<1>8. Running'
  BY <1>2, <1>7 DEF Running
<1>9. QED
  BY <1>3, <1>8, Beginning

\* soRename.
LEMMA BeginMove ==
  ASSUME IInv, NEW e \in Entries(vol), NEW new \in Name \ {e.name},
         Calls("rename", Rename(e.name, new, e.in))
  PROVE  IInv'
<1>1. call = "none" /\ vol' = vol /\ stale' = stale
  BY DEF Calls
<1> DEFINE n == e.name
           in == e.in
           k == Cardinality(Inodes(vol)[in].refs)
           t == IF \E d \in Entries(vol) : d.name = new THEN MoveOver(n, new, in)
                ELSE MoveDelete(n, new, in)
<1>2. /\ Written /\ RootSafe /\ All
      /\ n \in Name /\ in \in File /\ k \in Nat
      /\ [name |-> n, in |-> in] \in Entered(vol) /\ Size(vol) >= 1
      /\ (\E d \in Entries(vol) : d.name = new) => Size(vol) >= 2
      /\ ~ stale => Entries(vol) = Entered(vol)
  BY <1>1, Beginnings
<1>3. /\ todo' = Rename(n, new, in) /\ Calls("rename", Rename(n, new, in))
      /\ new \in Name /\ n # new
  BY DEF Calls
<1>4. k = Cardinality(Inodes(vol)[in].refs)
  OBVIOUS
<1> HIDE DEF n, in, k
<1>5. Rename(n, new, in) = MoveRoot(t)
  BY ONLY <1>2, <1>3, <1>4, 0 \in Nat, CallPrograms
<1>6. Written' /\ RootSafe' /\ All'
  BY <1>1, <1>2 DEF Written, RootSafe, All
<1>7. MoveOver(n, new, in) # MoveDelete(n, new, in)
  BY <1>2, <1>3, MovesDiffer
<1>8. /\ t \in Moves(n, new, in)
      /\ ~ stale => /\ t = MoveDelete(n, new, in) => new \notin Used(vol)
                    /\ t = MoveOver(n, new, in) => new \in Used(vol)
      /\ Size(vol) >= IF t = MoveOver(n, new, in) THEN 2 ELSE 1
  BY <1>2, <1>7 DEF Moves, Used
<1> HIDE DEF t
<1>9. AtMove(n, new, in)'
  BY <1>1, <1>2, <1>3, <1>5, <1>6, <1>8 DEF AtMove
<1>10. Running'
  BY <1>2, <1>3, <1>9 DEF Running
<1>11. QED
  BY <1>3, <1>10, Beginning

\* soWrite, soTruncate and soRead.
LEMMA BeginData ==
  ASSUME IInv, NEW e \in Entries(vol),
         \/ \E k \in 1 .. 2 : Calls("write", Write(e.in, k))
         \/ Inodes(vol)[e.in].refs # {} /\ Calls("truncate", Truncate(e.in))
         \/ Calls("read", Read(e.in))
  PROVE  IInv'
<1>1. call = "none" /\ vol' = vol /\ stale' = stale
  BY DEF Calls
<1> DEFINE n == e.name
           in == e.in
           k == Cardinality(Inodes(vol)[in].refs)
<1>2. /\ Written /\ RootSafe /\ All
      /\ n \in Name /\ in \in File /\ k \in Nat /\ in \in Linked(vol)
  BY <1>1, Beginnings
<1>3. \/ \E j \in 1 .. 2 : Calls("write", Write(in, j))
      \/ Inodes(vol)[in].refs # {} /\ Calls("truncate", Truncate(in))
      \/ Calls("read", Read(in))
  OBVIOUS
<1>4. k = Cardinality(Inodes(vol)[in].refs)
  OBVIOUS
<1> HIDE DEF n, in, k
<1>5. /\ \A j \in Nat : Write(in, j) = Then(Op("open", in), Allocs(j, in))
      /\ k > 0 => Truncate(in) = Then(Op("open", in), Frees(k - 1, in, Save(in, <<>>)))
      /\ Read(in) = Then(Op("open", in), Save(in, <<>>))
  BY ONLY <1>2, <1>4, 0 \in Nat, CallPrograms
<1>6. Written' /\ RootSafe' /\ Others(in)' /\ Adds(vol', in)
  BY <1>1, <1>2 DEF Written, RootSafe, All, Others
<1>7. ASSUME NEW j \in Nat, NEW name, name # "none", Calls(name, Then(Op("open", in), Allocs(j, in)))
      PROVE  IInv'
  <2>1. AtData(in)'
    BY <1>6, <1>7 DEF AtData, Calls
  <2>2. Running'
    BY <1>2, <2>1 DEF Running
  <2>3. QED
    BY <1>7, <2>2, Beginning
<1>8. ASSUME Inodes(vol)[in].refs # {}, Calls("truncate", Truncate(in))
      PROVE  IInv'
  <2>1. IsFiniteSet(Inodes(vol)[in].refs)
    <3>1. Inodes(vol)[in].refs \subseteq Cluster
      BY <1>1, <1>2, Beginnings, VolumeTypes DEF InodeType
    <3>2. QED
      BY <3>1, DealersAssumption, FS_Subset
  <2>2. k > 0 /\ k - 1 \in Nat /\ (k - 1) + 1 = k
    BY <1>2, <1>4, <1>8, <2>1, FS_EmptySet
  <2>3. todo' = Then(Op("open", in), Frees(k - 1, in, Save(in, <<>>))) /\ call' = "truncate"
    BY <1>5, <1>8, <2>2 DEF Calls
  <2>4. AtData(in)'
    BY <1>1, <1>2, <1>4, <1>6, <2>2, <2>3 DEF AtData
  <2>5. Running'
    BY <1>2, <2>4 DEF Running
  <2>6. QED
    BY <1>8, <2>5, Beginning
<1>9. CASE \E j \in 1 .. 2 : Calls("write", Write(in, j))
  <2>1. PICK j \in 1 .. 2 : Calls("write", Write(in, j))
    BY <1>9
  <2>2. j \in Nat
    OBVIOUS
  <2>3. QED
    BY <1>5, <1>7, <2>1, <2>2
<1>10. CASE Calls("read", Read(in))
  <2>1. Read(in) = Then(Op("open", in), Allocs(0, in))
    BY <1>2, <1>5, MoreHeads
  <2>2. QED
    BY <1>7, <1>10, <2>1
<1>11. QED
  BY <1>3, <1>8, <1>9, <1>10

\* Whatever the call.
LEMMA CallKeeps ==
  ASSUME IInv, Call
  PROVE  IInv'
<1>1. CASE \E n \in Name, in \in File :
             /\ ~ \E e \in Entries(vol) : e.name = n
             /\ vol.sb.ifree # {} => in \in vol.sb.ifree
             /\ Calls("mknod", Mknod(n, in)) \/ Calls("symlink", Symlink(n, in))
  BY <1>1, BeginMake
<1>2. CASE \E e \in Entries(vol) : Calls("unlink", Unlink(e.name, e.in))
  BY <1>2, BeginUnlink
<1>3. CASE \E e \in Entries(vol) : \E new \in Name \ {e.name} :
             Calls("rename", Rename(e.name, new, e.in))
  BY <1>3, BeginMove
<1>4. CASE \E e \in Entries(vol) :
             \/ \E k \in 1 .. 2 : Calls("write", Write(e.in, k))
             \/ Inodes(vol)[e.in].refs # {} /\ Calls("truncate", Truncate(e.in))
             \/ Calls("read", Read(e.in))
  BY <1>4, BeginData
<1>5. QED
  BY <1>1, <1>2, <1>3, <1>4 DEF Call

\* Operations that do not throw.
LEMMA Calm ==
  ASSUME IInv, NEW i, NEW do, NEW t, Goes(todo, Op(do, i), t),
         \/ do \in {"open", "sbsave", "give", "free"}
         \/ do \in {"save", "close", "inc", "dec"} /\ vol.count[i] >= 1
  PROVE  ~ Throws(vol, Head(todo))
<1>1. vol.count[i] >= 1 => vol.count[i] # 0
  OBVIOUS
<1>2. Head(todo) = Op(do, i)
  BY DEF Goes
<1>3. ~ Throws(vol, Op(do, i))
  BY <1>1 DEF Throws, Op, NotOpen
<1>4. QED
  BY <1>2, <1>3

\* Where one does, all is well: the clusters of the files are, or are more than,
\* what the disk says.
LEMMA ThrowMake ==
  ASSUME IInv, Throws(vol, Head(todo)), NEW in \in File, NEW n \in Name, NEW new \in Name,
         AtEnd(in) \/ AtTake(n, in) \/ AtMade(n, in) \/ AtLink(n, in) \/ AtCount(in)
  PROVE  Written /\ RootSafe /\ All
<1>1. in \in Inode /\ Root \in Inode /\ vol.count \in [Inode -> Nat]
  BY Known
<1>2. CASE AtEnd(in)
  <2>1. CASE todo = CloseRoot /\ vol.count[Root] >= 1
    BY <2>1, Heads, Calm
  <2>2. CASE todo = SaveRoot /\ vol.count[Root] >= 1
    BY <2>2, Heads, Calm
  <2>3. ASSUME NEW t \in {<<>>, SaveRoot}, todo = Save(in, t) \/ todo = Close(in, t),
               vol.count[in] >= 1
        PROVE  FALSE
    <3>1. Goes(todo, Op("save", in), Close(in, t)) \/ Goes(todo, Op("close", in), t)
      BY <2>3, Heads
    <3>2. QED
      BY <2>3, <3>1, Calm
  <2>4. QED
    BY <1>2, <2>1, <2>2, <2>3 DEF AtEnd
<1>3. CASE AtTake(n, in)
  BY <1>3 DEF AtTake
<1>4. CASE AtMade(n, in)
  <2>1. PICK t \in Makes(n, in) :
          /\ RootSafe /\ Others(in)
          /\ \/ todo = TookSave(in, t) /\ Handles(1, in, 1)
             \/ todo = TookSuper(in, t)
             \/ todo = TookClose(in, t) /\ Handles(1, in, 1)
             \/ todo = MadeOpen(in, t)
             \/ todo = MadeSave(in, t) /\ Handles(1, in, 1)
             \/ todo = t /\ Saved(vol, in) /\ Written
    BY <1>4 DEF AtMade
  <2>2. CASE todo = TookSave(in, t) /\ Handles(1, in, 1)
    <3>1. Goes(todo, Op("save", in), TookSuper(in, t)) /\ vol.count[in] >= 1
      BY <2>2, Heads DEF Handles
    <3>2. QED
      BY <3>1, Calm
  <2>3. CASE todo = TookSuper(in, t)
    <3>1. Goes(todo, Op("sbsave", in), TookClose(in, t))
      BY <2>3, Heads
    <3>2. QED
      BY <3>1, Calm
  <2>4. CASE todo = TookClose(in, t) /\ Handles(1, in, 1)
    <3>1. Goes(todo, Op("close", in), MadeOpen(in, t)) /\ vol.count[in] >= 1
      BY <2>4, Heads DEF Handles
    <3>2. QED
      BY <3>1, Calm
  <2>5. CASE todo = MadeOpen(in, t)
    <3>1. Goes(todo, Op("open", in), MadeSave(in, t))
      BY <2>5, Heads
    <3>2. QED
      BY <3>1, Calm
  <2>6. CASE todo = MadeSave(in, t) /\ Handles(1, in, 1)
    <3>1. Goes(todo, Op("save", in), t) /\ vol.count[in] >= 1
      BY <2>6, Heads DEF Handles
    <3>2. QED
      BY <3>1, Calm
  <2>7. CASE todo = t /\ Saved(vol, in) /\ Written
    BY <2>1, <2>7 DEF Others, All, Saved, Adds
  <2>8. QED
    BY <2>1, <2>2, <2>3, <2>4, <2>5, <2>6, <2>7
<1>5. CASE AtLink(n, in)
  BY <1>5 DEF AtLink
<1>6. CASE AtCount(in)
  <2>1. Goes(todo, Op("inc", in), Save(in, SaveRoot)) /\ vol.count[in] >= 1
    BY <1>6, Heads DEF AtCount, Handles
  <2>2. QED
    BY <2>1, Calm
<1>7. QED
  BY <1>2, <1>3, <1>4, <1>5, <1>6

\* In soRename only what finds the directory with a wrong size throws.
LEMMA ThrowMove ==
  ASSUME IInv, Throws(vol, Head(todo)), NEW in \in File, NEW n \in Name, NEW new \in Name,
         AtMove(n, new, in) \/ AtMoveAdd(new, in) \/ AtMoved(in)
  PROVE  Written /\ RootSafe /\ All
<1>1. /\ in \in Inode /\ Root \in Inode /\ vol \in Volumes /\ vol.count \in [Inode -> Nat]
      /\ Fit(vol, stale, torn, call = "truncate")
  BY Known
<1>2. ~ stale => Listed(vol) /\ Entries(vol) = Entered(vol)
  BY <1>1, ListedEntries DEF Fit, Sound
<1>3. \A m \in Used(vol) : Holding(vol, m) # {}
  BY DEF Used, Entered, Holding
<1>4. CASE AtMove(n, new, in)
  <2>1. PICK t \in Moves(n, new, in) :
          /\ Written /\ All
          /\ ~ stale => /\ [name |-> n, in |-> in] \in Entered(vol)
                        /\ t = MoveOver(n, new, in) => new \in Used(vol)
          /\ RootSafe \/ todo = t
    BY <1>4 DEF AtMove
  <2>2. ASSUME ~ stale, todo = t PROVE FALSE
    <3>1. CASE t = MoveOver(n, new, in)
      <4>1. Head(todo) = Named("delete", new, in) /\ new \in Used(vol)
        BY <2>1, <2>2, <3>1, MoreHeads DEF Goes
      <4>2. QED
        BY <1>3, <4>1, ThrowsIs
    <3>2. CASE t = MoveDelete(n, new, in)
      <4>1. Head(todo) = Named("delete", n, in)
        BY <2>1, <2>2, <3>2, MoreHeads DEF Goes
      <4>2. n \in Used(vol)
        <5>1. [name |-> n, in |-> in].name = n
          OBVIOUS
        <5>2. QED
          BY <2>1, <2>2, <5>1 DEF Used
      <4>3. QED
        BY <1>3, <4>1, <4>2, ThrowsIs
    <3>3. QED
      BY <3>1, <3>2 DEF Moves
  <2>3. QED
    BY <2>1, <2>2 DEF RootSafe
<1>5. CASE AtMoveAdd(new, in)
  <2>1. Head(todo) = Named("add", new, in)
    BY <1>5, MoreHeads DEF AtMoveAdd, Goes
  <2>2. ASSUME ~ stale PROVE FALSE
    <3>1. ~ \E e \in Entries(vol) : e.name = new
      BY <1>2, <1>5, <2>2 DEF AtMoveAdd, Used
    <3>2. /\ vol.count[Root] > 0 /\ Size(vol) < DPC
          /\ Size(vol) \in 0 .. DPC /\ DPC \in Nat
      BY <1>1, <1>5, <2>2, VolumeTypes DEF AtMoveAdd
    <3>3. vol.cache[Root].size = Size(vol)
      BY <1>1, <3>2 DEF Size, Inodes
    <3>4. ~ (vol.cache[Root].size >= DPC)
      BY <3>2, <3>3
    <3>5. QED
      BY <2>1, <3>1, <3>4, ThrowsIs
  <2>3. QED
    BY <1>5, <2>2 DEF AtMoveAdd, RootSafe
<1>6. CASE AtMoved(in)
  <2>1. \/ Goes(todo, Op("open", in), RootOnce(in))
        \/ Goes(todo, Op("save", Root), RootTwice(in)) /\ vol.count[Root] >= 1
        \/ Goes(todo, Op("save", Root), MovedSave(in)) /\ vol.count[Root] >= 1
        \/ Goes(todo, Op("save", in), CloseTwice(in)) /\ vol.count[in] >= 1
        \/ Goes(todo, Op("close", Root), CloseOnce(in)) /\ vol.count[Root] >= 1
        \/ Goes(todo, Op("close", Root), Close(in, <<>>)) /\ vol.count[Root] >= 1
    BY <1>1, <1>6, MoreHeads DEF AtMoved, Handles
  <2>2. QED
    BY <2>1, Calm
<1>7. QED
  BY <1>4, <1>5, <1>6

\* In soUnlink, soWrite, soTruncate and soRead.
LEMMA ThrowRest ==
  ASSUME IInv, Throws(vol, Head(todo)), NEW in \in File, NEW n \in Name, NEW new \in Name,
         AtUnlink(n, in) \/ AtGive(in) \/ AtData(in)
  PROVE  Written /\ RootSafe /\ All
<1>1. in \in Inode /\ Root \in Inode /\ vol.count \in [Inode -> Nat]
  BY Known
<1>2. ASSUME NEW k \in Nat, NEW t \in {Give(in), Save(in, <<>>)}, todo = Frees(k, in, t),
             t = Save(in, <<>>) => vol.count[in] >= 1
      PROVE  FALSE
  <2>1. CASE k = 0
    <3>1. \/ Goes(todo, Op("give", in), GaveSave(in))
          \/ Goes(todo, Op("save", in), Close(in, <<>>)) /\ vol.count[in] >= 1
      BY <1>2, <2>1, Heads, MoreHeads
    <3>2. QED
      BY <3>1, Calm
  <2>2. CASE k # 0
    <3>1. k - 1 \in Nat /\ (k - 1) + 1 = k
      BY <2>2
    <3>2. Goes(Frees((k - 1) + 1, in, t), Op("free", in), Frees(k - 1, in, t))
      BY <3>1, MoreHeads
    <3>3. Goes(todo, Op("free", in), Frees(k - 1, in, t))
      BY <1>2, <3>1, <3>2
    <3>4. QED
      BY <3>3, Calm
  <2>3. QED
    BY <2>1, <2>2
<1>3. CASE AtUnlink(n, in)
  BY <1>3 DEF AtUnlink
<1>4. CASE AtGive(in)
  <2>1. \/ \E k \in Nat : todo = Frees(k, in, Give(in)) /\ vol.count[in] >= 1
        \/ Goes(todo, Op("save", in), GaveSuper(in)) /\ vol.count[in] >= 1
        \/ Goes(todo, Op("sbsave", in), GaveClose(in))
        \/ Goes(todo, Op("close", in), Save(in, SaveRoot)) /\ vol.count[in] >= 1
    BY <1>1, <1>4, MoreHeads DEF AtGive, Handles
  <2>2. QED
    BY <1>2, <2>1, Calm
<1>5. CASE AtData(in)
  <2>1. ASSUME ~ Adds(vol, in) PROVE FALSE
    <3>1. PICK k \in Nat :
            \/ todo = Frees(k, in, Save(in, <<>>)) /\ vol.count[in] >= 1
            \/ todo = Then(Op("open", in), Frees(k, in, Save(in, <<>>)))
      BY <1>5, <2>1 DEF AtData
    <3>2. CASE todo = Then(Op("open", in), Frees(k, in, Save(in, <<>>)))
      <4>1. Goes(todo, Op("open", in), Frees(k, in, Save(in, <<>>)))
        BY <3>2, MoreHeads
      <4>2. QED
        BY <4>1, Calm
    <3>3. QED
      BY <1>2, <3>1, <3>2
  <2>2. QED
    BY <1>5, <2>1 DEF AtData, Others, All
<1>6. QED
  BY <1>3, <1>4, <1>5

\* A call ends with an error.
LEMMA CatchKeeps ==
  ASSUME IInv, Catch
  PROVE  IInv'
<1>1. /\ Running /\ Throws(vol, Head(todo)) /\ todo' = <<>> /\ call' = "none"
      /\ vol' = vol /\ torn' = torn /\ stale' = stale
      /\ torn \in BOOLEAN /\ stale \in BOOLEAN /\ Fit(vol, stale, torn, call = "truncate")
  BY DEF Catch, IInv
<1>2. PICK in \in File, n \in Name, new \in Name :
        \/ AtEnd(in) \/ AtTake(n, in) \/ AtMade(n, in) \/ AtLink(n, in) \/ AtCount(in)
        \/ AtUnlink(n, in) \/ AtGive(in)
        \/ AtMove(n, new, in) \/ AtMoveAdd(new, in) \/ AtMoved(in)
        \/ AtData(in)
  BY <1>1 DEF Running
<1>3. Written /\ RootSafe /\ All
  BY <1>1, <1>2, ThrowMake, ThrowMove, ThrowRest
<1>4. Idle'
  BY <1>1, <1>3 DEF Idle, Written, RootSafe, All
<1>5. Fit(vol, stale, torn, FALSE)
  <2>1. Linked(vol) \subseteq File
    BY <1>1, VolumeTypes DEF Fit
  <2>2. QED
    BY <1>1, <1>3, <2>1 DEF Fit, All
<1>6. QED
  BY <1>1, <1>4, <1>5 DEF IInv

\* The volume is mounted again, or the machine stops first.
LEMMA MountKeeps ==
  ASSUME IInv, Remount \/ Crash
  PROVE  IInv'
<1> DEFINE cut == call = "truncate"
<1>1. /\ torn \in BOOLEAN /\ stale \in BOOLEAN /\ Fit(vol, stale, torn, cut)
      /\ vol' = Mounted(vol) /\ call' = "none"
      /\ torn' \in BOOLEAN /\ stale' \in BOOLEAN
      /\ torn => torn'
      /\ stale => stale'
  BY DEF IInv, Remount, Crash
<1>2. todo' = <<>>
  BY DEF IInv, Idle, Remount, Crash
<1>3. Linked(vol) \subseteq File
  BY <1>1, VolumeTypes DEF Fit
<1>4. ~ stale' => Saved(vol, Root)
  BY DEF IInv, Idle, RootSafe, Remount, Crash, Unsaved, Saved
<1>5. ~ stale' /\ ~ torn' /\ cut => \A i \in Linked(vol) : Saved(vol, i)
  <2>1. ASSUME ~ torn', cut PROVE \A i \in File : ~ Unsaved(i)
    BY <2>1 DEF Remount, Crash
  <2>2. QED
    BY <1>3, <2>1 DEF Unsaved, Saved
<1>6. Fit(vol, stale', torn', cut)
  BY <1>1 DEF Fit
<1> HIDE DEF cut
<1>7. /\ Fit(vol', stale', torn', FALSE) /\ vol'.sb = vol'.dsb
      /\ \A i \in Inode : Saved(vol', i) /\ Adds(vol', i)
  BY ONLY <1>1, <1>4, <1>5, <1>6, FitMount
<1>8. Idle'
  BY <1>2, <1>7, DealersAssumption DEF Idle, Written, RootSafe, All, File
<1>9. QED
  BY <1>1, <1>7, <1>8 DEF IInv

\* The volume as it is formatted.
LEMMA InitKeeps ==
  ASSUME Init
  PROVE  IInv
<1> DEFINE sb0 == [ifree |-> File, cfree |-> Cluster]
           disk0 == [i \in Inode |-> IF i = Root THEN Blank ELSE [Blank EXCEPT !.free = TRUE]]
<1>1. /\ vol = [ sb |-> sb0, dsb |-> sb0,
                 cache |-> [i \in Inode |-> Blank], count |-> [i \in Inode |-> 0],
                 disk |-> disk0, dir |-> [s \in Slot |-> NoEntry] ]
      /\ call = "none" /\ todo = <<>> /\ torn = FALSE /\ stale = FALSE
  BY DEF Init
<1>2. Blank \in InodeType /\ [Blank EXCEPT !.free = TRUE] \in InodeType /\ Blank.size = 0
  <2>1. Blank \in InodeType /\ Blank.size = 0
    BY VolumeAssumption DEF Blank, InodeType
  <2>2. QED
    BY <2>1 DEF InodeType
<1>3. /\ sb0 \in Superblock /\ disk0 \in [Inode -> InodeType]
      /\ Root \in Inode /\ disk0[Root].size = 0
  BY <1>2, DealersAssumption DEF Superblock, File
<1> HIDE DEF sb0, disk0
<1>4. /\ vol \in Volumes /\ vol.sb = vol.dsb
      /\ vol.count = [i \in Inode |-> 0] /\ vol.disk = disk0
      /\ \A s \in Slot : vol.dir[s] = NoEntry
  BY <1>1, <1>2, <1>3 DEF Volumes
<1>5. \A i \in Inode : Inodes(vol)[i] = disk0[i] /\ Saved(vol, i) /\ Adds(vol, i)
  BY <1>4 DEF Inodes, Saved, Adds
<1>6. Size(vol) = 0
  BY <1>3, <1>5 DEF Size
<1>7. Entered(vol) = {} /\ Linked(vol) = {}
  BY <1>4 DEF Entered, Linked
<1>8. Listed(vol)
  BY <1>4, <1>6, VolumeAssumption DEF Listed, Slot
<1>9. Fit(vol, FALSE, FALSE, FALSE)
  BY <1>4, <1>7, <1>8 DEF Fit, Sound, Unshared
<1>10. Idle
  BY <1>1, <1>4, <1>5, DealersAssumption DEF Idle, Written, RootSafe, All, File
<1>11. QED
  BY <1>1, <1>9, <1>10 DEF IInv

\* Nothing happens.
LEMMA StutterKeeps ==
  ASSUME IInv, UNCHANGED vars
  PROVE  IInv'
<1>1. vol' = vol /\ call' = call /\ todo' = todo /\ torn' = torn /\ stale' = stale
  BY DEF vars
<1>2. CASE call = "none"
  BY <1>1, <1>2 DEF IInv, Idle, Written, RootSafe, All
<1>3. ASSUME call # "none"
      PROVE  Running'
  <2>1. PICK in \in File, n \in Name, new \in Name :
          \/ AtEnd(in) \/ AtTake(n, in) \/ AtMade(n, in) \/ AtLink(n, in) \/ AtCount(in)
          \/ AtUnlink(n, in) \/ AtGive(in)
          \/ AtMove(n, new, in) \/ AtMoveAdd(new, in) \/ AtMoved(in)
          \/ AtData(in)
    BY <1>3 DEF IInv, Running
  <2>2. /\ (Written' <=> Written) /\ (RootSafe' <=> RootSafe) /\ (All' <=> All)
        /\ Others(in)' <=> Others(in)
        /\ \A r, k : Handles(r, in, k)' <=> Handles(r, in, k)
    BY <1>1 DEF Written, RootSafe, All, Others, Handles
  <2>3. /\ AtEnd(in) => AtEnd(in)'
        /\ AtTake(n, in) => AtTake(n, in)'
    BY <1>1, <2>2 DEF AtEnd, AtTake
  <2>4. /\ AtMade(n, in) => AtMade(n, in)'
        /\ AtLink(n, in) => AtLink(n, in)'
        /\ AtCount(in) => AtCount(in)'
    BY <1>1, <2>2 DEF AtMade, AtLink, AtCount
  <2>5. /\ AtUnlink(n, in) => AtUnlink(n, in)'
        /\ AtGive(in) => AtGive(in)'
    BY <1>1, <2>2 DEF AtUnlink, AtGive
  <2>6. /\ AtMove(n, new, in) => AtMove(n, new, in)'
        /\ AtMoveAdd(new, in) => AtMoveAdd(new, in)'
        /\ AtMoved(in) => AtMoved(in)'
    BY <1>1, <2>2 DEF AtMove, AtMoveAdd, AtMoved
  <2>7. AtData(in) => AtData(in)'
    BY <1>1, <2>2 DEF AtData
  <2>8. QED
    BY <2>1, <2>3, <2>4, <2>5, <2>6, <2>7 DEF Running
<1>4. QED
  BY <1>1, <1>2, <1>3 DEF IInv

\* Every reachable state satisfies the annotations.
THEOREM Invariance == Spec => []IInv
<1>1. Init => IInv
  BY InitKeeps
<1>2. IInv /\ [Next]_vars => IInv'
  <2> SUFFICES ASSUME IInv, [Next]_vars PROVE IInv'
    OBVIOUS
  <2>1. CASE Call
    BY <2>1, CallKeeps
  <2>2. CASE Step
    BY <2>2, StepKeeps
  <2>3. CASE Catch
    BY <2>3, CatchKeeps
  <2>4. CASE Remount
    BY <2>4, MountKeeps
  <2>5. CASE Crash
    BY <2>5, MountKeeps
  <2>6. CASE UNCHANGED vars
    BY <2>6, StutterKeeps
  <2>7. QED
    BY <2>1, <2>2, <2>3, <2>4, <2>5, <2>6 DEF Next
<1>3. QED
  BY <1>1, <1>2, PTL DEF Spec

-----------------------------------------------------------------------------
(* What follows                                                               *)

\* What the next operation of a call finds.
Ahead(op) ==
  /\ op \in Ops
  /\ \A i : op = Op("close", i) => Saved(vol, i)
  /\ op.do \in {"add", "delete"} => vol.count[Root] >= 1

\* Few operations need it.
LEMMA Aheads ==
  ASSUME NEW in \in File, NEW n \in Name
  PROVE  /\ \A do \in Verbs \ {"close", "add", "delete"} : \A i \in {in, Root} : Ahead(Op(do, i))
         /\ \A i \in {in, Root} : Saved(vol, i) => Ahead(Op("close", i))
         /\ \A do \in {"add", "delete"} : vol.count[Root] >= 1 => Ahead(Named(do, n, in))
<1>1. in \in Inode /\ Root \in Inode
  BY DealersAssumption DEF File
<1>2. ASSUME NEW do \in Verbs, NEW i \in {in, Root}
      PROVE  /\ Op(do, i) \in Ops /\ Op(do, i).do = do
             /\ \A j : Op(do, i) = Op("close", j) => do = "close" /\ i = j
  <2>1. Op(do, i) \in Ops
    BY <1>1 DEF Op, Ops
  <2>2. \A d, j : Op(d, j).do = d /\ Op(d, j).in = j
    BY DEF Op
  <2>3. QED
    BY <2>1, <2>2
<1>3. ASSUME NEW do \in {"add", "delete"}
      PROVE  /\ Named(do, n, in) \in Ops /\ Named(do, n, in).do = do
             /\ \A j : Named(do, n, in) # Op("close", j)
  <2>1. Named(do, n, in) \in Ops
    BY <1>1 DEF Named, Ops, Verbs
  <2>2. Named(do, n, in).do = do /\ \A j : Op("close", j).do = "close"
    BY DEF Named, Op
  <2>3. QED
    BY <2>1, <2>2
<1>4. \A do \in Verbs \ {"close", "add", "delete"} : \A i \in {in, Root} : Ahead(Op(do, i))
  BY <1>2 DEF Ahead
<1>5. \A i \in {in, Root} : Saved(vol, i) => Ahead(Op("close", i))
  <2>1. "close" \in Verbs
    BY DEF Verbs
  <2>2. QED
    BY <1>2, <2>1 DEF Ahead
<1>6. \A do \in {"add", "delete"} : vol.count[Root] >= 1 => Ahead(Named(do, n, in))
  BY <1>3 DEF Ahead
<1>7. QED
  BY <1>4, <1>5, <1>6

\* The operations of every call do.
LEMMA AheadMake ==
  ASSUME IInv, NEW in \in File, NEW n \in Name, NEW new \in Name,
         AtEnd(in) \/ AtTake(n, in) \/ AtMade(n, in) \/ AtLink(n, in) \/ AtCount(in)
  PROVE  todo # <<>> /\ Ahead(Head(todo))
<1>1. /\ vol.count \in [Inode -> Nat] /\ in \in Inode /\ Root \in Inode
      /\ {"open", "save", "inc", "take", "sbsave", "alloc"} \subseteq Verbs \ {"close", "add", "delete"}
  BY Known DEF Verbs
<1>2. /\ \A do \in {"open", "save", "inc", "take", "sbsave", "alloc"} :
           Ahead(Op(do, in)) /\ Ahead(Op(do, Root))
      /\ Saved(vol, Root) => Ahead(Op("close", Root))
      /\ Saved(vol, in) => Ahead(Op("close", in))
      /\ vol.count[Root] >= 1 => Ahead(Named("add", n, in))
  BY <1>1, Aheads
<1>3. CASE AtEnd(in)
  <2>1. \/ Goes(todo, Op("close", Root), <<>>) /\ Saved(vol, Root)
        \/ Goes(todo, Op("save", Root), CloseRoot)
        \/ \E t \in {<<>>, SaveRoot} : \/ Goes(todo, Op("save", in), Close(in, t))
                                       \/ Goes(todo, Op("close", in), t) /\ Saved(vol, in)
    BY <1>3, Heads DEF AtEnd
  <2>2. QED
    BY <1>2, <2>1 DEF Goes
<1>4. CASE AtTake(n, in)
  <2>1. \E t \in Makes(n, in) : \/ Goes(todo, Op("open", Root), Take(in, t))
                                \/ Goes(todo, Op("take", in), TookSave(in, t))
    BY <1>4, Heads DEF AtTake
  <2>2. QED
    BY <1>2, <2>1 DEF Goes
<1>5. CASE AtMade(n, in)
  <2>1. PICK t \in Makes(n, in) :
          \/ todo = TookSave(in, t)
          \/ todo = TookSuper(in, t)
          \/ todo = TookClose(in, t) /\ Saved(vol, in)
          \/ todo = MadeOpen(in, t)
          \/ todo = MadeSave(in, t)
          \/ todo = t /\ Handles(1, in, 1)
    BY <1>5 DEF AtMade
  <2>2. \/ Goes(todo, Op("save", in), TookSuper(in, t))
        \/ Goes(todo, Op("sbsave", in), TookClose(in, t))
        \/ Goes(todo, Op("close", in), MadeOpen(in, t)) /\ Saved(vol, in)
        \/ Goes(todo, Op("open", in), MadeSave(in, t))
        \/ Goes(todo, Op("save", in), t)
        \/ todo = t /\ Handles(1, in, 1)
    BY <2>1, Heads
  <2>3. CASE todo = t /\ Handles(1, in, 1)
    <3>1. \/ Goes(todo, Named("add", n, in), Counted(in))
          \/ Goes(todo, Op("inc", in), LinkAlloc(n, in))
      BY <2>3, Heads DEF Makes
    <3>2. vol.count[Root] >= 1
      BY <2>3 DEF Handles
    <3>3. QED
      BY <1>2, <3>1, <3>2 DEF Goes
  <2>4. QED
    BY <1>2, <2>2, <2>3 DEF Goes
<1>6. CASE AtLink(n, in)
  <2>1. /\ \/ Goes(todo, Op("alloc", in), LinkAdd(n, in))
           \/ Goes(todo, Named("add", n, in), Save(in, SaveRoot))
        /\ vol.count[Root] >= 1
    BY <1>6, Heads DEF AtLink, Handles
  <2>2. QED
    BY <1>2, <2>1 DEF Goes
<1>7. CASE AtCount(in)
  BY <1>2, <1>7, Heads DEF AtCount, Goes
<1>8. QED
  BY <1>3, <1>4, <1>5, <1>6, <1>7

\* And those of soUnlink, soRename, soWrite, soTruncate and soRead.
LEMMA AheadRest ==
  ASSUME IInv, NEW in \in File, NEW n \in Name, NEW new \in Name,
         \/ AtUnlink(n, in) \/ AtGive(in)
         \/ AtMove(n, new, in) \/ AtMoveAdd(new, in) \/ AtMoved(in)
         \/ AtData(in)
  PROVE  todo # <<>> /\ Ahead(Head(todo))
<1>1. /\ vol.count \in [Inode -> Nat] /\ in \in Inode /\ Root \in Inode
      /\ {"open", "save", "dec", "give", "sbsave", "alloc", "free"} \subseteq Verbs \ {"close", "add", "delete"}
  BY Known DEF Verbs
<1>2. /\ \A do \in {"open", "save", "dec", "give", "sbsave", "alloc", "free"} :
           Ahead(Op(do, in)) /\ Ahead(Op(do, Root))
      /\ Saved(vol, Root) => Ahead(Op("close", Root))
      /\ Saved(vol, in) => Ahead(Op("close", in))
      /\ vol.count[Root] >= 1 =>
           Ahead(Named("add", new, in)) /\ Ahead(Named("delete", n, in)) /\ Ahead(Named("delete", new, in))
  BY <1>1, Aheads
<1>3. ASSUME NEW k \in Nat, NEW t \in {Give(in), Save(in, <<>>)}, todo = Frees(k, in, t)
      PROVE  todo # <<>> /\ Ahead(Head(todo))
  <2>1. CASE k = 0
    <3>1. \/ Goes(todo, Op("give", in), GaveSave(in))
          \/ Goes(todo, Op("save", in), Close(in, <<>>))
      BY <1>3, <2>1, Heads, MoreHeads
    <3>2. QED
      BY <1>2, <3>1 DEF Goes
  <2>2. CASE k # 0
    <3>1. k - 1 \in Nat /\ (k - 1) + 1 = k
      BY <2>2
    <3>2. Goes(Frees((k - 1) + 1, in, t), Op("free", in), Frees(k - 1, in, t))
      BY <3>1, MoreHeads
    <3>3. Goes(todo, Op("free", in), Frees(k - 1, in, t))
      BY <1>3, <3>1, <3>2
    <3>4. QED
      BY <1>2, <3>3 DEF Goes
  <2>3. QED
    BY <2>1, <2>2
<1>4. CASE AtUnlink(n, in)
  <2>1. PICK k \in Nat :
          \/ Goes(todo, Op("open", Root), UnlinkOpen(n, in, k))
          \/ Goes(todo, Op("open", in), UnlinkDec(n, in, k))
          \/ Goes(todo, Op("dec", in), UnlinkDelete(n, in, k))
          \/ Goes(todo, Named("delete", n, in), Frees(k, in, Give(in))) /\ vol.count[Root] >= 1
    BY <1>4, MoreHeads DEF AtUnlink, Handles
  <2>2. QED
    BY <1>2, <2>1 DEF Goes
<1>5. CASE AtGive(in)
  <2>1. \/ \E k \in Nat : todo = Frees(k, in, Give(in))
        \/ Goes(todo, Op("save", in), GaveSuper(in))
        \/ Goes(todo, Op("sbsave", in), GaveClose(in))
        \/ Goes(todo, Op("close", in), Save(in, SaveRoot)) /\ Saved(vol, in)
    BY <1>5, MoreHeads DEF AtGive
  <2>2. QED
    BY <1>2, <1>3, <2>1 DEF Goes
<1>6. CASE AtMove(n, new, in)
  <2>1. PICK t \in Moves(n, new, in) :
          \/ Goes(todo, Op("open", Root), MoveAgain(t))
          \/ Goes(todo, Op("open", Root), t)
          \/ todo = t /\ vol.count[Root] >= 1
    BY <1>1, <1>6, MoreHeads DEF AtMove
  <2>2. CASE todo = t /\ vol.count[Root] >= 1
    <3>1. \/ Goes(todo, Named("delete", n, in), MoveAdd(new, in))
          \/ Goes(todo, Named("delete", new, in), MoveDelete(n, new, in))
      BY <2>2, MoreHeads DEF Moves
    <3>2. QED
      BY <1>2, <2>2, <3>1 DEF Goes
  <2>3. QED
    BY <1>2, <2>1, <2>2 DEF Goes
<1>7. CASE AtMoveAdd(new, in)
  <2>1. Goes(todo, Named("add", new, in), MovedOpen(in)) /\ vol.count[Root] >= 1
    BY <1>1, <1>7, MoreHeads DEF AtMoveAdd
  <2>2. QED
    BY <1>2, <2>1 DEF Goes
<1>8. CASE AtMoved(in)
  <2>1. \/ Goes(todo, Op("open", in), RootOnce(in))
        \/ Goes(todo, Op("save", Root), RootTwice(in))
        \/ Goes(todo, Op("save", Root), MovedSave(in))
        \/ Goes(todo, Op("save", in), CloseTwice(in))
        \/ Goes(todo, Op("close", Root), CloseOnce(in)) /\ Saved(vol, Root)
        \/ Goes(todo, Op("close", Root), Close(in, <<>>)) /\ Saved(vol, Root)
    BY <1>8, MoreHeads DEF AtMoved
  <2>2. QED
    BY <1>2, <2>1 DEF Goes
<1>9. CASE AtData(in)
  <2>1. PICK k \in Nat :
          \/ todo = Allocs(k, in)
          \/ Goes(todo, Op("open", in), Allocs(k, in))
          \/ todo = Frees(k, in, Save(in, <<>>))
          \/ Goes(todo, Op("open", in), Frees(k, in, Save(in, <<>>)))
    BY <1>9, MoreHeads DEF AtData
  <2>2. CASE todo = Allocs(k, in)
    <3>1. CASE k = 0
      <4>1. Goes(todo, Op("save", in), Close(in, <<>>))
        BY <2>2, <3>1, Heads, MoreHeads
      <4>2. QED
        BY <1>2, <4>1 DEF Goes
    <3>2. CASE k # 0
      <4>1. k - 1 \in Nat /\ (k - 1) + 1 = k
        BY <3>2
      <4>2. Goes(Allocs((k - 1) + 1, in), Op("alloc", in), Allocs(k - 1, in))
        BY <4>1, MoreHeads
      <4>3. Goes(todo, Op("alloc", in), Allocs(k - 1, in))
        BY <2>2, <4>1, <4>2
      <4>4. QED
        BY <1>2, <4>3 DEF Goes
    <3>3. QED
      BY <3>1, <3>2
  <2>3. QED
    BY <1>2, <1>3, <2>1, <2>2 DEF Goes
<1>10. QED
  BY <1>4, <1>5, <1>6, <1>7, <1>8, <1>9

\* And so whatever the call.
LEMMA Aheaded ==
  ASSUME IInv, call # "none"
  PROVE  todo # <<>> /\ Ahead(Head(todo))
<1>1. PICK in \in File, n \in Name, new \in Name :
        \/ AtEnd(in) \/ AtTake(n, in) \/ AtMade(n, in) \/ AtLink(n, in) \/ AtCount(in)
        \/ AtUnlink(n, in) \/ AtGive(in)
        \/ AtMove(n, new, in) \/ AtMoveAdd(new, in) \/ AtMoved(in)
        \/ AtData(in)
  BY DEF IInv, Running
<1>2. QED
  BY <1>1, AheadMake, AheadRest

\* The type invariant: a volume is a record of its parts, a call that is being
\* executed has something to do.
LEMMA TypesOK ==
  ASSUME IInv
  PROVE  TypeOK
<1>1. /\ vol \in Volumes /\ Fit(vol, stale, torn, call = "truncate")
      /\ torn \in BOOLEAN /\ stale \in BOOLEAN
  BY DEF IInv, Fit
<1>2. (call = "none") = (todo = <<>>)
  BY Aheaded DEF IInv, Idle
<1>3. QED
  BY <1>1, <1>2 DEF TypeOK, Volumes, Entry

\* An entry on the disk names an inode in use on the disk, at every step of every
\* call: soMknod saves the inode before it adds the name, soUnlink deletes the
\* name before it gives the inode back.  The proof is that a name is added only
\* for a Taken inode, and an inode is given back only when it is not Linked.
THEOREM EntriesInUse == Spec => []NamesInUse
<1>1. IInv => NamesInUse
  <2> SUFFICES ASSUME IInv PROVE NamesInUse
    OBVIOUS
  <2>1. ASSUME ~ stale, NEW s \in Slot, vol.dir[s] # NoEntry
        PROVE  ~ vol.disk[vol.dir[s].in].free
    <3>1. vol.dir[s].in \in Linked(vol)
      BY <2>1 DEF Linked, Entered
    <3>2. Taken(vol, vol.dir[s].in)
      BY <2>1, <3>1 DEF IInv, Fit, Sound
    <3>3. QED
      BY <3>2 DEF Taken
  <2>2. QED
    BY <2>1, TypesOK DEF NamesInUse
<1>2. QED
  BY <1>1, Invariance, PTL

\* Between calls files share no cluster and hold no free one, in memory and after
\* the next mount: soAllocCluster and soFreeCluster write the superblock before
\* the inode refers to the cluster or no longer does, and what a failed call
\* leaves unsaved are references it has added.
THEOREM ClustersApart == Spec => []NoShare
<1>1. IInv => NoShare
  <2> SUFFICES ASSUME IInv, call = "none", ~ torn, ~ stale
               PROVE  Apart(Inodes(vol), vol.sb) /\ Apart(vol.disk, vol.dsb)
    BY DEF NoShare
  <2>1. /\ Fit(vol, stale, torn, FALSE) /\ vol \in Volumes
        /\ Written /\ RootSafe /\ All /\ Entries(vol) = Entered(vol)
    BY Beginnings DEF IInv, Fit
  <2>2. Unshared(vol) /\ Linked(vol) \subseteq File
    BY <2>1, VolumeTypes DEF Fit
  <2>3. {e.in : e \in Visible(vol, Inodes(vol))} = Linked(vol)
    BY <2>1 DEF Entries, Linked
  <2>4. {e.in : e \in Visible(vol, vol.disk)} = Linked(vol)
    <3>1. Inodes(vol)[Root] = vol.disk[Root]
      BY <2>1 DEF RootSafe, Saved
    <3>2. Visible(vol, vol.disk) = Visible(vol, Inodes(vol))
      BY <3>1 DEF Visible
    <3>3. QED
      BY <2>3, <3>2
  <2>5. Apart(Inodes(vol), vol.sb)
    BY <2>2, <2>3 DEF Apart, Unshared, Private, Alone
  <2>6. \A i \in Linked(vol) : vol.disk[i].refs \subseteq Inodes(vol)[i].refs
    BY <2>1, <2>2 DEF All, Adds
  <2>7. Apart(vol.disk, vol.dsb)
    BY <2>1, <2>2, <2>4, <2>6 DEF Apart, Unshared, Private, Alone, Written
  <2>8. QED
    BY <2>5, <2>7
<1>2. QED
  BY <1>1, Invariance, PTL

\* Between calls, what is in memory and not on the disk is clusters a failed call
\* has added to a file: every call saves what it changes, in its last operations
\* or before the one that fails.
THEOREM UnsavedAdds == Spec => []UnsavedOnlyAdds
<1>1. IInv => UnsavedOnlyAdds
  BY DEF IInv, Idle, Written, RootSafe, All, Saved, Adds, UnsavedOnlyAdds
<1>2. QED
  BY <1>1, Invariance, PTL

\* The last handle of an inode is closed only when the inode is saved: the next
\* iOpen, which reads it from the disk, loses nothing.  Every call saves an inode
\* before it closes it, and what it does between the two changes others.
THEOREM ClosesSaved == Spec => LastCloseSaved
<1>1. ASSUME IInv, [Next]_vars, NEW i \in Inode,
             call # "none", ~ Throws(vol, Head(todo)), Head(todo) = Op("close", i)
      PROVE  vol.cache[i] = vol.disk[i]
  <2>1. Saved(vol, i)
    BY <1>1, Aheaded DEF Ahead
  <2>2. ~ Throws(vol, Op("close", i)) /\ vol.count[i] \in Nat
    BY <1>1 DEF IInv, Fit, Volumes
  <2>3. vol.count[i] > 0
    <3>1. vol.count[i] # 0
      BY <2>2 DEF Throws, Op, NotOpen
    <3>2. QED
      BY <2>2, <3>1
  <2>4. QED
    BY <2>1, <2>3 DEF Saved, Inodes
<1>2. IInv /\ [Next]_vars =>
        [\A i \in Inode : call # "none" /\ ~ Throws(vol, Head(todo)) /\ Head(todo) = Op("close", i)
                          /\ vol'.count[i] = 0 => vol.cache[i] = vol.disk[i]]_vars
  BY <1>1
<1>3. QED
  BY <1>2, Invariance, PTL DEF Spec, LastCloseSaved

\* The operations that are not about names leave the cluster of the directory.
LEMMA DirKept ==
  ASSUME NEW z \in Volumes, NEW op \in Ops, op.do \notin {"add", "delete"}
  PROVE  Do(z, op).dir = z.dir
<1>1. op.in \in Inode /\ op.do \in Verbs
  BY DEF Ops
<1>2. op.do \in {"open", "save", "close", "inc", "dec", "sbsave"} => Do(z, op).dir = z.dir
  BY DEF Do, Volumes, iOpen, iSave, iClose, iIncRefcount, iDecRefcount, sbSave
<1>3. op.do \in {"take", "give", "alloc", "free"} => Do(z, op).dir = z.dir
  BY DEF Do, Volumes, iOpen, sbSave, TakeInode, GiveInode, AllocCluster, FreeCluster
<1>4. QED
  BY <1>1, <1>2, <1>3 DEF Verbs

\* A name disappears only by a call that deletes it: soAddDirEntry writes where no
\* entry is, and soDeleteDirEntry moves the last entry before it ends the list
\* there.
THEOREM NamesKept == Spec => NameKept
<1>1. ASSUME IInv, IInv', [Next]_vars, NEW e \in Entries(vol), ~ stale', e \notin Entries(vol')
      PROVE  call # "none" /\ Head(todo).do = "delete" /\ Head(todo).name = e.name
  <2>1. ~ stale
    BY <1>1 DEF Next, Call, Calls, Step, Catch, Remount, Crash, vars
  <2>2. /\ vol \in Volumes /\ Listed(vol) /\ vol' \in Volumes /\ Listed(vol')
        /\ vol.count \in [Inode -> Nat]
    BY <1>1, <2>1 DEF IInv, Fit, Sound, Volumes
  <2>3. e \in Entered(vol) /\ e \notin Entered(vol')
    BY <1>1, <2>2, ListedEntries
  <2>4. vol'.dir # vol.dir
    BY <2>3 DEF Entered
  <2>5. Step
    <3>1. Mounted(vol).dir = vol.dir
      BY <2>2, MountDoes
    <3>2. QED
      BY <1>1, <2>4, <3>1 DEF Next, Call, Calls, Catch, Remount, Crash, vars
  <2> DEFINE op == Head(todo)
  <2>6. /\ call # "none" /\ ~ Throws(vol, op) /\ vol' = Do(vol, op)
        /\ op \in Ops /\ (op.do \in {"add", "delete"} => vol.count[Root] >= 1)
    BY <1>1, <2>5, Aheaded DEF Step, Ahead
  <2> HIDE DEF op
  <2>7. op.do \in {"add", "delete"}
    BY <2>2, <2>4, <2>6, DirKept
  <2>8. vol.count[Root] > 0 /\ Root \in Inode
    BY <2>2, <2>6, <2>7, DealersAssumption
  <2>9. op.do # "add"
    <3> SUFFICES ASSUME op.do = "add" PROVE FALSE
      OBVIOUS
    <3>1. PICK s \in Slot : s < Size(vol) /\ vol.dir[s] = e
      BY <2>2, <2>3, ListedEntries
    <3>2. vol.cache[Root].size = Size(vol)
      BY <2>8 DEF Size, Inodes
    <3>3. vol'.dir = [vol.dir EXCEPT ![Size(vol)] = [name |-> op.name, in |-> op.in]]
      BY <2>2, <2>6, <3>2 DEF Do, AddDirEntry, Volumes
    <3>4. s # Size(vol)
      BY <3>1, VolumeAssumption DEF Slot
    <3>5. vol'.dir[s] = e
      BY <2>2, <3>1, <3>3, <3>4 DEF Volumes
    <3>6. QED
      BY <2>3, <3>5 DEF Entered
  <2>10. op.do = "delete"
    BY <2>7, <2>9
  <2>11. vol' = DeleteDirEntry(vol, op.name) /\ Holding(vol, op.name) # {}
    BY <2>6, <2>10 DEF Do, Throws
  <2>12. PICK d \in Entered(vol) : d.name = op.name
    BY <2>11 DEF Holding, Entered
  <2>13. Entered(vol') = Entered(vol) \ {d}
    BY <2>2, <2>8, <2>11, <2>12, DeleteListed
  <2>14. e = d
    BY <2>3, <2>13
  <2>15. QED
    BY <2>6, <2>10, <2>12, <2>14 DEF op
<1>2. IInv /\ IInv' /\ [Next]_vars =>
        [\A e \in Entries(vol) : ~ stale' /\ e \notin Entries(vol') =>
           call # "none" /\ Head(todo).do = "delete" /\ Head(todo).name = e.name]_vars
  BY <1>1
<1>3. QED
  BY <1>2, Invariance, PTL DEF Spec, NameKept

=============================================================================
