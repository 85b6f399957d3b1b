--------------------------- MODULE NamespaceProofs ---------------------------
(***************************************************************************)
(* Theorems about the tree of names, for any inodes, names, cluster size    *)
(* and largest reference count.                                             *)
(***************************************************************************)
EXTENDS Namespace, FiniteSetTheorems, TLAPS

-----------------------------------------------------------------------------
(* Entries *)

\* The directories D with the entry n of directory d added, and without it.
Put(D, d, n, i) == [D EXCEPT ![d] = With(@, n, i)]
Drop(D, d, n) == [D EXCEPT ![d] = Without(@, n)]

\* What an entry that is added changes.
LEMMA PutIs ==
  ASSUME NEW D, NEW d \in DOMAIN D, NEW n, NEW i
  PROVE  /\ DOMAIN Put(D, d, n, i) = DOMAIN D
         /\ \A x \in DOMAIN D : x # d => Put(D, d, n, i)[x] = D[x]
         /\ DOMAIN Put(D, d, n, i)[d] = DOMAIN D[d] \cup {n}
         /\ Put(D, d, n, i)[d][n] = i
         /\ \A m \in DOMAIN D[d] : m # n => Put(D, d, n, i)[d][m] = D[d][m]
BY DEF Put, With

\* What an entry that is deleted changes.
LEMMA DropIs ==
  ASSUME NEW D, NEW d \in DOMAIN D, NEW n
  PROVE  /\ DOMAIN Drop(D, d, n) = DOMAIN D
         /\ \A x \in DOMAIN D : x # d => Drop(D, d, n)[x] = D[x]
         /\ DOMAIN Drop(D, d, n)[d] = DOMAIN D[d] \ {n}
         /\ \A m \in DOMAIN D[d] : m # n => Drop(D, d, n)[d][m] = D[d][m]
BY DEF Drop, Without, Restrict

\* The two entries of a new directory.
LEMMA DotsAre ==
  ASSUME NEW c, NEW d
  PROVE  DOMAIN Dots(c, d) = {Dot, DotDot} /\ Dots(c, d)[Dot] = c /\ Dots(c, d)[DotDot] = d
BY NamespaceAssumption DEF Dots

-----------------------------------------------------------------------------
(* The tree *)

\* No user's name in the directories D leads to i.
Unnamed(D, i) == \A x \in Inode : \A m \in DOMAIN D[x] \cap Name : D[x][m] # i

\* What holds of inodes of types T and directories D when L is linked:
\* only directories have entries; a name leads to an inode in use, never to
\* the root, and no other name leads there, but for the inodes of L.
Tree(T, D, L) ==
  /\ DOMAIN D = Inode
  /\ \A x \in Inode : /\ DOMAIN D[x] \subseteq Name \cup {Dot, DotDot}
                      /\ \A m \in DOMAIN D[x] : D[x][m] \in Inode
                      /\ T[x] # "dir" => DOMAIN D[x] = {}
  /\ Unnamed(D, Root)
  /\ \A i \in Inode \ L : T[i] = "free" => Unnamed(D, i)
  /\ \A x, y \in Inode : \A m \in DOMAIN D[x] \cap Name, n \in DOMAIN D[y] \cap Name :
       D[x][m] = D[y][n] /\ D[x][m] \notin L => x = y /\ m = n

\* A name may be added for an inode in use that has none, or is linked.
LEMMA TreePut ==
  ASSUME NEW T, NEW D, NEW L, Tree(T, D, L),
         NEW d \in Inode, T[d] = "dir", NEW n \in Name,
         NEW i \in Inode, i # Root, i \in L \/ (T[i] # "free" /\ Unnamed(D, i))
  PROVE  Tree(T, Put(D, d, n, i), L)
<1> DEFINE E == Put(D, d, n, i)
<1>1. /\ DOMAIN E = Inode
      /\ \A x \in Inode : x # d => E[x] = D[x]
      /\ DOMAIN E[d] = DOMAIN D[d] \cup {n}
      /\ E[d][n] = i
      /\ \A m \in DOMAIN D[d] : m # n => E[d][m] = D[d][m]
  BY PutIs DEF Tree
<1> HIDE DEF E
<1>2. \A x \in Inode : \A m \in DOMAIN E[x] \cap Name :
        \/ x = d /\ m = n /\ E[x][m] = i
        \/ m \in DOMAIN D[x] \cap Name /\ E[x][m] = D[x][m]
  BY <1>1
<1>3. \A x \in Inode : /\ DOMAIN E[x] \subseteq Name \cup {Dot, DotDot}
                       /\ \A m \in DOMAIN E[x] : E[x][m] \in Inode
                       /\ T[x] # "dir" => DOMAIN E[x] = {}
  BY <1>1 DEF Tree
<1>4. \A j \in Inode : j # i /\ Unnamed(D, j) => Unnamed(E, j)
  BY <1>2 DEF Unnamed
<1>5. ASSUME NEW x \in Inode, NEW y \in Inode,
             NEW k \in DOMAIN E[x] \cap Name, NEW m \in DOMAIN E[y] \cap Name,
             E[x][k] = E[y][m], E[x][k] \notin L
      PROVE  x = y /\ k = m
  <2>1. CASE E[x][k] = i
    <3>1. Unnamed(D, i)
      BY <1>5, <2>1
    <3>2. x = d /\ k = n
      BY <1>2, <2>1, <3>1 DEF Unnamed
    <3>3. E[y][m] = i
      BY <1>5, <2>1
    <3>4. y = d /\ m = n
      BY <1>2, <3>1, <3>3 DEF Unnamed
    <3>5. QED
      BY <3>2, <3>4
  <2>2. CASE E[x][k] # i
    <3>1. k \in DOMAIN D[x] \cap Name /\ E[x][k] = D[x][k]
      BY <1>2, <2>2
    <3>2. m \in DOMAIN D[y] \cap Name /\ E[y][m] = D[y][m]
      BY <1>2, <1>5, <2>2
    <3>3. D[x][k] = D[y][m] /\ D[x][k] \notin L
      BY <1>5, <3>1, <3>2
    <3>4. QED
      BY <3>1, <3>2, <3>3 DEF Tree
  <2>3. QED
    BY <2>1, <2>2
<1>6. \A j \in Inode \ L : T[j] = "free" => Unnamed(E, j)
  BY <1>4 DEF Tree
<1>7. Unnamed(E, Root)
  BY <1>4, NamespaceAssumption DEF Tree
<1>8. Tree(T, E, L)
  BY <1>1, <1>3, <1>5, <1>6, <1>7 DEF Tree
<1>9. QED
  BY <1>8 DEF E

\* So may ".." of a directory be replaced.
LEMMA TreeParent ==
  ASSUME NEW T, NEW D, NEW L, Tree(T, D, L),
         NEW i \in Inode, T[i] = "dir", NEW d \in Inode
  PROVE  Tree(T, Put(D, i, DotDot, d), L)
<1> DEFINE E == Put(D, i, DotDot, d)
<1>1. /\ DOMAIN E = Inode
      /\ \A x \in Inode : x # i => E[x] = D[x]
      /\ DOMAIN E[i] = DOMAIN D[i] \cup {DotDot}
      /\ E[i][DotDot] = d
      /\ \A m \in DOMAIN D[i] : m # DotDot => E[i][m] = D[i][m]
  BY PutIs DEF Tree
<1> HIDE DEF E
<1>2. \A x \in Inode : /\ DOMAIN E[x] \cap Name = DOMAIN D[x] \cap Name
                       /\ \A m \in DOMAIN E[x] \cap Name : E[x][m] = D[x][m]
  BY <1>1, NamespaceAssumption
<1>3. \A x \in Inode : /\ DOMAIN E[x] \subseteq Name \cup {Dot, DotDot}
                       /\ \A m \in DOMAIN E[x] : E[x][m] \in Inode
                       /\ T[x] # "dir" => DOMAIN E[x] = {}
  BY <1>1 DEF Tree
<1>4. \A j : Unnamed(D, j) => Unnamed(E, j)
  BY <1>2 DEF Unnamed
<1>5. Tree(T, E, L)
  BY <1>1, <1>2, <1>3, <1>4 DEF Tree
<1>6. QED
  BY <1>5 DEF E

\* Any entry may be deleted; if it was the only name of an inode, the inode
\* has none then.
LEMMA TreeDrop ==
  ASSUME NEW T, NEW D, NEW L, Tree(T, D, L), NEW d \in Inode, NEW n
  PROVE  /\ Tree(T, Drop(D, d, n), L)
         /\ n \in DOMAIN D[d] \cap Name /\ D[d][n] \notin L => Unnamed(Drop(D, d, n), D[d][n])
<1> DEFINE E == Drop(D, d, n)
<1>1. /\ DOMAIN E = Inode
      /\ \A x \in Inode : x # d => E[x] = D[x]
      /\ DOMAIN E[d] = DOMAIN D[d] \ {n}
      /\ \A m \in DOMAIN D[d] : m # n => E[d][m] = D[d][m]
  BY DropIs DEF Tree
<1> HIDE DEF E
<1>2. \A x \in Inode : \A m \in DOMAIN E[x] \cap Name :
        m \in DOMAIN D[x] \cap Name /\ E[x][m] = D[x][m] /\ <<x, m>> # <<d, n>>
  BY <1>1
<1>3. \A x \in Inode : /\ DOMAIN E[x] \subseteq Name \cup {Dot, DotDot}
                       /\ \A m \in DOMAIN E[x] : E[x][m] \in Inode
                       /\ T[x] # "dir" => DOMAIN E[x] = {}
  BY <1>1 DEF Tree
<1>4. \A j : Unnamed(D, j) => Unnamed(E, j)
  BY <1>2 DEF Unnamed
<1>5. \A x, y \in Inode : \A k \in DOMAIN E[x] \cap Name, m \in DOMAIN E[y] \cap Name :
        E[x][k] = E[y][m] /\ E[x][k] \notin L => x = y /\ k = m
  BY <1>2 DEF Tree
<1>6. Tree(T, E, L)
  BY <1>1, <1>3, <1>4, <1>5 DEF Tree
<1>7. ASSUME n \in DOMAIN D[d] \cap Name, D[d][n] \notin L
      PROVE  Unnamed(E, D[d][n])
  BY <1>2, <1>7 DEF Unnamed, Tree
<1>8. QED
  BY <1>6, <1>7 DEF E

\* The entries of a directory may be replaced by none, or by "." and "..".
LEMMA TreeReset ==
  ASSUME NEW T, NEW D, NEW L, Tree(T, D, L), NEW c \in Inode, NEW d \in Inode
  PROVE  /\ Tree(T, [D EXCEPT ![c] = NoEntries], L)
         /\ T[c] = "dir" => Tree(T, [D EXCEPT ![c] = Dots(c, d)], L)
         /\ \A i : Unnamed(D, i) => Unnamed([D EXCEPT ![c] = NoEntries], i)
         /\ \A i : Unnamed(D, i) => Unnamed([D EXCEPT ![c] = Dots(c, d)], i)
<1>1. ASSUME NEW f, DOMAIN f \cap Name = {}, DOMAIN f \subseteq {Dot, DotDot},
             \A m \in DOMAIN f : f[m] \in Inode, T[c] # "dir" => DOMAIN f = {}
      PROVE  Tree(T, [D EXCEPT ![c] = f], L)
  <2> DEFINE E == [D EXCEPT ![c] = f]
  <2>1. DOMAIN E = Inode /\ E[c] = f /\ \A x \in Inode : x # c => E[x] = D[x]
    BY DEF Tree
  <2> HIDE DEF E
  <2>2. \A x \in Inode : \A m \in DOMAIN E[x] \cap Name : x # c /\ E[x] = D[x]
    BY <1>1, <2>1
  <2>3. \A x \in Inode : /\ DOMAIN E[x] \subseteq Name \cup {Dot, DotDot}
                         /\ \A m \in DOMAIN E[x] : E[x][m] \in Inode
                         /\ T[x] # "dir" => DOMAIN E[x] = {}
    BY <1>1, <2>1 DEF Tree
  <2>4. \A j : Unnamed(D, j) => Unnamed(E, j)
    BY <2>2 DEF Unnamed
  <2>5. \A x, y \in Inode : \A k \in DOMAIN E[x] \cap Name, m \in DOMAIN E[y] \cap Name :
          E[x][k] = E[y][m] /\ E[x][k] \notin L => x = y /\ k = m
    BY <2>2 DEF Tree
  <2>6. Tree(T, E, L)
    BY <2>1, <2>3, <2>4, <2>5 DEF Tree
  <2>7. QED
    BY <2>6 DEF E
<1>2. ASSUME NEW f, DOMAIN f \cap Name = {}, NEW i, Unnamed(D, i)
      PROVE  Unnamed([D EXCEPT ![c] = f], i)
  BY <1>2 DEF Unnamed, Tree
<1>3. DOMAIN NoEntries = {}
  BY DEF NoEntries
<1>4. /\ DOMAIN Dots(c, d) = {Dot, DotDot}
      /\ \A m \in DOMAIN Dots(c, d) : Dots(c, d)[m] \in Inode
      /\ DOMAIN Dots(c, d) \cap Name = {}
  BY DotsAre, NamespaceAssumption
<1>5. QED
  BY <1>1, <1>2, <1>3, <1>4

\* A free inode may be taken.
LEMMA TreeTake ==
  ASSUME NEW T, NEW D, NEW L, Tree(T, D, L), T \in [Inode -> {"free", "file", "dir"}],
         NEW c \in Inode, T[c] = "free", NEW t \in {"file", "dir"}
  PROVE  Tree([T EXCEPT ![c] = t], D, L)
BY DEF Tree

\* An inode without entries and names may be given back, and so may a linked one.
LEMMA TreeGive ==
  ASSUME NEW T, NEW D, NEW L, Tree(T, D, L), T \in [Inode -> {"free", "file", "dir"}],
         NEW i \in Inode, DOMAIN D[i] = {}, i \in L \/ Unnamed(D, i)
  PROVE  Tree([T EXCEPT ![i] = "free"], D, L)
BY DEF Tree

\* More inodes may be linked.
LEMMA TreeLink ==
  ASSUME NEW T, NEW D, NEW L, Tree(T, D, L), NEW M, L \subseteq M
  PROVE  Tree(T, D, M)
BY DEF Tree

-----------------------------------------------------------------------------
(* The inductive invariant *)

IInv == TypeOK /\ Tree(type, dir, linked)

\* A formatted disk has one directory, with nothing but "." and ".." in it.
LEMMA InitIInv == Init => IInv
<1> SUFFICES ASSUME Init PROVE IInv
  OBVIOUS
<1> USE NamespaceAssumption
<1>1. /\ DOMAIN dir = Inode
      /\ \A i \in Inode : i # Root => DOMAIN dir[i] = {}
      /\ DOMAIN dir[Root] = {Dot, DotDot}
      /\ dir[Root][Dot] = Root /\ dir[Root][DotDot] = Root
  BY DotsAre DEF Init, NoEntries
<1>2. \A d \in Inode : DOMAIN dir[d] \cap Name = {}
  BY <1>1
<1>3. TypeOK
  BY <1>1 DEF Init, TypeOK, Dirs
<1>4. Tree(type, dir, linked)
  BY <1>1, <1>2 DEF Tree, Unnamed, Init
<1>5. QED
  BY <1>3, <1>4 DEF IInv

\* The tree of the next state has the types TypeOK asks of the entries.
LEMMA TypeFromTree ==
  ASSUME Tree(type, dir, linked)',
         (type \in [Inode -> {"free", "file", "dir"}])',
         (refcount \in [Inode -> 0 .. MAX_REF_COUNT])',
         (type[Root] = "dir" /\ writable \subseteq Dirs)',
         (pool \subseteq {i \in Inode : type[i] = "free"})'
  PROVE  IInv'
BY DEF IInv, TypeOK, Tree, Dirs

\* The counts stay in their range.
LEMMA CountsInRange ==
  ASSUME TypeOK, NEW i \in Inode
  PROVE  /\ 0 \in 0 .. MAX_REF_COUNT /\ 1 \in 0 .. MAX_REF_COUNT /\ 2 \in 0 .. MAX_REF_COUNT
         /\ Inc(i) \in 0 .. MAX_REF_COUNT /\ Dec(i) \in 0 .. MAX_REF_COUNT
BY NamespaceAssumption DEF TypeOK, Inc, Dec, AtLimit

\* What soAllocInode hands out is free, and no name leads to it unless soLink
\* had given it two.
LEMMA PoolFree ==
  ASSUME IInv, NEW c \in pool
  PROVE  /\ c \in Inode /\ type[c] = "free" /\ c # Root
         /\ c \in linked \/ Unnamed(dir, c)
BY DEF IInv, TypeOK, Tree

\* Taking an inode as a file or a directory.
LEMMA TakeTree ==
  ASSUME IInv, NEW c \in pool, NEW t \in {"file", "dir"}, Take(c, t)
  PROVE  /\ Tree(type', dir, linked)
         /\ type' \in [Inode -> {"free", "file", "dir"}]
         /\ type'[c] = t /\ \A i \in Inode : i # c => type'[i] = type[i]
         /\ type'[Root] = "dir" /\ writable \subseteq Dirs'
         /\ pool' \subseteq {i \in Inode : type'[i] = "free"}
<1>1. c \in Inode /\ type[c] = "free" /\ c # Root
  BY PoolFree
<1>2. type \in [Inode -> {"free", "file", "dir"}] /\ type' = [type EXCEPT ![c] = t]
  BY DEF IInv, TypeOK, Take
<1>3. Tree(type', dir, linked)
  BY <1>1, <1>2, TreeTake DEF IInv
<1>4. \A i \in Inode : i # c => type'[i] = type[i]
  BY <1>2
<1>5. writable \subseteq Dirs'
  BY <1>1, <1>4 DEF IInv, TypeOK, Dirs
<1>6. QED
  BY <1>1, <1>2, <1>3, <1>4, <1>5, NamespaceAssumption DEF IInv, TypeOK, Take

\* Giving back an inode other than the root, once its entries and its names
\* are gone.
LEMMA GiveBackIInv ==
  ASSUME IInv, NEW i \in Inode, i # Root, GiveBack(i),
         linked' = linked, (refcount \in [Inode -> 0 .. MAX_REF_COUNT])',
         Tree(type, dir', linked), DOMAIN dir'[i] = {}, i \in linked \/ Unnamed(dir', i)
  PROVE  IInv'
<1>1. type \in [Inode -> {"free", "file", "dir"}] /\ type' = [type EXCEPT ![i] = "free"]
  BY DEF IInv, TypeOK, GiveBack
<1>2. Tree(type', dir', linked)
  BY <1>1, TreeGive
<1>3. (type[Root] = "dir" /\ writable \subseteq Dirs)'
  BY <1>1, NamespaceAssumption DEF IInv, TypeOK, GiveBack, Dirs
<1>4. (pool \subseteq {j \in Inode : type[j] = "free"})'
  BY <1>1 DEF IInv, TypeOK, GiveBack
<1>5. QED
  BY <1>1, <1>2, <1>3, <1>4, TypeFromTree

\* soMknod and soSymlink take an inode nobody names.
LEMMA CreateFileIInv ==
  ASSUME IInv, NEW d \in Inode, NEW n \in Name, NEW mayFail, NEW count \in {0, 1},
         CreateFile(d, n, mayFail, count)
  PROVE  IInv'
<1>1. PICK c \in pool :
        /\ Take(c, "file")
        /\ UNCHANGED <<writable, linked, half>>
        /\ \/ UNCHANGED dir /\ refcount' = [refcount EXCEPT ![c] = count]
           \/ dir' = Put(dir, d, n, c) /\ refcount' = [refcount EXCEPT ![c] = 1]
  BY DEF CreateFile, Put
<1>2. type[d] = "dir"
  BY DEF CreateFile, MayCreate, IInv, TypeOK, Dirs
<1>3. c \in Inode /\ type[c] = "free" /\ c # Root /\ (c \in linked \/ Unnamed(dir, c))
  BY PoolFree
<1>4. /\ Tree(type', dir, linked)
      /\ (type \in [Inode -> {"free", "file", "dir"}])'
      /\ type'[c] = "file" /\ type'[d] = "dir"
      /\ (type[Root] = "dir" /\ writable \subseteq Dirs)'
      /\ (pool \subseteq {i \in Inode : type[i] = "free"})'
  BY <1>1, <1>2, <1>3, TakeTree
<1>5. Tree(type, dir, linked)'
  BY <1>1, <1>3, <1>4, TreePut
<1>6. (refcount \in [Inode -> 0 .. MAX_REF_COUNT])'
  BY <1>1, CountsInRange, <1>3 DEF IInv, TypeOK
<1>7. QED
  BY <1>4, <1>5, <1>6, TypeFromTree

\* soMkdir takes an inode nobody names, and may leave it half made.
LEMMA MkdirIInv ==
  ASSUME IInv, NEW d \in Inode, NEW n \in Name, NEW mayWrite \in BOOLEAN,
         soMkdir(d, n, mayWrite)
  PROVE  IInv'
<1>1. PICK c \in pool :
        /\ Take(c, "dir")
        /\ writable' = IF mayWrite THEN writable \cup {c} ELSE writable
        /\ linked' = linked
        /\ \/ UNCHANGED <<dir, refcount>>
           \/ /\ dir' = [dir EXCEPT ![c] = Dots(c, d)]
              /\ refcount' = [refcount EXCEPT ![c] = 2]
           \/ /\ dir' = Put([dir EXCEPT ![c] = Dots(c, d)], d, n, c)
              /\ refcount' = [refcount EXCEPT ![c] = 2, ![d] = Inc(d)]
  BY DEF soMkdir, Put
<1>2. type[d] = "dir"
  BY DEF soMkdir, MayCreate, IInv, TypeOK, Dirs
<1>3. c \in Inode /\ type[c] = "free" /\ c # Root /\ (c \in linked \/ Unnamed(dir, c))
  BY PoolFree
<1>4. /\ Tree(type', dir, linked)
      /\ (type \in [Inode -> {"free", "file", "dir"}])'
      /\ type'[c] = "dir" /\ type'[d] = "dir"
      /\ type'[Root] = "dir" /\ writable \subseteq Dirs'
      /\ (pool \subseteq {i \in Inode : type[i] = "free"})'
  BY <1>1, <1>2, <1>3, TakeTree
<1>5. (writable \subseteq Dirs)'
  BY <1>1, <1>3, <1>4 DEF Dirs
<1>6. DEFINE E == [dir EXCEPT ![c] = Dots(c, d)]
<1>7. Tree(type', E, linked) /\ (c \in linked \/ Unnamed(E, c))
  BY <1>3, <1>4, TreeReset
<1>8. Tree(type', Put(E, d, n, c), linked)
  <2> HIDE DEF E
  <2>1. QED
    BY <1>3, <1>4, <1>7, TreePut
<1>9. Tree(type, dir, linked)'
  BY <1>1, <1>4, <1>7, <1>8
<1>10. (refcount \in [Inode -> 0 .. MAX_REF_COUNT])'
  <2>1. refcount \in [Inode -> 0 .. MAX_REF_COUNT]
    BY DEF IInv, TypeOK
  <2>2. 2 \in 0 .. MAX_REF_COUNT /\ Inc(d) \in 0 .. MAX_REF_COUNT
    BY CountsInRange DEF IInv
  <2>3. QED
    BY <1>1, <1>3, <2>1, <2>2
<1>11. QED
  BY <1>4, <1>5, <1>9, <1>10, TypeFromTree

\* soLink gives a file a second name, and the inode is linked from then on.
LEMMA LinkIInv ==
  ASSUME IInv, NEW d \in Inode, NEW n \in Name, NEW new \in Name, soLink(d, n, new)
  PROVE  IInv'
<1> DEFINE i == dir[d][n]
<1>1. /\ d \in writable /\ n \in DOMAIN dir[d] \cap Name
      /\ type[i] = "file"
      /\ dir' = Put(dir, d, new, i)
      /\ refcount' = [refcount EXCEPT ![i] = Inc(i)]
      /\ linked' = linked \cup {i}
      /\ UNCHANGED <<type, writable, pool>>
  BY DEF soLink, Put, UserNames
<1>2. type[d] = "dir" /\ i \in Inode /\ i # Root
  BY <1>1, NamespaceAssumption DEF IInv, TypeOK, Dirs
<1> HIDE DEF i
<1>3. Tree(type, dir, linked')
  BY <1>1, TreeLink DEF IInv
<1>4. Tree(type, Put(dir, d, new, i), linked')
  BY <1>1, <1>2, <1>3, TreePut
<1>5. (refcount \in [Inode -> 0 .. MAX_REF_COUNT])'
  BY <1>1, <1>2, CountsInRange DEF IInv, TypeOK
<1>6. QED
  BY <1>1, <1>4, <1>5, TypeFromTree DEF IInv, TypeOK, Dirs

\* soUnlink deletes the entry when the count has come down to 0, and gives the
\* inode back then.
LEMMA UnlinkIInv ==
  ASSUME IInv, NEW d \in Inode, NEW n \in Name, soUnlink(d, n)
  PROVE  IInv'
<1> DEFINE i == dir[d][n]
<1>1. /\ n \in DOMAIN dir[d] \cap Name
      /\ type[i] # "dir"
      /\ refcount' = [refcount EXCEPT ![i] = Dec(i)]
      /\ linked' = linked
      /\ \/ dir' = Drop(dir, d, n) /\ GiveBack(i)
         \/ UNCHANGED <<dir, type, pool, writable>>
  BY DEF soUnlink, Drop, UserNames
<1>2. i \in Inode /\ i # Root /\ i \notin Dirs
  BY <1>1 DEF IInv, TypeOK, Dirs
<1>3. DOMAIN dir[i] = {} /\ DOMAIN dir = Inode
  BY <1>2 DEF IInv, TypeOK, Tree
<1>4. (refcount \in [Inode -> 0 .. MAX_REF_COUNT])'
  <2>1. Dec(i) \in 0 .. MAX_REF_COUNT
    BY <1>2, CountsInRange DEF IInv
  <2>2. QED
    BY <1>1, <1>2, <2>1 DEF IInv, TypeOK
<1>5. CASE dir' = Drop(dir, d, n) /\ GiveBack(i)
  <2>1. Tree(type, dir', linked) /\ (i \in linked \/ Unnamed(dir', i))
    BY <1>1, <1>5, TreeDrop DEF IInv
  <2>2. DOMAIN dir'[i] = {}
    BY <1>2, <1>3, <1>5, DropIs
  <2>3. QED
    BY <1>1, <1>2, <1>4, <1>5, <2>1, <2>2, GiveBackIInv
<1>6. CASE UNCHANGED <<dir, type, pool, writable>>
  BY <1>1, <1>4, <1>6, TypeFromTree DEF IInv, TypeOK, Dirs
<1>7. QED
  BY <1>1, <1>5, <1>6

\* soRmdir empties the directory, and then finds out whether it may delete the
\* name.
LEMMA RmdirIInv ==
  ASSUME IInv, NEW d \in Inode, NEW n \in Name, soRmdir(d, n)
  PROVE  IInv'
<1> DEFINE c == dir[d][n]
<1> DEFINE E == [dir EXCEPT ![c] = NoEntries]
<1>1. /\ n \in DOMAIN dir[d] \cap Name
      /\ c \in Dirs \cap writable /\ DOMAIN dir[c] = {Dot, DotDot}
      /\ linked' = linked
      /\ \/ /\ dir' = Drop(E, d, n)
            /\ refcount' = [refcount EXCEPT ![c] = 0, ![d] = Dec(d)]
            /\ GiveBack(c)
         \/ dir' = E /\ UNCHANGED <<type, refcount, writable, pool>>
  <2>1. n \in DOMAIN dir[d] \cap Name /\ c \in Dirs \cap writable /\ linked' = linked
    BY DEF soRmdir, UserNames
  <2>2. DOMAIN dir[c] = {Dot, DotDot}
    BY DEF soRmdir, Empty
  <2>3. CASE d \in writable
    <3>1. /\ dir' = [dir EXCEPT ![c] = NoEntries, ![d] = Without(@, n)]
          /\ refcount' = [refcount EXCEPT ![c] = 0, ![d] = Dec(d)]
          /\ GiveBack(c)
      BY <2>3, Zenon DEF soRmdir
    <3>2. c # d
      BY <2>1, <2>2, NamespaceAssumption
    <3>3. E[d] = dir[d] /\ DOMAIN E = DOMAIN dir
      BY <3>2
    <3>4. dir' = [E EXCEPT ![d] = Without(dir[d], n)]
      BY <3>1, <3>2
    <3>5. dir' = Drop(E, d, n)
      BY <3>3, <3>4 DEF Drop
    <3>6. QED
      BY <2>1, <2>2, <3>1, <3>5, Zenon
  <2>4. CASE d \notin writable
    BY <2>1, <2>2, <2>4 DEF soRmdir
  <2>5. QED
    BY <2>3, <2>4
<1>2. /\ c \in Inode /\ c # Root /\ c # d /\ DOMAIN dir = Inode
      /\ type \in [Inode -> {"free", "file", "dir"}]
      /\ refcount \in [Inode -> 0 .. MAX_REF_COUNT]
  <2>1. c \in Inode /\ DOMAIN dir = Inode
    BY <1>1 DEF Dirs, IInv, Tree
  <2>2. c # Root
    BY <1>1 DEF IInv, Tree, Unnamed
  <2>3. c # d
    BY <1>1, NamespaceAssumption
  <2>4. QED
    BY <2>1, <2>2, <2>3 DEF IInv, TypeOK
<1>3. Tree(type, E, linked)
  BY <1>2, TreeReset DEF IInv
<1>4. /\ DOMAIN E = Inode /\ DOMAIN E[c] = {}
      /\ E[d] = dir[d] /\ E[d][n] = c
  BY <1>2 DEF NoEntries
<1> HIDE DEF E
<1>5. CASE dir' = E /\ UNCHANGED <<type, refcount, writable, pool>>
  <2>1. Tree(type, dir, linked)'
    BY <1>1, <1>3, <1>5
  <2>2. QED
    BY <1>5, <2>1, TypeFromTree DEF IInv, TypeOK, Dirs
<1>6. CASE /\ dir' = Drop(E, d, n)
           /\ refcount' = [refcount EXCEPT ![c] = 0, ![d] = Dec(d)]
           /\ GiveBack(c)
  <2>1. Tree(type, dir', linked) /\ (c \in linked \/ Unnamed(dir', c))
    BY <1>1, <1>3, <1>4, <1>6, TreeDrop
  <2>2. DOMAIN dir'[c] = {}
    BY <1>2, <1>4, <1>6, DropIs
  <2>3. (refcount \in [Inode -> 0 .. MAX_REF_COUNT])'
    <3>1. 0 \in 0 .. MAX_REF_COUNT /\ Dec(d) \in 0 .. MAX_REF_COUNT
      BY CountsInRange DEF IInv
    <3>2. QED
      BY <1>2, <1>6, <3>1
  <2>4. QED
    BY <1>1, <1>2, <1>6, <2>1, <2>2, <2>3, GiveBackIInv
<1>7. QED
  BY <1>1, <1>5, <1>6

\* What soRename leaves of the entries: the name at the new place is gone, or
\* both are, or the inode has the new name, with ".." replaced or not.
LEMMA RenameShape ==
  ASSUME NEW d \in Inode, NEW n \in Name, NEW d2 \in Inode, NEW n2 \in Name,
         soRename(d, n, d2, n2)
  PROVE  LET i == dir[d][n]
             over == Drop(dir, d2, n2)
             taken == Drop(over, d, n)
             moved == Put(taken, d2, n2, i)
         IN  /\ n \in DOMAIN dir[d] \cap Name /\ <<d, n>> # <<d2, n2>>
             /\ type[i] # "free"
             /\ UNCHANGED <<type, writable, pool, linked>>
             /\ \/ dir' = over /\ UNCHANGED refcount
                \/ dir' = taken /\ UNCHANGED refcount
                \/ dir' = moved /\ UNCHANGED refcount
                \/ /\ type[i] = "dir" /\ dir' = Put(moved, i, DotDot, d2)
                   /\ \/ UNCHANGED refcount
                      \/ refcount' = [refcount EXCEPT ![d2] = Inc(d2), ![d] = Dec(d)]
<1> DEFINE i == dir[d][n]
<1> DEFINE over == Drop(dir, d2, n2)
<1> DEFINE taken == Drop(over, d, n)
<1> DEFINE moved == Put(taken, d2, n2, i)
<1>1. over = [dir EXCEPT ![d2] = Without(@, n2)] /\ taken = Taken(over, d, n)
      /\ moved = [taken EXCEPT ![d2] = With(@, n2, i)]
      /\ Parented(moved, i, d2) = Put(moved, i, DotDot, d2)
  BY DEF Drop, Taken, Put, Parented
<1>2. /\ n \in DOMAIN dir[d] \cap Name /\ <<d, n>> # <<d2, n2>>
      /\ type[i] # "free"
      /\ UNCHANGED <<type, writable, pool, linked>>
  BY DEF soRename, UserNames, Kernel
<1>3. \/ dir' = over /\ UNCHANGED refcount
      \/ dir' = taken /\ UNCHANGED refcount
      \/ \E wrong : Settle(moved, i, d, d2, wrong)
  <2> DEFINE target == {dir[d2][n2] : m \in {n2} \cap DOMAIN dir[d2]}
  <2>1. PICK wrong : wrong = half \cup IF target \cap Dirs = {} THEN {} ELSE {d2}
    OBVIOUS
  <2>2. \/ dir' = over /\ UNCHANGED refcount
        \/ dir' = taken /\ UNCHANGED refcount
        \/ Settle(moved, i, d, d2, wrong)
    BY <2>1, Zenon DEF soRename, Drop, Put, Taken
  <2>3. QED
    BY <2>2
<1> HIDE DEF moved, taken, over, i
<1>4. ASSUME NEW wrong, Settle(moved, i, d, d2, wrong)
      PROVE  \/ dir' = moved /\ UNCHANGED refcount
             \/ /\ type[i] = "dir" /\ dir' = Put(moved, i, DotDot, d2)
                /\ \/ UNCHANGED refcount
                   \/ refcount' = [refcount EXCEPT ![d2] = Inc(d2), ![d] = Dec(d)]
  <2>1. CASE type[i] # "dir"
    BY <1>4, <2>1 DEF Settle
  <2>2. CASE type[i] = "dir" /\ (i \notin writable \/ DotDot \notin DOMAIN moved[i])
    BY <1>4, <2>2 DEF Settle
  <2>3. CASE type[i] = "dir" /\ ~ (i \notin writable \/ DotDot \notin DOMAIN moved[i])
    <3>1. dir' = Put(moved, i, DotDot, d2)
      BY <1>1, <1>4, <2>3 DEF Settle
    <3>2. refcount' = IF AtLimit(d2) \/ d = d2 THEN refcount
                      ELSE [refcount EXCEPT ![d2] = Inc(d2), ![d] = Dec(d)]
      BY <1>4, <2>3 DEF Settle
    <3>3. QED
      BY <2>3, <3>1, <3>2
  <2>4. QED
    BY <2>1, <2>2, <2>3
<1>5. QED
  BY <1>2, <1>3, <1>4 DEF moved, taken, over, i

\* soRename moves a name: the inode has no other, unless it is linked.
LEMMA RenameIInv ==
  ASSUME IInv, NEW d \in Dirs, NEW n \in Name, NEW d2 \in Dirs, NEW n2 \in Name,
         soRename(d, n, d2, n2)
  PROVE  IInv'
<1> DEFINE i == dir[d][n]
<1> DEFINE over == Drop(dir, d2, n2)
<1> DEFINE taken == Drop(over, d, n)
<1> DEFINE moved == Put(taken, d2, n2, i)
<1>0. d \in Inode /\ d2 \in Inode /\ type[d] = "dir" /\ type[d2] = "dir"
  BY DEF Dirs
<1>1. /\ n \in DOMAIN dir[d] \cap Name /\ <<d, n>> # <<d2, n2>>
      /\ type[i] # "free"
      /\ UNCHANGED <<type, writable, pool, linked>>
      /\ \/ dir' = over /\ UNCHANGED refcount
         \/ dir' = taken /\ UNCHANGED refcount
         \/ dir' = moved /\ UNCHANGED refcount
         \/ /\ type[i] = "dir" /\ dir' = Put(moved, i, DotDot, d2)
            /\ \/ UNCHANGED refcount
               \/ refcount' = [refcount EXCEPT ![d2] = Inc(d2), ![d] = Dec(d)]
  BY <1>0, RenameShape
<1>2. i \in Inode /\ i # Root /\ DOMAIN dir = Inode
  BY <1>0, <1>1 DEF IInv, Tree, Unnamed
<1>3. Tree(type, over, linked)
  BY <1>0, TreeDrop DEF IInv
<1>4. n \in DOMAIN over[d] \cap Name /\ over[d][n] = i
  BY <1>0, <1>1, <1>2, DropIs
<1> HIDE DEF over
<1>5. Tree(type, taken, linked) /\ (i \in linked \/ Unnamed(taken, i))
  BY <1>0, <1>3, <1>4, TreeDrop
<1> HIDE DEF taken, i
<1>6. Tree(type, moved, linked)
  BY <1>0, <1>1, <1>2, <1>5, TreePut
<1> HIDE DEF moved
<1>7. type[i] = "dir" => Tree(type, Put(moved, i, DotDot, d2), linked)
  BY <1>0, <1>2, <1>6, TreeParent
<1>8. Tree(type, dir, linked)'
  BY <1>1, <1>3, <1>5, <1>6, <1>7
<1>9. (refcount \in [Inode -> 0 .. MAX_REF_COUNT])'
  <2>1. refcount \in [Inode -> 0 .. MAX_REF_COUNT]
    BY DEF IInv, TypeOK
  <2>2. Inc(d2) \in 0 .. MAX_REF_COUNT /\ Dec(d) \in 0 .. MAX_REF_COUNT
    BY <1>0, CountsInRange DEF IInv
  <2>3. QED
    BY <1>0, <1>1, <2>1, <2>2
<1>10. QED
  BY <1>1, <1>8, <1>9, TypeFromTree DEF IInv, TypeOK, Dirs

\* soChmod changes permissions only.
LEMMA ChmodIInv ==
  ASSUME IInv, NEW d \in Dirs, Chmod(d)
  PROVE  IInv'
<1>1. UNCHANGED <<type, refcount, dir, pool, linked>>
  BY DEF Chmod
<1>2. writable' \subseteq Dirs
  BY DEF Chmod, IInv, TypeOK
<1>3. QED
  BY <1>1, <1>2 DEF IInv, TypeOK, Dirs

\* The actions of Next, on directories in use.
LEMMA NextIs ==
  ASSUME Next
  PROVE  \E d \in Dirs :
    \/ Chmod(d)
    \/ \E n \in Name :
         \/ soMknod(d, n) \/ soSymlink(d, n) \/ soUnlink(d, n) \/ soRmdir(d, n)
         \/ \E mayWrite \in BOOLEAN : soMkdir(d, n, mayWrite)
         \/ \E n2 \in Name :
              \/ soLink(d, n, n2)
              \/ \E d2 \in Dirs : soRename(d, n, d2, n2)
BY DEF Next, ReachedDirs

\* Every step keeps the invariant.
LEMMA NextIInv == IInv /\ [Next]_vars => IInv'
<1> SUFFICES ASSUME IInv, [Next]_vars PROVE IInv'
  OBVIOUS
<1>1. CASE UNCHANGED vars
  BY <1>1 DEF vars, IInv, TypeOK, Dirs
<1>2. CASE Next
  <2>1. PICK d \in Dirs :
          \/ Chmod(d)
          \/ \E n \in Name :
               \/ soMknod(d, n) \/ soSymlink(d, n) \/ soUnlink(d, n) \/ soRmdir(d, n)
               \/ \E mayWrite \in BOOLEAN : soMkdir(d, n, mayWrite)
               \/ \E n2 \in Name :
                    \/ soLink(d, n, n2)
                    \/ \E d2 \in Dirs : soRename(d, n, d2, n2)
    BY <1>2, NextIs
  <2>2. d \in Inode
    BY DEF Dirs
  <2>3. CASE Chmod(d)
    BY <2>3, ChmodIInv
  <2>4. ASSUME NEW n \in Name, soMknod(d, n) \/ soSymlink(d, n) PROVE IInv'
    BY <2>2, <2>4, CreateFileIInv DEF soMknod, soSymlink
  <2>5. ASSUME NEW n \in Name, soUnlink(d, n) PROVE IInv'
    BY <2>2, <2>5, UnlinkIInv
  <2>6. ASSUME NEW n \in Name, soRmdir(d, n) PROVE IInv'
    BY <2>2, <2>6, RmdirIInv
  <2>7. ASSUME NEW n \in Name, NEW mayWrite \in BOOLEAN, soMkdir(d, n, mayWrite) PROVE IInv'
    BY <2>2, <2>7, MkdirIInv
  <2>8. ASSUME NEW n \in Name, NEW n2 \in Name, soLink(d, n, n2) PROVE IInv'
    BY <2>2, <2>8, LinkIInv
  <2>9. ASSUME NEW n \in Name, NEW n2 \in Name, NEW d2 \in Dirs, soRename(d, n, d2, n2)
        PROVE  IInv'
    BY <2>9, RenameIInv
  <2>10. QED
    BY <2>1, <2>3, <2>4, <2>5, <2>6, <2>7, <2>8, <2>9
<1>3. QED
  BY <1>1, <1>2

-----------------------------------------------------------------------------
(* The theorems *)

\* The invariant holds of every reachable state.
THEOREM Invariance == Spec => []IInv
<1>1. Init => IInv
  BY InitIInv
<1>2. IInv /\ [Next]_vars => IInv'
  BY NextIInv
<1>3. QED
  BY <1>1, <1>2, PTL DEF Spec

\* An entry leads to an inode in use, unless soLink had given the inode a
\* second name.
THEOREM NothingDangles == Spec => []NoDangling
<1>1. IInv => NoDangling
  <2> SUFFICES ASSUME IInv PROVE NoDangling
    OBVIOUS
  <2>1. ASSUME NEW e \in Named, type[dir[e[1]][e[2]]] = "free"
        PROVE  dir[e[1]][e[2]] \in linked
    <3>1. e[1] \in Inode /\ e[2] \in DOMAIN dir[e[1]] \cap Name
      BY DEF Named
    <3>2. dir[e[1]][e[2]] \in Inode
      BY <3>1 DEF IInv, Tree
    <3>3. QED
      BY <2>1, <3>1, <3>2 DEF IInv, Tree, Unnamed
  <2>2. QED
    BY <2>1 DEF NoDangling, IInv
<1>2. QED
  BY <1>1, Invariance, PTL

\* Nothing but soLink gives an inode two names.
THEOREM NamedOnce == Spec => []OneName
<1>1. IInv => OneName
  <2> SUFFICES ASSUME IInv, NEW i \in Inode \ linked PROVE Cardinality(NamesOf(i)) <= 1
    BY DEF OneName
  <2>1. \A e1, e2 \in NamesOf(i) : e1 = e2
    <3> SUFFICES ASSUME NEW e1 \in NamesOf(i), NEW e2 \in NamesOf(i) PROVE e1 = e2
      OBVIOUS
    <3>1. /\ e1 = <<e1[1], e1[2]>> /\ e2 = <<e2[1], e2[2]>>
          /\ e1[1] \in Inode /\ e1[2] \in DOMAIN dir[e1[1]] \cap Name
          /\ e2[1] \in Inode /\ e2[2] \in DOMAIN dir[e2[1]] \cap Name
          /\ dir[e1[1]][e1[2]] = i /\ dir[e2[1]][e2[2]] = i
      BY DEF NamesOf, Named
    <3>2. e1[1] = e2[1] /\ e1[2] = e2[2]
      BY <3>1 DEF IInv, Tree
    <3>3. QED
      BY <3>1, <3>2
  <2>2. CASE NamesOf(i) = {}
    BY <2>2, FS_EmptySet
  <2>3. CASE NamesOf(i) # {}
    <3>1. PICK e : NamesOf(i) = {e}
      BY <2>1, <2>3
    <3>2. QED
      BY <3>1, FS_Singleton
  <2>4. QED
    BY <2>2, <2>3
<1>2. QED
  BY <1>1, Invariance, PTL

-----------------------------------------------------------------------------
(* Parents and counts, as long as nothing is linked *)

\* ".." of a directory that has a name is the directory with the name, but for
\* those of H.
Parents(T, D, H) ==
  \A x \in Inode : \A m \in DOMAIN D[x] \cap Name :
    T[D[x][m]] = "dir" /\ D[x][m] \notin H
      => DotDot \in DOMAIN D[D[x][m]] /\ D[D[x][m]][DotDot] = x

\* The names in directory x that lead to directories.
Subs(T, D, x) == {m \in DOMAIN D[x] \cap Name : T[D[x][m]] = "dir"}

\* The counts R are those of the names, but for the inodes of X.
Counts(T, R, D, X) ==
  \A x \in Inode \ X :
    /\ T[x] = "file" => R[x] = 1
    /\ T[x] = "dir" => R[x] = 2 + Cardinality(Subs(T, D, x))

\* The more exceptions, the weaker.
LEMMA MoreExceptions ==
  ASSUME NEW T, NEW R, NEW D, NEW H, NEW G, H \subseteq G
  PROVE  /\ Parents(T, D, H) => Parents(T, D, G)
         /\ Counts(T, R, D, H) => Counts(T, R, D, G)
BY DEF Parents, Counts

\* A name may be added for a file, an exception, or a directory whose ".." is
\* where it is added.
LEMMA ParentsPut ==
  ASSUME NEW T, NEW D, NEW L, NEW H, Tree(T, D, L), Parents(T, D, H),
         NEW d \in Inode, NEW n \in Name, NEW i \in Inode,
         T[i] # "dir" \/ i \in H \/ (DotDot \in DOMAIN D[i] /\ D[i][DotDot] = d)
  PROVE  Parents(T, Put(D, d, n, i), H)
<1> DEFINE E == Put(D, d, n, i)
<1>1. /\ DOMAIN E = Inode
      /\ \A x \in Inode : x # d => E[x] = D[x]
      /\ DOMAIN E[d] = DOMAIN D[d] \cup {n}
      /\ E[d][n] = i
      /\ \A m \in DOMAIN D[d] : m # n => E[d][m] = D[d][m]
  BY PutIs DEF Tree
<1> HIDE DEF E
<1>2. \A x \in Inode : DotDot \in DOMAIN D[x] =>
        DotDot \in DOMAIN E[x] /\ E[x][DotDot] = D[x][DotDot]
  BY <1>1, NamespaceAssumption
<1>3. \A x \in Inode : \A m \in DOMAIN E[x] \cap Name :
        \/ x = d /\ m = n /\ E[x][m] = i
        \/ m \in DOMAIN D[x] \cap Name /\ E[x][m] = D[x][m] /\ D[x][m] \in Inode
  BY <1>1 DEF Tree
<1>4. ASSUME NEW x \in Inode, NEW m \in DOMAIN E[x] \cap Name,
             T[E[x][m]] = "dir", E[x][m] \notin H
      PROVE  DotDot \in DOMAIN E[E[x][m]] /\ E[E[x][m]][DotDot] = x
  <2>1. CASE x = d /\ m = n /\ E[x][m] = i
    BY <1>2, <1>4, <2>1
  <2>2. CASE m \in DOMAIN D[x] \cap Name /\ E[x][m] = D[x][m] /\ D[x][m] \in Inode
    <3>1. DotDot \in DOMAIN D[D[x][m]] /\ D[D[x][m]][DotDot] = x
      BY <1>4, <2>2 DEF Parents
    <3>2. QED
      BY <1>2, <2>2, <3>1
  <2>3. QED
    BY <1>3, <2>1, <2>2
<1>5. Parents(T, E, H)
  BY <1>4 DEF Parents
<1>6. QED
  BY <1>5 DEF E

\* A user's entry may be deleted.
LEMMA ParentsDrop ==
  ASSUME NEW T, NEW D, NEW L, NEW H, Tree(T, D, L), Parents(T, D, H),
         NEW d \in Inode, NEW n \in Name
  PROVE  Parents(T, Drop(D, d, n), H)
<1> DEFINE E == Drop(D, d, n)
<1>1. /\ DOMAIN E = Inode
      /\ \A x \in Inode : x # d => E[x] = D[x]
      /\ DOMAIN E[d] = DOMAIN D[d] \ {n}
      /\ \A m \in DOMAIN D[d] : m # n => E[d][m] = D[d][m]
  BY DropIs DEF Tree
<1> HIDE DEF E
<1>2. \A x \in Inode : DotDot \in DOMAIN D[x] =>
        DotDot \in DOMAIN E[x] /\ E[x][DotDot] = D[x][DotDot]
  BY <1>1, NamespaceAssumption
<1>3. \A x \in Inode : \A m \in DOMAIN E[x] \cap Name :
        m \in DOMAIN D[x] \cap Name /\ E[x][m] = D[x][m] /\ D[x][m] \in Inode
  BY <1>1 DEF Tree
<1>4. Parents(T, E, H)
  BY <1>2, <1>3 DEF Parents
<1>5. QED
  BY <1>4 DEF E

\* Every name of i is in directory d.
NamedIn(D, i, d) == \A x \in Inode : \A m \in DOMAIN D[x] \cap Name : D[x][m] = i => x = d

\* ".." of a directory may be replaced by where its names are.
LEMMA ParentsFix ==
  ASSUME NEW T, NEW D, NEW L, NEW H, Tree(T, D, L),
         NEW i \in Inode, NEW d \in Inode, Parents(T, D, H \cup {i}), NamedIn(D, i, d)
  PROVE  Parents(T, Put(D, i, DotDot, d), H)
<1> DEFINE E == Put(D, i, DotDot, d)
<1>1. /\ DOMAIN E = Inode
      /\ \A x \in Inode : x # i => E[x] = D[x]
      /\ DOMAIN E[i] = DOMAIN D[i] \cup {DotDot}
      /\ E[i][DotDot] = d
      /\ \A m \in DOMAIN D[i] : m # DotDot => E[i][m] = D[i][m]
  BY PutIs DEF Tree
<1> HIDE DEF E
<1>2. \A x \in Inode : \A m \in DOMAIN E[x] \cap Name :
        m \in DOMAIN D[x] \cap Name /\ E[x][m] = D[x][m] /\ D[x][m] \in Inode
  BY <1>1, NamespaceAssumption DEF Tree
<1>3. ASSUME NEW x \in Inode, NEW m \in DOMAIN E[x] \cap Name,
             T[E[x][m]] = "dir", E[x][m] \notin H
      PROVE  DotDot \in DOMAIN E[E[x][m]] /\ E[E[x][m]][DotDot] = x
  <2>1. CASE E[x][m] = i
    BY <1>1, <1>2, <2>1 DEF NamedIn
  <2>2. CASE E[x][m] # i
    <3>1. DotDot \in DOMAIN D[D[x][m]] /\ D[D[x][m]][DotDot] = x
      BY <1>2, <1>3, <2>2 DEF Parents
    <3>2. QED
      BY <1>1, <1>2, <2>2, <3>1
  <2>3. QED
    BY <2>1, <2>2
<1>4. Parents(T, E, H)
  BY <1>3 DEF Parents
<1>5. QED
  BY <1>4 DEF E

\* The entries of a directory without a name, or of an exception, may be
\* replaced by none, or by "." and "..".
LEMMA ParentsReset ==
  ASSUME NEW T, NEW D, NEW L, NEW H, Tree(T, D, L), Parents(T, D, H),
         NEW c \in Inode, NEW d \in Inode, c \in H \/ Unnamed(D, c)
  PROVE  /\ Parents(T, [D EXCEPT ![c] = NoEntries], H)
         /\ Parents(T, [D EXCEPT ![c] = Dots(c, d)], H)
<1>1. ASSUME NEW f, DOMAIN f \cap Name = {}
      PROVE  Parents(T, [D EXCEPT ![c] = f], H)
  <2> DEFINE E == [D EXCEPT ![c] = f]
  <2>1. DOMAIN E = Inode /\ E[c] = f /\ \A x \in Inode : x # c => E[x] = D[x]
    BY DEF Tree
  <2> HIDE DEF E
  <2>2. \A x \in Inode : \A m \in DOMAIN E[x] \cap Name :
          /\ m \in DOMAIN D[x] \cap Name /\ E[x][m] = D[x][m]
          /\ D[x][m] \in Inode /\ (D[x][m] # c \/ c \in H)
    BY <1>1, <2>1 DEF Tree, Unnamed
  <2>3. ASSUME NEW x \in Inode, NEW m \in DOMAIN E[x] \cap Name,
               T[E[x][m]] = "dir", E[x][m] \notin H
        PROVE  DotDot \in DOMAIN E[E[x][m]] /\ E[E[x][m]][DotDot] = x
    <3>1. DotDot \in DOMAIN D[D[x][m]] /\ D[D[x][m]][DotDot] = x
      BY <2>2, <2>3 DEF Parents
    <3>2. QED
      BY <2>1, <2>2, <2>3, <3>1
  <2>4. Parents(T, E, H)
    BY <2>3 DEF Parents
  <2>5. QED
    BY <2>4 DEF E
<1>2. DOMAIN NoEntries \cap Name = {} /\ DOMAIN Dots(c, d) \cap Name = {}
  BY DotsAre, NamespaceAssumption DEF NoEntries
<1>3. QED
  BY <1>1, <1>2

\* The type of an inode may change if no name leads to it, and to what is no
\* directory in any case.
LEMMA ParentsRetype ==
  ASSUME NEW T, NEW D, NEW L, NEW H, Tree(T, D, L), Parents(T, D, H),
         T \in [Inode -> {"free", "file", "dir"}],
         NEW c \in Inode, NEW t, t # "dir" \/ Unnamed(D, c)
  PROVE  /\ Parents([T EXCEPT ![c] = t], D, H)
         /\ t # "dir" => Parents([T EXCEPT ![c] = t], D, H \ {c})
<1>1. \A x \in Inode : \A m \in DOMAIN D[x] \cap Name :
        D[x][m] \in Inode /\ (D[x][m] # c => [T EXCEPT ![c] = t][D[x][m]] = T[D[x][m]])
  BY DEF Tree
<1>2. [T EXCEPT ![c] = t][c] = t
  OBVIOUS
<1>3. QED
  BY <1>1, <1>2 DEF Parents, Unnamed

\* There are finitely many names, so that those of subdirectories are counted.
LEMMA SubsFinite ==
  ASSUME NEW T, NEW D, NEW x
  PROVE  IsFiniteSet(Subs(T, D, x)) /\ Cardinality(Subs(T, D, x)) \in Nat
<1>1. Subs(T, D, x) \subseteq Name
  BY DEF Subs
<1>2. QED
  BY <1>1, NamespaceAssumption, FS_Subset, FS_CardinalityType

\* A directory whose entries stay has the subdirectories it had.
LEMMA SubsSame ==
  ASSUME NEW T, NEW D, NEW E, NEW x, E[x] = D[x]
  PROVE  Subs(T, E, x) = Subs(T, D, x)
BY DEF Subs

\* One without names has none.
LEMMA SubsNone ==
  ASSUME NEW T, NEW D, NEW x, DOMAIN D[x] \cap Name = {}
  PROVE  Subs(T, D, x) = {}
BY DEF Subs

\* A name that is added counts in its directory if it leads to another.
LEMMA SubsPut ==
  ASSUME NEW T, NEW D, DOMAIN D = Inode, NEW d \in Inode, NEW n \in Name, NEW i
  PROVE  Subs(T, Put(D, d, n, i), d) =
           IF T[i] = "dir" THEN Subs(T, D, d) \cup {n} ELSE Subs(T, D, d) \ {n}
<1> DEFINE E == Put(D, d, n, i)
<1>1. /\ DOMAIN E = Inode
      /\ DOMAIN E[d] = DOMAIN D[d] \cup {n}
      /\ E[d][n] = i
      /\ \A m \in DOMAIN D[d] : m # n => E[d][m] = D[d][m]
  BY PutIs
<1> HIDE DEF E
<1>2. CASE T[i] = "dir"
  BY <1>1, <1>2 DEF Subs, E
<1>3. CASE T[i] # "dir"
  BY <1>1, <1>3 DEF Subs, E
<1>4. QED
  BY <1>2, <1>3

\* ".." does not count.
LEMMA SubsParent ==
  ASSUME NEW T, NEW D, DOMAIN D = Inode, NEW i \in Inode, NEW d, NEW x \in Inode
  PROVE  Subs(T, Put(D, i, DotDot, d), x) = Subs(T, D, x)
<1> DEFINE E == Put(D, i, DotDot, d)
<1>1. /\ x # i => E[x] = D[x]
      /\ DOMAIN E[i] = DOMAIN D[i] \cup {DotDot}
      /\ \A m \in DOMAIN D[i] : m # DotDot => E[i][m] = D[i][m]
  BY PutIs
<1> HIDE DEF E
<1>2. /\ DOMAIN E[x] \cap Name = DOMAIN D[x] \cap Name
      /\ \A m \in DOMAIN E[x] \cap Name : E[x][m] = D[x][m]
  BY <1>1, NamespaceAssumption
<1>3. Subs(T, E, x) = Subs(T, D, x)
  BY <1>2 DEF Subs
<1>4. QED
  BY <1>3 DEF E

\* A name that is deleted does not count any more.
LEMMA SubsDrop ==
  ASSUME NEW T, NEW D, DOMAIN D = Inode, NEW d \in Inode, NEW n
  PROVE  Subs(T, Drop(D, d, n), d) = Subs(T, D, d) \ {n}
<1> DEFINE E == Drop(D, d, n)
<1>1. /\ DOMAIN E[d] = DOMAIN D[d] \ {n}
      /\ \A m \in DOMAIN D[d] : m # n => E[d][m] = D[d][m]
  BY DropIs
<1> HIDE DEF E
<1>2. Subs(T, E, d) = Subs(T, D, d) \ {n}
  BY <1>1 DEF Subs
<1>3. QED
  BY <1>2 DEF E

\* Only c may be of another type in U than in T.
Retyped(T, U, c) == \A y \in Inode : y # c => U[y] = T[y]

\* The type of an inode no name leads to does not count, nor does one that is
\* and was no directory's.
LEMMA SubsRetype ==
  ASSUME NEW T, NEW D, NEW L, Tree(T, D, L), NEW U, NEW c \in Inode, Retyped(T, U, c),
         Unnamed(D, c) \/ (U[c] # "dir" /\ T[c] # "dir"), NEW x \in Inode
  PROVE  Subs(U, D, x) = Subs(T, D, x)
<1>1. \A m \in DOMAIN D[x] \cap Name :
        D[x][m] \in Inode /\ ((U[D[x][m]] = "dir") <=> (T[D[x][m]] = "dir"))
  BY DEF Tree, Unnamed, Retyped
<1>2. QED
  BY <1>1 DEF Subs

-----------------------------------------------------------------------------
(* The steps, as long as nothing is linked *)

Kept ==
  /\ Parents(type, dir, half)
  /\ Counts(type, refcount, dir, lost \cup half)

\* Without hard links an inode that is not in use has no name.
LEMMA NotLinked ==
  ASSUME IInv, linked = {}
  PROVE  /\ type \in [Inode -> {"free", "file", "dir"}] /\ DOMAIN dir = Inode
         /\ refcount \in [Inode -> 0 .. MAX_REF_COUNT]
         /\ Tree(type, dir, {})
         /\ \A c \in pool : c \in Inode /\ type[c] = "free" /\ Unnamed(dir, c) /\ DOMAIN dir[c] = {}
BY DEF IInv, TypeOK, Tree

\* A formatted disk has one directory, with count 2 and itself as parent.
LEMMA InitKept == Init => Kept
<1> SUFFICES ASSUME Init PROVE Kept
  OBVIOUS
<1>1. \A x \in Inode : DOMAIN dir[x] \cap Name = {}
  BY DotsAre, NamespaceAssumption DEF Init, NoEntries
<1>2. \A x \in Inode : Subs(type, dir, x) = {}
  BY <1>1 DEF Subs
<1>3. \A x \in Inode : Cardinality(Subs(type, dir, x)) = 0
  BY <1>2, FS_EmptySet
<1>4. QED
  BY <1>1, <1>3 DEF Kept, Parents, Counts, Init

\* A new file has one name, or is lost.
LEMMA CreateFileKept ==
  ASSUME IInv, linked = {}, Kept, NEW d \in Dirs, NEW n \in Name, NEW mayFail, NEW count,
         CreateFile(d, n, mayFail, count)
  PROVE  Kept'
<1>1. PICK c \in pool :
        /\ type' = [type EXCEPT ![c] = "file"] /\ UNCHANGED half
        /\ \/ /\ UNCHANGED dir /\ refcount' = [refcount EXCEPT ![c] = count]
              /\ lost' = lost \cup {c}
           \/ /\ dir' = Put(dir, d, n, c) /\ refcount' = [refcount EXCEPT ![c] = 1]
              /\ UNCHANGED lost
  BY DEF CreateFile, Put, Take
<1>2. /\ type \in [Inode -> {"free", "file", "dir"}] /\ DOMAIN dir = Inode
      /\ refcount \in [Inode -> 0 .. MAX_REF_COUNT]
      /\ Tree(type, dir, {}) /\ c \in Inode /\ type[c] = "free" /\ Unnamed(dir, c)
      /\ d \in Inode /\ n \notin DOMAIN dir[d]
  BY NotLinked DEF Dirs, CreateFile, MayCreate
<1>3. Tree(type', dir, {}) /\ type' \in [Inode -> {"free", "file", "dir"}]
  BY <1>1, <1>2, TreeTake
<1>4. Parents(type', dir, half)
  BY <1>1, <1>2, ParentsRetype DEF Kept
<1>5. ASSUME NEW x \in Inode PROVE Subs(type', dir, x) = Subs(type, dir, x)
  <2>1. Retyped(type, type', c)
    BY <1>1, <1>2 DEF Retyped
  <2>2. QED
    BY <1>2, <2>1, SubsRetype
<1>6. type'[c] = "file" /\ \A x \in Inode : x # c => type'[x] = type[x]
  BY <1>1, <1>2
<1>7. CASE /\ UNCHANGED dir /\ refcount' = [refcount EXCEPT ![c] = count]
           /\ lost' = lost \cup {c}
  <2>1. \A x \in Inode : x # c => refcount'[x] = refcount[x]
    BY <1>2, <1>7
  <2>2. Counts(type, refcount, dir, lost \cup half)'
    BY <1>1, <1>5, <1>6, <1>7, <2>1 DEF Kept, Counts
  <2>3. QED
    BY <1>1, <1>4, <1>7, <2>2 DEF Kept
<1>8. CASE /\ dir' = Put(dir, d, n, c) /\ refcount' = [refcount EXCEPT ![c] = 1]
           /\ UNCHANGED lost
  <2>1. Parents(type, dir, half)'
    BY <1>1, <1>2, <1>3, <1>4, <1>6, <1>8, ParentsPut
  <2>2. \A x \in Inode : Subs(type', dir', x) = Subs(type, dir, x)
    <3>1. n \notin Subs(type', dir, d)
      BY <1>2 DEF Subs
    <3>2. Subs(type', dir', d) = Subs(type', dir, d) \ {n}
      BY <1>2, <1>6, <1>8, SubsPut
    <3>3. \A x \in Inode : x # d => Subs(type', dir', x) = Subs(type', dir, x)
      BY <1>2, <1>8, PutIs, SubsSame
    <3>4. QED
      BY <1>5, <3>1, <3>2, <3>3
  <2>3. refcount'[c] = 1 /\ \A x \in Inode : x # c => refcount'[x] = refcount[x]
    BY <1>2, <1>8
  <2>4. Counts(type, refcount, dir, lost \cup half)'
    BY <1>1, <1>6, <1>8, <2>2, <2>3 DEF Kept, Counts
  <2>5. QED
    BY <2>1, <2>4 DEF Kept
<1>9. QED
  BY <1>1, <1>7, <1>8

\* A new directory has one name, in its "..", or is lost.
LEMMA MkdirKept ==
  ASSUME IInv, linked = {}, Kept, NEW d \in Dirs, NEW n \in Name, NEW mayWrite,
         soMkdir(d, n, mayWrite)
  PROVE  Kept'
<1>1. PICK c \in pool :
        /\ type' = [type EXCEPT ![c] = "dir"]
        /\ \/ /\ lost' = lost \cup {c}
              /\ UNCHANGED <<dir, refcount, half>>
           \/ /\ lost' = lost \cup {c}
              /\ dir' = [dir EXCEPT ![c] = Dots(c, d)]
              /\ refcount' = [refcount EXCEPT ![c] = 2]
              /\ UNCHANGED half
           \/ /\ dir' = [dir EXCEPT ![c] = Dots(c, d), ![d] = With(@, n, c)]
              /\ refcount' = [refcount EXCEPT ![c] = 2, ![d] = Inc(d)]
              /\ half' = IF AtLimit(d) THEN half \cup {d} ELSE half
              /\ UNCHANGED lost
  BY DEF soMkdir, Take
<1>2. /\ type \in [Inode -> {"free", "file", "dir"}] /\ DOMAIN dir = Inode
      /\ refcount \in [Inode -> 0 .. MAX_REF_COUNT]
      /\ Tree(type, dir, {}) /\ c \in Inode /\ type[c] = "free" /\ Unnamed(dir, c)
      /\ d \in Inode /\ type[d] = "dir" /\ c # d /\ n \notin DOMAIN dir[d]
  BY NotLinked DEF Dirs, soMkdir, MayCreate
<1>3. /\ type'[c] = "dir" /\ type'[d] = "dir"
      /\ \A x \in Inode : x # c => type'[x] = type[x]
      /\ Retyped(type, type', c)
  BY <1>1, <1>2 DEF Retyped
<1>4. Tree(type', dir, {})
  BY <1>1, <1>2, TreeTake
<1>5. Parents(type', dir, half)
  BY <1>1, <1>2, ParentsRetype DEF Kept
<1>6. ASSUME NEW x \in Inode PROVE Subs(type', dir, x) = Subs(type, dir, x)
  BY <1>2, <1>3, SubsRetype
<1> DEFINE E == [dir EXCEPT ![c] = Dots(c, d)]
<1>7. /\ DOMAIN E = Inode /\ E[d] = dir[d]
      /\ Tree(type', E, {}) /\ Unnamed(E, c)
      /\ DotDot \in DOMAIN E[c] /\ E[c][DotDot] = d
  <2>1. Tree(type', E, {}) /\ Unnamed(E, c)
    BY <1>2, <1>3, <1>4, TreeReset
  <2>2. QED
    BY <1>2, <2>1, DotsAre
<1>8. Parents(type', E, half)
  BY <1>2, <1>4, <1>5, ParentsReset
<1>9. ASSUME NEW x \in Inode
      PROVE  /\ x # c => Subs(type', E, x) = Subs(type, dir, x)
             /\ Subs(type', E, c) = {}
  <2>1. DOMAIN Dots(c, d) \cap Name = {}
    BY DotsAre, NamespaceAssumption
  <2>2. E[c] = Dots(c, d) /\ (x # c => E[x] = dir[x])
    BY <1>2
  <2> HIDE DEF E
  <2>3. QED
    BY <1>6, <2>1, <2>2, SubsSame, SubsNone
<1>10. CASE /\ lost' = lost \cup {c}
            /\ UNCHANGED <<dir, refcount, half>>
  <2>1. Counts(type, refcount, dir, lost \cup half)'
    BY <1>3, <1>6, <1>10 DEF Kept, Counts
  <2>2. QED
    BY <1>5, <1>10, <2>1 DEF Kept
<1>11. CASE /\ lost' = lost \cup {c} /\ dir' = E
            /\ refcount' = [refcount EXCEPT ![c] = 2] /\ UNCHANGED half
  <2>1. \A x \in Inode : x # c => refcount'[x] = refcount[x]
    BY <1>2, <1>11
  <2>2. Counts(type, refcount, dir, lost \cup half)'
    <3> HIDE DEF E
    <3>1. QED
      BY <1>3, <1>9, <1>11, <2>1 DEF Kept, Counts
  <2>3. QED
    BY <1>8, <1>11, <2>2 DEF Kept
<1>12. CASE /\ dir' = [dir EXCEPT ![c] = Dots(c, d), ![d] = With(@, n, c)]
            /\ refcount' = [refcount EXCEPT ![c] = 2, ![d] = Inc(d)]
            /\ half' = IF AtLimit(d) THEN half \cup {d} ELSE half
            /\ UNCHANGED lost
  <2>1. dir' = Put(E, d, n, c)
    BY <1>2, <1>7, <1>12 DEF Put
  <2>2. /\ refcount'[c] = 2 /\ refcount'[d] = Inc(d)
        /\ \A x \in Inode : x # c /\ x # d => refcount'[x] = refcount[x]
    BY <1>2, <1>12
  <2> HIDE DEF E
  <2>3. Parents(type', dir', half)
    BY <1>2, <1>7, <1>8, <2>1, ParentsPut
  <2>4. half \subseteq half' /\ (AtLimit(d) => d \in half')
    BY <1>12
  <2>5. Parents(type, dir, half)'
    BY <2>3, <2>4, MoreExceptions
  <2>6. \A x \in Inode : x # c /\ x # d => Subs(type', dir', x) = Subs(type, dir, x)
    BY <1>2, <1>7, <1>9, <2>1, PutIs, SubsSame
  <2>7. Subs(type', dir', c) = {}
    BY <1>2, <1>7, <1>9, <2>1, PutIs, SubsSame
  <2>8. Subs(type', dir', d) = Subs(type, dir, d) \cup {n}
    BY <1>2, <1>3, <1>7, <1>9, <2>1, SubsPut
  <2>9. Cardinality(Subs(type', dir', c)) = 0
    BY <2>7, FS_EmptySet
  <2>10. Cardinality(Subs(type', dir', d)) = Cardinality(Subs(type, dir, d)) + 1
    <3>1. n \notin Subs(type, dir, d)
      BY <1>2 DEF Subs
    <3>2. QED
      BY <2>8, <3>1, SubsFinite, FS_AddElement
  <2>11. Cardinality(Subs(type, dir, d)) \in Nat
    BY SubsFinite
  <2>12. d \notin lost \cup half => refcount[d] = 2 + Cardinality(Subs(type, dir, d))
    BY <1>2 DEF Kept, Counts
  <2>13. d \notin (lost \cup half)' => refcount'[d] = 2 + Cardinality(Subs(type', dir', d))
    BY <1>2, <1>12, <2>2, <2>4, <2>10, <2>11, <2>12 DEF Inc
  <2>14. \A x \in Inode \ (lost \cup half)' : x # c /\ x # d =>
           /\ type'[x] = "file" => refcount'[x] = 1
           /\ type'[x] = "dir" => refcount'[x] = 2 + Cardinality(Subs(type', dir', x))
    BY <1>3, <1>12, <2>2, <2>4, <2>6 DEF Kept, Counts
  <2>15. Counts(type, refcount, dir, lost \cup half)'
    BY <1>3, <2>2, <2>9, <2>13, <2>14 DEF Counts
  <2>16. QED
    BY <2>5, <2>15 DEF Kept
<1>13. QED
  BY <1>1, <1>10, <1>11, <1>12

\* A file's only name goes with the inode; one that has lost it keeps the name
\* if its count was wrong.
LEMMA UnlinkKept ==
  ASSUME IInv, linked = {}, Kept, NEW d \in Dirs, NEW n \in Name, soUnlink(d, n)
  PROVE  Kept'
<1> DEFINE i == dir[d][n]
<1>1. /\ n \in DOMAIN dir[d] \cap Name /\ type[i] # "dir"
      /\ refcount' = [refcount EXCEPT ![i] = Dec(i)]
      /\ Dec(i) = 0 => dir' = Drop(dir, d, n) /\ GiveBack(i)
      /\ Dec(i) # 0 => UNCHANGED <<dir, type, lost, half>>
  BY DEF soUnlink, Drop, UserNames
<1>2. /\ type \in [Inode -> {"free", "file", "dir"}] /\ DOMAIN dir = Inode
      /\ refcount \in [Inode -> 0 .. MAX_REF_COUNT]
      /\ Tree(type, dir, {}) /\ d \in Inode /\ type[d] = "dir"
  BY NotLinked DEF Dirs
<1>3. i \in Inode /\ type[i] = "file"
  <2>1. i \in Inode /\ type[i] # "free"
    BY <1>1, <1>2 DEF Tree, Unnamed
  <2>2. QED
    BY <1>1, <1>2, <2>1
<1>4. \A x \in Inode : x # i => refcount'[x] = refcount[x]
  BY <1>1, <1>2
<1> HIDE DEF i
<1>5. CASE Dec(i) # 0
  <2>1. i \in lost \cup half
    BY <1>3, <1>5 DEF Kept, Counts, Dec
  <2>2. Counts(type, refcount, dir, lost \cup half)'
    BY <1>1, <1>4, <1>5, <2>1 DEF Kept, Counts
  <2>3. QED
    BY <1>1, <1>5, <2>2 DEF Kept
<1>6. CASE Dec(i) = 0
  <2>1. /\ dir' = Drop(dir, d, n) /\ type' = [type EXCEPT ![i] = "free"]
        /\ lost' = lost \ {i} /\ half' = half \ {i}
    BY <1>1, <1>6 DEF GiveBack
  <2>2. Tree(type, dir', {}) /\ Parents(type, dir', half)
    BY <1>2, <2>1, TreeDrop, ParentsDrop DEF Kept
  <2>3. Parents(type, dir, half)'
    BY <1>2, <1>3, <2>1, <2>2, ParentsRetype
  <2>4. /\ type'[i] = "free" /\ Retyped(type, type', i)
        /\ \A x \in Inode : x # i => type'[x] = type[x]
    BY <1>2, <1>3, <2>1 DEF Retyped
  <2>5. ASSUME NEW x \in Inode PROVE Subs(type', dir', x) = Subs(type, dir, x)
    <3>1. Subs(type', dir', x) = Subs(type, dir', x)
      BY <1>3, <2>2, <2>4, SubsRetype
    <3>2. CASE x = d
      <4>1. n \notin Subs(type, dir, d)
        BY <1>3 DEF Subs, i
      <4>2. Subs(type, dir', d) = Subs(type, dir, d) \ {n}
        BY <1>2, <2>1, SubsDrop
      <4>3. QED
        BY <3>1, <3>2, <4>1, <4>2
    <3>3. CASE x # d
      BY <1>2, <2>1, <3>1, <3>3, DropIs, SubsSame
    <3>4. QED
      BY <3>2, <3>3
  <2>6. Counts(type, refcount, dir, lost \cup half)'
    BY <1>4, <2>1, <2>4, <2>5 DEF Kept, Counts
  <2>7. QED
    BY <2>3, <2>6 DEF Kept
<1>7. QED
  BY <1>5, <1>6

\* A directory goes with its only name, and its parent's count with it; one
\* that stays, without "..", is an exception.
LEMMA RmdirKept ==
  ASSUME IInv, linked = {}, Kept, NEW d \in Dirs, NEW n \in Name, soRmdir(d, n)
  PROVE  Kept'
<1> DEFINE c == dir[d][n]
<1> DEFINE E == [dir EXCEPT ![c] = NoEntries]
<1>1. /\ n \in DOMAIN dir[d] \cap Name /\ type[c] = "dir"
      /\ DOMAIN dir[c] = {Dot, DotDot} /\ c # d
  <2>1. n \in DOMAIN dir[d] \cap Name /\ c \in Dirs
    BY DEF soRmdir, UserNames
  <2>2. DOMAIN dir[c] = {Dot, DotDot}
    BY DEF soRmdir, Empty
  <2>3. QED
    BY <2>1, <2>2, NamespaceAssumption DEF Dirs
<1>2. /\ type \in [Inode -> {"free", "file", "dir"}] /\ DOMAIN dir = Inode
      /\ refcount \in [Inode -> 0 .. MAX_REF_COUNT]
      /\ Tree(type, dir, {}) /\ d \in Inode /\ c \in Inode
  BY <1>1, NotLinked DEF Dirs, Tree
<1>3. /\ DOMAIN E = Inode /\ E[d] = dir[d] /\ E[c] = NoEntries
      /\ \A x \in Inode : x # c => E[x] = dir[x]
      /\ DOMAIN NoEntries \cap Name = {}
  BY <1>1, <1>2 DEF NoEntries
<1>4. /\ Tree(type, E, {}) /\ Parents(type, E, half \cup {c})
  <2>1. Parents(type, dir, half \cup {c})
    BY MoreExceptions DEF Kept
  <2>2. Tree(type, E, {})
    BY <1>2, TreeReset
  <2>3. QED
    BY <1>2, <2>1, <2>2, ParentsReset
<1>5. ASSUME NEW x \in Inode PROVE Subs(type, E, x) = Subs(type, dir, x)
  <2> HIDE DEF E
  <2>1. CASE x = c
    <3>1. DOMAIN dir[c] \cap Name = {}
      BY <1>1, NamespaceAssumption
    <3>2. QED
      BY <1>3, <2>1, <3>1, SubsNone
  <2>2. CASE x # c
    BY <1>3, <2>2, SubsSame
  <2>3. QED
    BY <2>1, <2>2
<1>6. CASE d \notin writable
  <2>1. dir' = E /\ half' = half \cup {c} /\ UNCHANGED <<type, refcount, lost>>
    BY <1>6 DEF soRmdir
  <2> HIDE DEF E
  <2>2. Counts(type, refcount, dir, lost \cup half)'
    BY <1>5, <2>1 DEF Kept, Counts
  <2>3. QED
    BY <1>4, <2>1, <2>2 DEF Kept
<1>7. CASE d \in writable
  <2>1. /\ dir' = [dir EXCEPT ![c] = NoEntries, ![d] = Without(@, n)]
        /\ refcount' = [refcount EXCEPT ![c] = 0, ![d] = Dec(d)]
        /\ GiveBack(c)
    BY <1>7, Zenon DEF soRmdir
  <2>2. dir' = Drop(E, d, n)
    BY <1>1, <1>3, <2>1 DEF Drop
  <2>3. /\ type' = [type EXCEPT ![c] = "free"] /\ lost' = lost \ {c} /\ half' = half \ {c}
    BY <2>1 DEF GiveBack
  <2>4. refcount'[d] = Dec(d) /\ \A x \in Inode : x # c /\ x # d => refcount'[x] = refcount[x]
    BY <1>1, <1>2, <2>1
  <2> HIDE DEF E
  <2>5. /\ type'[c] = "free" /\ Retyped(type, type', c)
        /\ \A x \in Inode : x # c => type'[x] = type[x]
    BY <1>2, <2>3 DEF Retyped
  <2>6. Tree(type, dir', {}) /\ Unnamed(dir', c)
    BY <1>1, <1>2, <1>3, <1>4, <2>2, TreeDrop
  <2>7. Parents(type, dir, half)'
    <3>1. Parents(type, dir', half \cup {c})
      BY <1>2, <1>4, <2>2, ParentsDrop
    <3>2. Parents(type', dir', (half \cup {c}) \ {c})
      BY <1>2, <2>3, <2>6, <3>1, ParentsRetype
    <3>3. half' = (half \cup {c}) \ {c}
      BY <2>3
    <3>4. QED
      BY <3>2, <3>3
  <2>8. ASSUME NEW x \in Inode PROVE Subs(type', dir', x) = Subs(type, dir', x)
    BY <1>2, <2>5, <2>6, SubsRetype
  <2>9. \A x \in Inode : x # d => Subs(type', dir', x) = Subs(type, dir, x)
    BY <1>2, <1>3, <1>5, <2>2, <2>8, DropIs, SubsSame
  <2>10. Subs(type', dir', d) = Subs(type, dir, d) \ {n}
    BY <1>2, <1>3, <1>5, <2>2, <2>8, SubsDrop
  <2>11. Cardinality(Subs(type', dir', d)) = Cardinality(Subs(type, dir, d)) - 1
    <3>1. n \in Subs(type, dir, d)
      BY <1>1 DEF Subs
    <3>2. QED
      BY <2>10, <3>1, SubsFinite, FS_RemoveElement
  <2>12. Cardinality(Subs(type, dir, d)) \in Nat
    BY SubsFinite
  <2>13. d \notin (lost \cup half)' => refcount'[d] = 2 + Cardinality(Subs(type', dir', d))
    <3>1. d \notin (lost \cup half)' => refcount[d] = 2 + Cardinality(Subs(type, dir, d))
      BY <1>1, <1>2, <2>3 DEF Kept, Counts, Dirs
    <3>2. QED
      BY <2>4, <2>11, <2>12, <3>1 DEF Dec
  <2>14. type'[d] = "dir"
    BY <1>1, <1>2, <2>5 DEF Dirs
  <2>15. Counts(type, refcount, dir, lost \cup half)'
    BY <2>3, <2>4, <2>5, <2>9, <2>13, <2>14 DEF Kept, Counts
  <2>16. QED
    BY <2>7, <2>15 DEF Kept
<1>8. QED
  BY <1>6, <1>7

\* What soRename takes for exceptions: the new directory, if it has deleted a
\* directory there; the old one, if a directory found no place.  What it deletes
\* there, and what finds no place, is lost.
LEMMA RenameParts ==
  ASSUME IInv, NEW d \in Inode, NEW n \in Name, NEW d2 \in Inode, NEW n2 \in Name,
         soRename(d, n, d2, n2)
  PROVE  LET i == dir[d][n]
             over == Drop(dir, d2, n2)
             taken == Drop(over, d, n)
             moved == Put(taken, d2, n2, i)
         IN  \E wrong :
               /\ half \subseteq wrong /\ lost \subseteq lost' /\ lost' \subseteq lost \cup Inode
               /\ n2 \in DOMAIN dir[d2] /\ type[dir[d2][n2]] # "free" => dir[d2][n2] \in lost'
               /\ n2 \in Subs(type, dir, d2) => d2 \in wrong
               /\ \/ dir' = over /\ half' = wrong /\ UNCHANGED refcount
                  \/ /\ dir' = taken /\ UNCHANGED refcount /\ i \in lost'
                     /\ half' = wrong \cup IF i \in Dirs THEN {d} ELSE {}
                  \/ Settle(moved, i, d, d2, wrong)
<1> DEFINE i == dir[d][n]
<1> DEFINE over == Drop(dir, d2, n2)
<1> DEFINE taken == Drop(over, d, n)
<1> DEFINE moved == Put(taken, d2, n2, i)
<1> DEFINE target == {dir[d2][n2] : m \in {n2} \cap DOMAIN dir[d2]}
<1> DEFINE nameless == lost \cup {t \in target : type[t] # "free"}
<1> DEFINE wrong == half \cup IF target \cap Dirs = {} THEN {} ELSE {d2}
<1>1. \/ dir' = over /\ lost' = nameless /\ half' = wrong /\ UNCHANGED refcount
      \/ /\ dir' = taken /\ lost' = nameless \cup {i}
         /\ half' = wrong \cup IF i \in Dirs THEN {d} ELSE {}
         /\ UNCHANGED refcount
      \/ Settle(moved, i, d, d2, wrong) /\ lost' = nameless
  BY Zenon DEF soRename, Drop, Put, Taken
<1>2. half \subseteq wrong /\ lost \subseteq nameless
  OBVIOUS
<1>3. ASSUME n2 \in Subs(type, dir, d2) PROVE d2 \in wrong
  <2>1. dir[d2][n2] \in target /\ dir[d2][n2] \in Dirs
    BY <1>3 DEF Subs, Dirs, IInv, Tree
  <2>2. QED
    BY <2>1
<1>5. /\ nameless \subseteq lost \cup Inode /\ i \in Inode
      /\ n2 \in DOMAIN dir[d2] /\ type[dir[d2][n2]] # "free" => dir[d2][n2] \in nameless
  <2>1. i \in Inode
    BY DEF soRename, UserNames, IInv, Tree
  <2>2. target \subseteq Inode
    BY DEF IInv, Tree
  <2>3. n2 \in DOMAIN dir[d2] => dir[d2][n2] \in target
    OBVIOUS
  <2>4. QED
    BY <2>1, <2>2, <2>3
<1> HIDE DEF wrong, nameless, moved, taken, over, i
<1>4. \/ dir' = over /\ half' = wrong /\ UNCHANGED refcount
      \/ /\ dir' = taken /\ UNCHANGED refcount /\ i \in lost'
         /\ half' = wrong \cup IF i \in Dirs THEN {d} ELSE {}
      \/ Settle(moved, i, d, d2, wrong)
  BY <1>1
<1>6. lost \subseteq lost' /\ lost' \subseteq lost \cup Inode
  BY <1>1, <1>2, <1>5
<1>7. n2 \in DOMAIN dir[d2] /\ type[dir[d2][n2]] # "free" => dir[d2][n2] \in lost'
  BY <1>1, <1>5
<1>8. QED
  BY <1>2, <1>3, <1>4, <1>6, <1>7 DEF moved, taken, over, i

\* A name that moves takes its ".." and its counts with it, with the
\* exceptions that soRename makes.
LEMMA RenameKept ==
  ASSUME IInv, linked = {}, Kept, NEW d \in Dirs, NEW n \in Name, NEW d2 \in Dirs, NEW n2 \in Name,
         soRename(d, n, d2, n2)
  PROVE  Kept'
<1> DEFINE i == dir[d][n]
<1> DEFINE over == Drop(dir, d2, n2)
<1> DEFINE taken == Drop(over, d, n)
<1> DEFINE moved == Put(taken, d2, n2, i)
<1>1. /\ type \in [Inode -> {"free", "file", "dir"}] /\ DOMAIN dir = Inode
      /\ refcount \in [Inode -> 0 .. MAX_REF_COUNT]
      /\ Tree(type, dir, {}) /\ d \in Inode /\ d2 \in Inode
      /\ type[d] = "dir" /\ type[d2] = "dir"
  BY NotLinked DEF Dirs
<1>2. n \in DOMAIN dir[d] \cap Name /\ <<d, n>> # <<d2, n2>> /\ type' = type
  BY DEF soRename, UserNames
<1>3. i \in Inode
  BY <1>1, <1>2 DEF Tree
<1>4. PICK wrong :
        /\ half \subseteq wrong /\ lost \subseteq lost'
        /\ n2 \in Subs(type, dir, d2) => d2 \in wrong
        /\ \/ dir' = over /\ half' = wrong /\ UNCHANGED refcount
           \/ /\ dir' = taken /\ UNCHANGED refcount /\ i \in lost'
              /\ half' = wrong \cup IF i \in Dirs THEN {d} ELSE {}
           \/ Settle(moved, i, d, d2, wrong)
  BY <1>1, RenameParts
<1>5. /\ DOMAIN over = Inode /\ n2 \notin DOMAIN over[d2]
      /\ n \in DOMAIN over[d] \cap Name /\ over[d][n] = i
      /\ \A x \in Inode : x # d2 => over[x] = dir[x]
  BY <1>1, <1>2, DropIs
<1>6. /\ Tree(type, over, {}) /\ Parents(type, over, half)
  BY <1>1, TreeDrop, ParentsDrop DEF Kept
<1>7. ASSUME NEW x \in Inode \ wrong PROVE Subs(type, over, x) = Subs(type, dir, x)
  <2>1. CASE x = d2
    <3>1. Subs(type, over, d2) = Subs(type, dir, d2) \ {n2}
      BY <1>1, SubsDrop
    <3>2. QED
      BY <1>4, <1>7, <2>1, <3>1
  <2>2. CASE x # d2
    BY <1>5, <2>2, SubsSame
  <2>3. QED
    BY <2>1, <2>2
<1> HIDE DEF over
<1>8. /\ DOMAIN taken = Inode /\ n2 \notin DOMAIN taken[d2]
      /\ \A x \in Inode : x # d => taken[x] = over[x]
      /\ Tree(type, taken, {}) /\ Parents(type, taken, half) /\ Unnamed(taken, i)
      /\ Subs(type, taken, d) = Subs(type, over, d) \ {n}
  <2>1. /\ DOMAIN taken = Inode /\ n2 \notin DOMAIN taken[d2]
        /\ \A x \in Inode : x # d => taken[x] = over[x]
    BY <1>1, <1>5, DropIs
  <2>2. Tree(type, taken, {}) /\ Unnamed(taken, i)
    <3>1. i \notin {}
      OBVIOUS
    <3>2. QED
      BY <1>1, <1>5, <1>6, <3>1, TreeDrop
  <2>3. Subs(type, taken, d) = Subs(type, over, d) \ {n}
    BY <1>1, <1>5, SubsDrop
  <2>4. Parents(type, taken, half)
    BY <1>1, <1>6, ParentsDrop
  <2>5. QED
    BY <2>1, <2>2, <2>3, <2>4
<1> HIDE DEF taken
<1>9. \A x \in Inode : x # d => Subs(type, taken, x) = Subs(type, over, x)
  BY <1>8, SubsSame
<1>10. /\ DOMAIN moved = Inode
       /\ \A x \in Inode : x # d2 => moved[x] = taken[x]
       /\ Subs(type, moved, d2) = IF type[i] = "dir" THEN Subs(type, taken, d2) \cup {n2}
                                  ELSE Subs(type, taken, d2) \ {n2}
  <2>1. DOMAIN moved = Inode /\ \A x \in Inode : x # d2 => moved[x] = taken[x]
    BY <1>1, <1>8, PutIs
  <2>2. Subs(type, moved, d2) = IF type[i] = "dir" THEN Subs(type, taken, d2) \cup {n2}
                                ELSE Subs(type, taken, d2) \ {n2}
    <3> HIDE DEF i
    <3>1. DOMAIN taken = Inode
      BY <1>8
    <3>2. QED
      BY ONLY <1>1, <3>1, d2 \in Inode, n2 \in Name, SubsPut
  <2>3. QED
    BY <2>1, <2>2
<1>11. Tree(type, moved, {}) \/ type[i] = "free"
  <2>1. i # Root
    BY <1>1, <1>2 DEF Tree, Unnamed
  <2>2. QED
    BY <1>1, <1>3, <1>8, <2>1, TreePut
<1>12. type[i] # "free"
  BY <1>1, <1>2, <1>3 DEF Tree, Unnamed
<1>13. NamedIn(moved, i, d2)
  BY <1>8, <1>10 DEF NamedIn, Unnamed
<1>14. Counts(type, refcount, dir, lost \cup half)
  BY DEF Kept
<1> HIDE DEF moved, i
<1>15. \A x \in Inode : x # d2 => Subs(type, moved, x) = Subs(type, taken, x)
  BY <1>10, SubsSame
<1>16. ASSUME dir' = over, half' = wrong, UNCHANGED refcount PROVE Kept'
  <2>1. Parents(type, dir, half)'
    BY <1>2, <1>4, <1>6, <1>16, MoreExceptions
  <2>2. Counts(type, refcount, dir, lost \cup half)'
    BY <1>2, <1>4, <1>7, <1>14, <1>16 DEF Counts
  <2>3. QED
    BY <2>1, <2>2 DEF Kept
<1>17. type[i] # "dir" => \A x \in Inode \ wrong : Subs(type, taken, x) = Subs(type, dir, x)
  <2>1. type[i] # "dir" => n \notin Subs(type, over, d)
    BY <1>5 DEF Subs
  <2>2. QED
    BY <1>7, <1>8, <1>9, <2>1
<1>18. ASSUME dir' = taken, UNCHANGED refcount,
              half' = wrong \cup IF i \in Dirs THEN {d} ELSE {}
       PROVE  Kept'
  <2>1. half \subseteq half'
    BY <1>4, <1>18
  <2>2. Parents(type, dir, half)'
    BY <1>2, <1>8, <1>18, <2>1, MoreExceptions
  <2>3. \A x \in Inode \ half' : Subs(type, taken, x) = Subs(type, dir, x)
    <3>1. CASE type[i] = "dir"
      BY <1>3, <1>7, <1>9, <1>18, <3>1 DEF Dirs
    <3>2. CASE type[i] # "dir"
      BY <1>17, <1>18, <3>2
    <3>3. QED
      BY <3>1, <3>2
  <2>4. Counts(type, refcount, dir, lost \cup half)'
    BY <1>2, <1>4, <1>14, <1>18, <2>1, <2>3 DEF Counts
  <2>5. QED
    BY <2>2, <2>4 DEF Kept
<1>19. ASSUME type[i] # "dir", dir' = moved, half' = wrong, UNCHANGED refcount PROVE Kept'
  <2>1. Parents(type, moved, half)
    BY <1>1, <1>3, <1>8, <1>19, ParentsPut DEF moved
  <2>2. Parents(type, dir, half)'
    BY <1>2, <1>4, <1>19, <2>1, MoreExceptions
  <2>3. n2 \notin Subs(type, taken, d2)
    BY <1>8 DEF Subs
  <2>4. \A x \in Inode : Subs(type, moved, x) = Subs(type, taken, x)
    BY <1>10, <1>15, <1>19, <2>3
  <2>5. Counts(type, refcount, dir, lost \cup half)'
    BY <1>2, <1>4, <1>14, <1>17, <1>19, <2>4 DEF Counts
  <2>6. QED
    BY <2>2, <2>5 DEF Kept
<1>20. type[i] = "dir" => n \in Subs(type, over, d)
  BY <1>5 DEF Subs
<1>21. n2 \notin Subs(type, taken, d2)
  BY <1>8 DEF Subs
<1>22. ASSUME type[i] = "dir", d # d2
       PROVE  /\ Cardinality(Subs(type, moved, d)) = Cardinality(Subs(type, over, d)) - 1
              /\ Cardinality(Subs(type, moved, d2)) = Cardinality(Subs(type, over, d2)) + 1
  <2>1. Subs(type, moved, d) = Subs(type, over, d) \ {n}
    BY <1>1, <1>8, <1>15, <1>22
  <2>2. Cardinality(Subs(type, moved, d)) = Cardinality(Subs(type, over, d)) - 1
    BY <1>20, <1>22, <2>1, SubsFinite, FS_RemoveElement
  <2>3. /\ Subs(type, moved, d2) = Subs(type, over, d2) \cup {n2}
        /\ n2 \notin Subs(type, over, d2)
    BY <1>1, <1>9, <1>10, <1>21, <1>22
  <2>4. Cardinality(Subs(type, moved, d2)) = Cardinality(Subs(type, over, d2)) + 1
    BY <2>3, SubsFinite, FS_AddElement
  <2>5. QED
    BY <2>2, <2>4
<1>23. ASSUME type[i] = "dir", d = d2
       PROVE  Cardinality(Subs(type, moved, d)) = Cardinality(Subs(type, over, d))
  <2>1. Subs(type, moved, d) = Subs(type, taken, d) \cup {n2}
    BY <1>10, <1>23
  <2>2. Cardinality(Subs(type, moved, d)) = Cardinality(Subs(type, taken, d)) + 1
    BY <1>21, <1>23, <2>1, SubsFinite, FS_AddElement
  <2>3. Cardinality(Subs(type, taken, d)) = Cardinality(Subs(type, over, d)) - 1
    BY <1>8, <1>20, <1>23, SubsFinite, FS_RemoveElement
  <2>4. Cardinality(Subs(type, over, d)) \in Nat
    BY SubsFinite
  <2>5. QED
    BY <2>2, <2>3, <2>4
<1>24. ASSUME NEW x \in Inode, x # d, x # d2
       PROVE  Subs(type, moved, x) = Subs(type, over, x)
  BY <1>9, <1>15, <1>24
<1>25. type[i] = "dir" => Parents(type, moved, half \cup {i})
  BY <1>1, <1>3, <1>8, MoreExceptions, ParentsPut DEF moved
<1>26. ASSUME type[i] = "dir", dir' = moved, UNCHANGED refcount,
              half' = wrong \cup IF d = d2 THEN {} ELSE {i, d, d2}
       PROVE  Kept'
  <2>1. half \subseteq half' /\ wrong \subseteq half'
    BY <1>4, <1>26
  <2>2. CASE d # d2
    <3>1. half \cup {i} \subseteq half'
      BY <1>26, <2>1, <2>2
    <3>2. Parents(type, dir, half)'
      BY <1>2, <1>25, <1>26, <3>1, MoreExceptions
    <3>3. Counts(type, refcount, dir, lost \cup half)'
      BY <1>2, <1>4, <1>7, <1>14, <1>24, <1>26, <2>1, <2>2 DEF Counts
    <3>4. QED
      BY <3>2, <3>3 DEF Kept
  <2>3. CASE d = d2
    <3>1. i \in half \/ (DotDot \in DOMAIN taken[i] /\ taken[i][DotDot] = d2)
      <4>1. i \in half \/ (DotDot \in DOMAIN dir[i] /\ dir[i][DotDot] = d)
        BY <1>1, <1>2, <1>26 DEF Kept, Parents, i
      <4>2. DotDot \in DOMAIN dir[i] => DotDot \in DOMAIN over[i] /\ over[i][DotDot] = dir[i][DotDot]
        BY <1>1, <1>3, DropIs, NamespaceAssumption DEF over
      <4>3. DotDot \in DOMAIN over[i] => DotDot \in DOMAIN taken[i] /\ taken[i][DotDot] = over[i][DotDot]
        BY <1>1, <1>3, <1>5, DropIs, NamespaceAssumption DEF taken
      <4>4. QED
        BY <2>3, <4>1, <4>2, <4>3
    <3>2. Parents(type, moved, half)
      BY <1>1, <1>3, <1>8, <3>1, ParentsPut DEF moved
    <3>3. Parents(type, dir, half)'
      BY <1>2, <1>26, <2>1, <3>2, MoreExceptions
    <3>4. Counts(type, refcount, dir, lost \cup half)'
      BY <1>2, <1>4, <1>7, <1>14, <1>23, <1>24, <1>26, <2>1, <2>3 DEF Counts
    <3>5. QED
      BY <3>3, <3>4 DEF Kept
  <2>4. QED
    BY <2>2, <2>3
<1>27. ASSUME type[i] = "dir", dir' = Put(moved, i, DotDot, d2),
              half' = wrong \cup IF AtLimit(d2) /\ d # d2 THEN {d, d2} ELSE {},
              refcount' = IF AtLimit(d2) \/ d = d2 THEN refcount
                          ELSE [refcount EXCEPT ![d2] = Inc(d2), ![d] = Dec(d)]
       PROVE  Kept'
  <2>1. half \subseteq half' /\ wrong \subseteq half'
    BY <1>4, <1>27
  <2>2. Parents(type, Put(moved, i, DotDot, d2), half)
    BY <1>1, <1>3, <1>11, <1>12, <1>13, <1>25, <1>27, ParentsFix
  <2>3. Parents(type, dir, half)'
    BY <1>2, <1>27, <2>1, <2>2, MoreExceptions
  <2>4. \A x \in Inode : Subs(type, dir', x) = Subs(type, moved, x)
    BY <1>3, <1>10, <1>27, SubsParent
  <2>5. CASE d = d2
    <3>1. Counts(type, refcount, dir, lost \cup half)'
      BY <1>2, <1>4, <1>7, <1>14, <1>23, <1>24, <1>27, <2>1, <2>4, <2>5 DEF Counts
    <3>2. QED
      BY <2>3, <3>1 DEF Kept
  <2>6. CASE d # d2 /\ AtLimit(d2)
    <3>1. {d, d2} \subseteq half' /\ UNCHANGED refcount
      BY <1>27, <2>6
    <3>2. Counts(type, refcount, dir, lost \cup half)'
      BY <1>2, <1>4, <1>7, <1>14, <1>24, <2>1, <2>4, <3>1 DEF Counts
    <3>3. QED
      BY <2>3, <3>2 DEF Kept
  <2>7. CASE d # d2 /\ ~ AtLimit(d2)
    <3>1. refcount' = [refcount EXCEPT ![d2] = refcount[d2] + 1, ![d] = Dec(d)]
      BY <1>27, <2>7 DEF Inc
    <3>2. /\ refcount'[d2] = refcount[d2] + 1 /\ refcount'[d] = Dec(d)
          /\ \A x \in Inode : x # d /\ x # d2 => refcount'[x] = refcount[x]
      BY <1>1, <2>7, <3>1
    <3>3. /\ Cardinality(Subs(type, over, d)) \in Nat /\ Cardinality(Subs(type, over, d2)) \in Nat
          /\ Cardinality(Subs(type, moved, d)) \in Nat
      BY SubsFinite
    <3>4. d2 \notin (lost \cup half)' => refcount'[d2] = 2 + Cardinality(Subs(type, dir', d2))
      <4>1. d2 \notin (lost \cup half)' => refcount[d2] = 2 + Cardinality(Subs(type, over, d2))
        BY <1>1, <1>4, <1>7, <1>14, <2>1 DEF Counts
      <4>2. QED
        BY <1>1, <1>22, <1>27, <2>4, <2>7, <3>2, <3>3, <4>1
    <3>5. d \notin (lost \cup half)' => refcount'[d] = 2 + Cardinality(Subs(type, dir', d))
      <4>1. d \notin (lost \cup half)' => refcount[d] = 2 + Cardinality(Subs(type, over, d))
        BY <1>1, <1>4, <1>7, <1>14, <2>1 DEF Counts
      <4>2. QED
        BY <1>1, <1>22, <1>27, <2>4, <2>7, <3>2, <3>3, <4>1 DEF Dec
    <3>6. \A x \in Inode \ (lost \cup half)' : x # d /\ x # d2 =>
            /\ type[x] = "file" => refcount'[x] = 1
            /\ type[x] = "dir" => refcount'[x] = 2 + Cardinality(Subs(type, dir', x))
      BY <1>4, <1>7, <1>14, <1>24, <2>1, <2>4, <3>2 DEF Counts
    <3>7. Counts(type, refcount, dir, lost \cup half)'
      BY <1>1, <1>2, <3>4, <3>5, <3>6 DEF Counts
    <3>8. QED
      BY <2>3, <3>7 DEF Kept
  <2>8. QED
    BY <2>5, <2>6, <2>7
<1>28. ASSUME Settle(moved, i, d, d2, wrong) PROVE Kept'
  <2>1. CASE type[i] # "dir"
    BY <1>19, <1>28, <2>1 DEF Settle
  <2>2. CASE type[i] = "dir" /\ (i \notin writable \/ DotDot \notin DOMAIN moved[i])
    BY <1>26, <1>28, <2>2 DEF Settle
  <2>3. CASE type[i] = "dir" /\ ~ (i \notin writable \/ DotDot \notin DOMAIN moved[i])
    <3>1. /\ dir' = Parented(moved, i, d2)
          /\ half' = wrong \cup IF AtLimit(d2) /\ d # d2 THEN {d, d2} ELSE {}
          /\ refcount' = IF AtLimit(d2) \/ d = d2 THEN refcount
                         ELSE [refcount EXCEPT ![d2] = Inc(d2), ![d] = Dec(d)]
      BY <1>28, <2>3 DEF Settle
    <3>2. QED
      BY <1>27, <2>3, <3>1 DEF Parented, Put
  <2>4. QED
    BY <2>1, <2>2, <2>3
<1>29. QED
  BY <1>4, <1>16, <1>18, <1>28

\* The invariant, with parents and counts as long as nothing is linked.
FullInv == IInv /\ (linked = {} => Kept)

\* Every step keeps it: nothing is unlinked, so that a step to a state without
\* links starts in one.
LEMMA NextFullInv == FullInv /\ [Next]_vars => FullInv'
<1> SUFFICES ASSUME FullInv, [Next]_vars, linked' = {} PROVE Kept'
  BY NextIInv DEF FullInv
<1>1. IInv
  BY DEF FullInv
<1>2. CASE UNCHANGED vars
  BY <1>2 DEF vars, FullInv, Kept
<1>3. CASE Next
  <2>1. PICK d \in Dirs :
          \/ Chmod(d)
          \/ \E n \in Name :
               \/ soMknod(d, n) \/ soSymlink(d, n) \/ soUnlink(d, n) \/ soRmdir(d, n)
               \/ \E mayWrite \in BOOLEAN : soMkdir(d, n, mayWrite)
               \/ \E n2 \in Name :
                    \/ soLink(d, n, n2)
                    \/ \E d2 \in Dirs : soRename(d, n, d2, n2)
    BY <1>3, NextIs
  <2>2. CASE Chmod(d)
    BY <2>2 DEF Chmod, FullInv, Kept
  <2>3. ASSUME NEW n \in Name, soMknod(d, n) \/ soSymlink(d, n) PROVE Kept'
    <3>1. linked = {}
      BY <2>3 DEF soMknod, soSymlink, CreateFile
    <3>2. QED
      BY <1>1, <2>3, <3>1, CreateFileKept DEF soMknod, soSymlink, FullInv
  <2>4. ASSUME NEW n \in Name, soUnlink(d, n) PROVE Kept'
    <3>1. linked = {}
      BY <2>4 DEF soUnlink
    <3>2. QED
      BY <1>1, <2>4, <3>1, UnlinkKept DEF FullInv
  <2>5. ASSUME NEW n \in Name, soRmdir(d, n) PROVE Kept'
    <3>1. linked = {}
      BY <2>5 DEF soRmdir
    <3>2. QED
      BY <1>1, <2>5, <3>1, RmdirKept DEF FullInv
  <2>6. ASSUME NEW n \in Name, NEW mayWrite \in BOOLEAN, soMkdir(d, n, mayWrite) PROVE Kept'
    <3>1. linked = {}
      BY <2>6 DEF soMkdir
    <3>2. QED
      BY <1>1, <2>6, <3>1, MkdirKept DEF FullInv
  <2>7. ASSUME NEW n \in Name, NEW n2 \in Name, soLink(d, n, n2) PROVE FALSE
    BY <2>7 DEF soLink
  <2>8. ASSUME NEW n \in Name, NEW n2 \in Name, NEW d2 \in Dirs, soRename(d, n, d2, n2)
        PROVE  Kept'
    <3>1. linked = {}
      BY <2>8 DEF soRename
    <3>2. QED
      BY <1>1, <2>8, <3>1, RenameKept DEF FullInv
  <2>9. QED
    BY <2>1, <2>2, <2>3, <2>4, <2>5, <2>6, <2>7, <2>8
<1>4. QED
  BY <1>2, <1>3

\* The full invariant holds of every reachable state.
THEOREM FullInvariance == Spec => []FullInv
<1>1. Init => FullInv
  BY InitIInv, InitKept DEF FullInv
<1>2. FullInv /\ [Next]_vars => FullInv'
  BY NextFullInv
<1>3. QED
  BY <1>1, <1>2, PTL DEF Spec

\* Without hard links, ".." of a directory is the directory that has its name,
\* whatever was moved, replaced or deleted, but where a call failed half way.
THEOREM ParentsRight == Spec => []ParentIsParent
<1>1. FullInv => ParentIsParent
  <2> SUFFICES ASSUME FullInv, linked = {}, NEW e \in Named,
                      dir[e[1]][e[2]] \in Dirs \ half
               PROVE  /\ DotDot \in DOMAIN dir[dir[e[1]][e[2]]]
                      /\ dir[dir[e[1]][e[2]]][DotDot] = e[1]
    BY DEF ParentIsParent
  <2>1. e[1] \in Inode /\ e[2] \in DOMAIN dir[e[1]] \cap Name
    BY DEF Named
  <2>2. QED
    BY <2>1 DEF FullInv, Kept, Parents, Dirs
<1>2. QED
  BY <1>1, FullInvariance, PTL

\* Without hard links a file's count is one, a directory's two and one for
\* every directory in it, with the same exceptions and the inodes that lost
\* their only name.
THEOREM CountsRight == Spec => []CountsNames
<1>1. FullInv => CountsNames
  <2> SUFFICES ASSUME FullInv, linked = {}, NEW i \in Inode \ (lost \cup half)
               PROVE  /\ type[i] = "file" => refcount[i] = 1
                      /\ i \in Dirs => refcount[i] =
                           2 + Cardinality({n \in UserNames(i) : dir[i][n] \in Dirs})
    BY DEF CountsNames
  <2>1. \A n \in UserNames(i) : dir[i][n] \in Inode
    BY DEF FullInv, IInv, Tree, UserNames
  <2>2. {n \in UserNames(i) : dir[i][n] \in Dirs} = Subs(type, dir, i)
    BY <2>1 DEF Subs, UserNames, Dirs
  <2>3. QED
    BY <2>2 DEF FullInv, Kept, Counts, Dirs
<1>2. QED
  BY <1>1, FullInvariance, PTL

-----------------------------------------------------------------------------
(* What can be reached *)

\* Paths stay in X.
Closed(T, D, X) == \A x \in X : T[x] = "dir" => \A m \in DOMAIN D[x] \cap Name : D[x][m] \in X

\* Whatever contains S and what paths from there lead to contains all inodes
\* in use.
Reach(T, D, S) ==
  \A X \in SUBSET Inode : S \subseteq X /\ Closed(T, D, X)
                            => \A j \in Inode : T[j] # "free" => j \in X

ReachInv == lost \subseteq Inode /\ Reach(type, dir, {Root} \cup lost)

\* The children of a set are in it if paths stay in it.
LEMMA ClosedIs ==
  ASSUME NEW X \in SUBSET Inode
  PROVE  Children(X) \subseteq X <=> Closed(type, dir, X)
<1>1. \A d \in Inode : d \in Dirs <=> type[d] = "dir"
  BY DEF Dirs
<1>2. ASSUME Children(X) \subseteq X, NEW x \in X, type[x] = "dir",
             NEW m \in DOMAIN dir[x] \cap Name
      PROVE  dir[x][m] \in X
  BY <1>1, <1>2 DEF Children, UserNames
<1>3. ASSUME Closed(type, dir, X), NEW c \in Children(X) PROVE c \in X
  BY <1>1, <1>3 DEF Children, UserNames, Closed
<1>4. QED
  BY <1>2, <1>3 DEF Closed

\* From(S) is the least set that contains S and what paths lead to.
LEMMA FromLeast ==
  ASSUME NEW S, NEW X \in SUBSET Inode, S \subseteq X, Closed(type, dir, X)
  PROVE  From(S) \subseteq X
BY ClosedIs DEF From

\* It contains S, and paths stay in it.
LEMMA FromCloses ==
  ASSUME IInv, NEW S \in SUBSET Inode
  PROVE  S \subseteq From(S) /\ From(S) \in SUBSET Inode /\ Closed(type, dir, From(S))
<1>1. S \subseteq From(S) /\ From(S) \in SUBSET Inode
  BY DEF From
<1>2. ASSUME NEW x \in From(S), type[x] = "dir", NEW m \in DOMAIN dir[x] \cap Name
      PROVE  dir[x][m] \in From(S)
  <2>1. x \in Inode /\ dir[x][m] \in Inode
    BY <1>1, <1>2 DEF IInv, Tree
  <2>2. ASSUME NEW X \in SUBSET Inode, S \subseteq X, Children(X) \subseteq X
        PROVE  dir[x][m] \in X
    <3>1. x \in X
      BY <2>2 DEF From
    <3>2. Closed(type, dir, X)
      BY <2>2, ClosedIs
    <3>3. QED
      BY <1>2, <3>1, <3>2 DEF Closed
  <2>3. QED
    BY <2>1, <2>2 DEF From
<1>3. QED
  BY <1>1, <1>2 DEF Closed

\* What the invariant says of an inode in use.
LEMMA Reached ==
  ASSUME ReachInv, NEW X \in SUBSET Inode, Root \in X, lost \subseteq X, Closed(type, dir, X),
         NEW j \in Inode, type[j] # "free"
  PROVE  j \in X
BY DEF ReachInv, Reach

\* What it takes to keep it.
LEMMA ReachKept ==
  ASSUME lost' \subseteq Inode,
         ASSUME NEW X \in SUBSET Inode, Root \in X, lost' \subseteq X, Closed(type', dir', X),
                NEW j \in Inode, type'[j] # "free"
         PROVE  j \in X
  PROVE  ReachInv'
BY DEF ReachInv, Reach

\* The only directory of a formatted disk is the root.
LEMMA InitReach == Init => ReachInv
BY DEF Init, ReachInv, Reach

\* A new inode has a name, or is lost.
LEMMA CreateReach ==
  ASSUME IInv, ReachInv, NEW d \in Dirs, NEW n \in Name, NEW c \in pool, NEW t,
         type' = [type EXCEPT ![c] = t],
         \A x \in Inode : x # c /\ x # d => dir'[x] = dir[x],
         \/ c \in lost' /\ dir'[d] = dir[d]
         \/ dir'[d] = With(dir[d], n, c),
         n \notin DOMAIN dir[d], lost \subseteq lost', lost' \subseteq Inode
  PROVE  ReachInv'
<1>1. /\ type \in [Inode -> {"free", "file", "dir"}] /\ d \in Inode /\ type[d] = "dir"
      /\ c \in Inode /\ type[c] = "free" /\ c # d
  BY DEF IInv, TypeOK, Dirs
<1>2. \A x \in Inode : x # c => type'[x] = type[x]
  BY <1>1
<1>3. ASSUME NEW X \in SUBSET Inode, Root \in X, lost' \subseteq X, Closed(type', dir', X),
             NEW j \in Inode, type'[j] # "free"
      PROVE  j \in X
  <2>1. DOMAIN dir[d] \subseteq DOMAIN dir'[d] /\ \A m \in DOMAIN dir[d] : dir'[d][m] = dir[d][m]
    BY DEF With
  <2>2. ASSUME NEW x \in X, type[x] = "dir", NEW m \in DOMAIN dir[x] \cap Name
        PROVE  dir[x][m] \in X
    <3>1. x # c /\ type'[x] = "dir"
      BY <1>1, <1>2, <2>2
    <3>2. m \in DOMAIN dir'[x] \cap Name /\ dir'[x][m] = dir[x][m]
      BY <2>1, <2>2, <3>1
    <3>3. QED
      BY <1>3, <3>1, <3>2 DEF Closed
  <2>3. Closed(type, dir, X)
    BY <2>2 DEF Closed
  <2>4. \A k \in Inode : type[k] # "free" => k \in X
    BY <1>3, <2>3, Reached
  <2>5. CASE j # c
    BY <1>2, <1>3, <2>4, <2>5
  <2>6. CASE j = c /\ c \in lost'
    BY <1>3, <2>6
  <2>7. CASE j = c /\ dir'[d] = With(dir[d], n, c)
    <3>1. d \in X /\ type'[d] = "dir"
      BY <1>1, <1>2, <2>4
    <3>2. n \in DOMAIN dir'[d] \cap Name /\ dir'[d][n] = c
      BY <2>7 DEF With
    <3>3. QED
      BY <1>3, <2>7, <3>1, <3>2 DEF Closed
  <2>8. QED
    BY <2>5, <2>6, <2>7
<1>4. QED
  BY <1>3, ReachKept

\* Directory d loses its entry n, and i may lose everything.
Deleted(D, E, d, n, i) ==
  /\ \A x \in Inode : x # i /\ x # d => E[x] = D[x]
  /\ E[d] = Without(D[d], n)

\* Nothing is below i.
Bare(T, D, i) == T[i] # "dir" \/ DOMAIN D[i] \cap Name = {}

\* An inode that goes with a name had nothing below it.
LEMMA DeleteReach ==
  ASSUME IInv, ReachInv, NEW d \in Dirs, NEW n \in DOMAIN dir[d], NEW i \in Inode,
         dir[d][n] = i, i # d, Bare(type, dir, i),
         type' = [type EXCEPT ![i] = "free"], Deleted(dir, dir', d, n, i),
         lost' = lost \ {i}
  PROVE  ReachInv'
<1>0. /\ type[i] # "dir" \/ DOMAIN dir[i] \cap Name = {}
      /\ \A x \in Inode : x # i /\ x # d => dir'[x] = dir[x]
      /\ dir'[d] = Without(dir[d], n)
      /\ lost \subseteq lost' \cup {i} /\ lost' \subseteq Inode
  BY DEF Bare, Deleted, ReachInv
<1>1. type \in [Inode -> {"free", "file", "dir"}] /\ d \in Inode
  BY DEF IInv, TypeOK, Dirs
<1>2. type'[i] = "free" /\ \A x \in Inode : x # i => type'[x] = type[x]
  BY <1>1
<1>3. ASSUME NEW X \in SUBSET Inode, Root \in X, lost' \subseteq X, Closed(type', dir', X),
             NEW j \in Inode, type'[j] # "free"
      PROVE  j \in X
  <2> DEFINE Y == X \cup {i}
  <2>1. \A m \in DOMAIN dir[d] : m # n => m \in DOMAIN dir'[d] /\ dir'[d][m] = dir[d][m]
    BY <1>0 DEF Without, Restrict
  <2>2. ASSUME NEW x \in Y, type[x] = "dir", NEW m \in DOMAIN dir[x] \cap Name
        PROVE  dir[x][m] \in Y
    <3>1. x # i /\ x \in X /\ type'[x] = "dir"
      BY <1>0, <1>2, <2>2
    <3>2. CASE x = d /\ m = n
      BY <3>2
    <3>3. CASE x # d \/ m # n
      <4>1. m \in DOMAIN dir'[x] \cap Name /\ dir'[x][m] = dir[x][m]
        BY <1>0, <2>1, <2>2, <3>1, <3>3
      <4>2. QED
        BY <1>3, <3>1, <4>1 DEF Closed
    <3>4. QED
      BY <3>2, <3>3
  <2>3. Closed(type, dir, Y)
    BY <2>2 DEF Closed
  <2>4. j # i /\ type[j] # "free"
    BY <1>2, <1>3
  <2>5. Y \in SUBSET Inode /\ Root \in Y /\ lost \subseteq Y
    BY <1>0, <1>3
  <2> HIDE DEF Y
  <2>6. j \in Y
    BY <2>3, <2>4, <2>5, Reached
  <2>7. QED
    BY <2>4, <2>6 DEF Y
<1>4. QED
  BY <1>0, <1>3, ReachKept

\* Where the entries of users grow and the inodes stay in use, paths lead to as
\* much as before.
LEMMA GrowReach ==
  ASSUME ReachInv, type' = type, lost \subseteq lost', lost' \subseteq Inode,
         \A x \in Inode : \A m \in DOMAIN dir[x] \cap Name :
           m \in DOMAIN dir'[x] /\ dir'[x][m] = dir[x][m]
  PROVE  ReachInv'
<1>1. ASSUME NEW X \in SUBSET Inode, Root \in X, lost' \subseteq X, Closed(type', dir', X),
             NEW j \in Inode, type'[j] # "free"
      PROVE  j \in X
  <2>1. Closed(type, dir, X)
    BY <1>1 DEF Closed
  <2>2. QED
    BY <1>1, <2>1, Reached
<1>2. QED
  BY <1>1, ReachKept

\* The calls that create and delete.
LEMMA CallsReach ==
  ASSUME IInv, ReachInv, NEW d \in Dirs, NEW n \in Name
  PROVE  /\ soMknod(d, n) \/ soSymlink(d, n) => ReachInv'
         /\ \A mayWrite \in BOOLEAN : soMkdir(d, n, mayWrite) => ReachInv'
         /\ soUnlink(d, n) \/ soRmdir(d, n) => ReachInv'
         /\ \A new \in Name : soLink(d, n, new) => ReachInv'
<1> USE NamespaceAssumption
<1>1. /\ type \in [Inode -> {"free", "file", "dir"}] /\ d \in Inode /\ type[d] = "dir"
      /\ DOMAIN dir = Inode /\ lost \subseteq Inode
  BY DEF IInv, TypeOK, Tree, Dirs, ReachInv
<1>2. \A c \in pool : c \in Inode /\ type[c] = "free" /\ c # d
  BY <1>1, PoolFree
<1>3. ASSUME NEW mayFail, NEW count, CreateFile(d, n, mayFail, count) PROVE ReachInv'
  <2>1. PICK c \in pool :
          /\ type' = [type EXCEPT ![c] = "file"]
          /\ \/ lost' = lost \cup {c} /\ UNCHANGED dir
             \/ dir' = [dir EXCEPT ![d] = With(@, n, c)] /\ UNCHANGED lost
    BY <1>3 DEF CreateFile, Take
  <2>2. /\ n \notin DOMAIN dir[d] /\ lost \subseteq lost' /\ lost' \subseteq Inode
        /\ \/ c \in lost' /\ dir'[d] = dir[d]
           \/ dir'[d] = With(dir[d], n, c)
        /\ \A x \in Inode : x # c /\ x # d => dir'[x] = dir[x]
    BY <1>1, <1>2, <1>3, <2>1 DEF CreateFile, MayCreate
  <2>3. QED
    BY <2>1, <2>2, CreateReach
<1>4. ASSUME NEW mayWrite, soMkdir(d, n, mayWrite) PROVE ReachInv'
  <2>1. PICK c \in pool :
          /\ type' = [type EXCEPT ![c] = "dir"]
          /\ \/ lost' = lost \cup {c} /\ UNCHANGED dir
             \/ lost' = lost \cup {c} /\ dir' = [dir EXCEPT ![c] = Dots(c, d)]
             \/ /\ dir' = [dir EXCEPT ![c] = Dots(c, d), ![d] = With(@, n, c)]
                /\ UNCHANGED lost
    BY <1>4 DEF soMkdir, Take
  <2>2. c \in Inode /\ c # d
    BY <1>2
  <2>3. /\ n \notin DOMAIN dir[d] /\ lost \subseteq lost' /\ lost' \subseteq Inode
        /\ \/ c \in lost' /\ dir'[d] = dir[d]
           \/ dir'[d] = With(dir[d], n, c)
        /\ \A x \in Inode : x # c /\ x # d => dir'[x] = dir[x]
    BY <1>1, <1>4, <2>1, <2>2 DEF soMkdir, MayCreate
  <2>4. QED
    BY <2>1, <2>3, CreateReach
<1>5. ASSUME NEW new \in Name, soLink(d, n, new) PROVE ReachInv'
  <2>1. /\ new \notin DOMAIN dir[d] /\ dir' = [dir EXCEPT ![d] = With(@, new, dir[d][n])]
        /\ type' = type /\ lost' = lost
    BY <1>5 DEF soLink
  <2>2. ASSUME NEW x \in Inode, NEW m \in DOMAIN dir[x] \cap Name
        PROVE  m \in DOMAIN dir'[x] /\ dir'[x][m] = dir[x][m]
    BY <1>1, <2>1 DEF With
  <2>3. QED
    BY <1>1, <2>1, <2>2, GrowReach
<1>6. ASSUME soUnlink(d, n) PROVE ReachInv'
  <2> DEFINE i == dir[d][n]
  <2>1. /\ n \in DOMAIN dir[d] /\ type[i] # "dir"
        /\ \/ /\ dir' = [dir EXCEPT ![d] = Without(@, n)]
              /\ type' = [type EXCEPT ![i] = "free"] /\ lost' = lost \ {i}
           \/ UNCHANGED <<dir, type, lost>>
    BY <1>6 DEF soUnlink, GiveBack, UserNames
  <2>2. i \in Inode /\ i # d
    BY <1>1, <2>1 DEF IInv, Tree
  <2>3. CASE UNCHANGED <<dir, type, lost>>
    BY <2>3 DEF ReachInv, Reach
  <2>4. CASE /\ dir' = [dir EXCEPT ![d] = Without(@, n)]
             /\ type' = [type EXCEPT ![i] = "free"] /\ lost' = lost \ {i}
    <3>1. Deleted(dir, dir', d, n, i) /\ Bare(type, dir, i) /\ dir[d][n] = i
      BY <1>1, <2>1, <2>2, <2>4 DEF Deleted, Bare
    <3> HIDE DEF i
    <3>2. QED
      BY <2>1, <2>2, <2>4, <3>1, DeleteReach
  <2>5. QED
    BY <2>1, <2>3, <2>4
<1>7. ASSUME soRmdir(d, n) PROVE ReachInv'
  <2> DEFINE i == dir[d][n]
  <2>1. n \in DOMAIN dir[d] \cap Name /\ DOMAIN dir[i] = {Dot, DotDot}
    BY <1>7 DEF soRmdir, Empty, UserNames
  <2>2. i \in Inode /\ i # d /\ DOMAIN dir[i] \cap Name = {}
    BY <1>1, <2>1 DEF IInv, Tree
  <2>3. CASE d \in writable
    <3>1. /\ dir' = [dir EXCEPT ![i] = NoEntries, ![d] = Without(@, n)]
          /\ GiveBack(i)
      BY <1>7, <2>3, Zenon DEF soRmdir
    <3>2. type' = [type EXCEPT ![i] = "free"] /\ lost' = lost \ {i}
      BY <3>1 DEF GiveBack
    <3>3. n \in DOMAIN dir[d] /\ dir[d][n] = i /\ Bare(type, dir, i)
      BY <2>1, <2>2 DEF Bare
    <3>4. Deleted(dir, dir', d, n, i)
      BY <1>1, <2>2, <3>1 DEF Deleted
    <3> HIDE DEF i
    <3>5. QED
      BY <2>2, <3>2, <3>3, <3>4, DeleteReach
  <2>4. CASE d \notin writable
    <3>1. dir' = [dir EXCEPT ![i] = NoEntries] /\ UNCHANGED <<type, lost>>
      BY <1>7, <2>4 DEF soRmdir
    <3>2. ASSUME NEW x \in Inode, NEW m \in DOMAIN dir[x] \cap Name
          PROVE  m \in DOMAIN dir'[x] /\ dir'[x][m] = dir[x][m]
      <4>1. x # i
        BY <2>2
      <4>2. QED
        BY <1>1, <3>1, <4>1
    <3>3. QED
      BY <1>1, <3>1, <3>2, GrowReach
  <2>5. QED
    BY <2>3, <2>4
<1>8. QED
  BY <1>3, <1>4, <1>5, <1>6, <1>7 DEF soMknod, soSymlink

\* In E, as in D, but for the entries (d, n) and (d2, n2).
Elsewhere(D, E, d, n, d2, n2) ==
  \A x \in Inode : \A m \in DOMAIN D[x] \cap Name :
    <<x, m>> # <<d, n>> /\ <<x, m>> # <<d2, n2>> => m \in DOMAIN E[x] /\ E[x][m] = D[x][m]

\* What moves goes to a directory that is not below it: it is still reached,
\* and so is whatever is below it.
LEMMA RenameReach ==
  ASSUME IInv, ReachInv, NEW d \in Dirs, NEW n \in Name, NEW d2 \in Dirs, NEW n2 \in Name,
         soRename(d, n, d2, n2)
  PROVE  ReachInv'
<1> DEFINE i == dir[d][n]
<1> DEFINE over == Drop(dir, d2, n2)
<1> DEFINE taken == Drop(over, d, n)
<1> DEFINE moved == Put(taken, d2, n2, i)
<1> DEFINE Free == {k \in Inode : type[k] = "free"}
<1>1. /\ d \in Inode /\ type[d] = "dir" /\ d2 \in Inode /\ type[d2] = "dir"
      /\ DOMAIN dir = Inode /\ lost \subseteq Inode
      /\ n \in DOMAIN dir[d] \cap Name /\ <<d, n>> # <<d2, n2>>
      /\ i \in Inode /\ type' = type
      /\ \A x \in Inode : \A m \in DOMAIN dir[x] : dir[x][m] \in Inode
  BY DEF Dirs, IInv, Tree, ReachInv, soRename, UserNames
<1>2. /\ lost \subseteq lost' /\ lost' \subseteq Inode
      /\ n2 \in DOMAIN dir[d2] /\ type[dir[d2][n2]] # "free" => dir[d2][n2] \in lost'
      /\ \/ dir' = over
         \/ dir' = taken /\ i \in lost'
         \/ \E wrong : Settle(moved, i, d, d2, wrong)
  <2>1. \E wrong :
               /\ half \subseteq wrong /\ lost \subseteq lost' /\ lost' \subseteq lost \cup Inode
               /\ n2 \in DOMAIN dir[d2] /\ type[dir[d2][n2]] # "free" => dir[d2][n2] \in lost'
               /\ n2 \in Subs(type, dir, d2) => d2 \in wrong
               /\ \/ dir' = over /\ half' = wrong /\ UNCHANGED refcount
                  \/ /\ dir' = taken /\ UNCHANGED refcount /\ i \in lost'
                     /\ half' = wrong \cup IF i \in Dirs THEN {d} ELSE {}
                  \/ Settle(moved, i, d, d2, wrong)
    BY <1>1, RenameParts
  <2> HIDE DEF over, taken, moved, i
  <2>2. lost' \subseteq Inode
    BY <1>1, <2>1
  <2>3. QED
    BY <2>1, <2>2
<1>3. /\ Elsewhere(dir, over, d, n, d2, n2) /\ n \in DOMAIN over[d] /\ over[d][n] = i
      /\ Elsewhere(dir, taken, d, n, d2, n2)
      /\ Elsewhere(dir, moved, d, n, d2, n2) /\ n2 \in DOMAIN moved[d2] /\ moved[d2][n2] = i
  <2>1. /\ DOMAIN over = Inode /\ \A x \in Inode : x # d2 => over[x] = dir[x]
        /\ DOMAIN over[d2] = DOMAIN dir[d2] \ {n2}
        /\ \A m \in DOMAIN dir[d2] : m # n2 => over[d2][m] = dir[d2][m]
    BY <1>1, DropIs
  <2>2. Elsewhere(dir, over, d, n, d2, n2) /\ n \in DOMAIN over[d] /\ over[d][n] = i
    BY <1>1, <2>1 DEF Elsewhere
  <2> HIDE DEF over
  <2>3. /\ DOMAIN taken = Inode /\ \A x \in Inode : x # d => taken[x] = over[x]
        /\ DOMAIN taken[d] = DOMAIN over[d] \ {n}
        /\ \A m \in DOMAIN over[d] : m # n => taken[d][m] = over[d][m]
    BY <1>1, <2>1, DropIs
  <2>4. Elsewhere(dir, taken, d, n, d2, n2)
    BY <1>1, <2>2, <2>3 DEF Elsewhere
  <2> HIDE DEF taken, i
  <2>5. /\ DOMAIN moved = Inode /\ \A x \in Inode : x # d2 => moved[x] = taken[x]
        /\ DOMAIN moved[d2] = DOMAIN taken[d2] \cup {n2} /\ moved[d2][n2] = i
        /\ \A m \in DOMAIN taken[d2] : m # n2 => moved[d2][m] = taken[d2][m]
    BY <1>1, <2>3, PutIs
  <2> HIDE DEF moved
  <2>6. Elsewhere(dir, moved, d, n, d2, n2)
    BY <1>1, <2>4, <2>5 DEF Elsewhere
  <2>7. QED
    BY <2>2, <2>4, <2>5, <2>6
<1> HIDE DEF over, taken, moved
<1>4. ASSUME NEW wrong, Settle(moved, i, d, d2, wrong)
      PROVE  Elsewhere(dir, dir', d, n, d2, n2) /\ n2 \in DOMAIN dir'[d2] /\ dir'[d2][n2] = i
  <2>1. dir' = moved \/ dir' = Put(moved, i, DotDot, d2)
    BY <1>4 DEF Settle, Parented, Put
  <2>2. CASE dir' = moved
    BY <1>3, <2>2
  <2>3. CASE dir' = Put(moved, i, DotDot, d2)
    <3>1. DOMAIN moved = Inode
      BY <1>1, PutIs, DropIs DEF moved, taken, over
    <3>2. \A x \in Inode : \A m \in DOMAIN moved[x] : m # DotDot =>
            m \in DOMAIN dir'[x] /\ dir'[x][m] = moved[x][m]
      BY <1>1, <2>3, <3>1, PutIs
    <3>3. QED
      BY <1>1, <1>3, <3>2, NamespaceAssumption DEF Elsewhere
  <2>4. QED
    BY <2>1, <2>2, <2>3
<1>5. \/ Elsewhere(dir, dir', d, n, d2, n2) /\ n \in DOMAIN dir'[d] /\ dir'[d][n] = i
      \/ Elsewhere(dir, dir', d, n, d2, n2) /\ i \in lost'
      \/ Elsewhere(dir, dir', d, n, d2, n2) /\ n2 \in DOMAIN dir'[d2] /\ dir'[d2][n2] = i
  BY <1>2, <1>3, <1>4
<1>6. d2 \notin From({i})
  <2>1. CASE type[i] = "dir"
    BY <1>1, <2>1 DEF soRename, Kernel, Dirs
  <2>2. CASE type[i] # "dir"
    <3>1. Closed(type, dir, {i})
      BY <2>2 DEF Closed
    <3>2. From({i}) \subseteq {i}
      BY <1>1, <3>1, FromLeast
    <3>3. QED
      BY <1>1, <2>2, <3>2
  <2>3. QED
    BY <2>1, <2>2
<1>7. ASSUME NEW X \in SUBSET Inode, Root \in X, lost' \subseteq X, Closed(type', dir', X),
             NEW j \in Inode, type'[j] # "free"
      PROVE  j \in X
  <2>1. ASSUME NEW x \in X, type[x] = "dir", NEW m \in DOMAIN dir[x] \cap Name
        PROVE  dir[x][m] \in X \cup Free \/ (x = d /\ dir[x][m] = i)
    <3>1. CASE <<x, m>> = <<d, n>>
      BY <3>1
    <3>2. CASE <<x, m>> = <<d2, n2>>
      BY <1>1, <1>2, <1>7, <2>1, <3>2
    <3>3. CASE <<x, m>> # <<d, n>> /\ <<x, m>> # <<d2, n2>>
      <4>1. m \in DOMAIN dir'[x] \cap Name /\ dir'[x][m] = dir[x][m]
        BY <1>5, <2>1, <3>3 DEF Elsewhere
      <4>2. QED
        BY <1>1, <1>7, <2>1, <4>1 DEF Closed
    <3>4. QED
      BY <3>1, <3>2, <3>3
  <2>2. ASSUME d \in X => i \in X PROVE j \in X
    <3> DEFINE Y == X \cup Free
    <3>1. Closed(type, dir, Y)
      BY <2>1, <2>2 DEF Closed
    <3>2. Y \in SUBSET Inode /\ Root \in Y /\ lost \subseteq Y
      BY <1>2, <1>7
    <3> HIDE DEF Y
    <3>3. j \in Y
      BY <1>1, <1>7, <3>1, <3>2, Reached
    <3>4. QED
      BY <1>1, <1>7, <3>3 DEF Y
  <2>3. ASSUME n2 \in DOMAIN dir'[d2], dir'[d2][n2] = i PROVE i \in X
    <3> DEFINE Y == X \cup Free \cup From({i})
    <3>1. From({i}) \in SUBSET Inode /\ i \in From({i}) /\ Closed(type, dir, From({i}))
      BY <1>1, FromCloses
    <3>2. Closed(type, dir, Y)
      BY <2>1, <3>1 DEF Closed
    <3>3. Y \in SUBSET Inode /\ Root \in Y /\ lost \subseteq Y
      BY <1>2, <1>7, <3>1
    <3> HIDE DEF Y
    <3>4. d2 \in Y
      BY <1>1, <3>2, <3>3, Reached
    <3>5. d2 \in X
      BY <1>1, <1>6, <3>4 DEF Y
    <3>6. QED
      BY <1>1, <1>7, <2>3, <3>5 DEF Closed
  <2>4. ASSUME n \in DOMAIN dir'[d], dir'[d][n] = i, d \in X PROVE i \in X
    BY <1>1, <1>7, <2>4 DEF Closed
  <2>5. QED
    BY <1>5, <1>7, <2>2, <2>3, <2>4
<1>8. QED
  BY <1>2, <1>7, ReachKept

\* Every step keeps whatever is in use within reach.
LEMMA NextReach == IInv /\ ReachInv /\ [Next]_vars => ReachInv'
<1> SUFFICES ASSUME IInv, ReachInv, [Next]_vars PROVE ReachInv'
  OBVIOUS
<1>1. CASE UNCHANGED vars
  BY <1>1 DEF vars, ReachInv, Reach
<1>2. CASE Next
  <2>1. PICK d \in Dirs :
          \/ Chmod(d)
          \/ \E n \in Name :
               \/ soMknod(d, n) \/ soSymlink(d, n) \/ soUnlink(d, n) \/ soRmdir(d, n)
               \/ \E mayWrite \in BOOLEAN : soMkdir(d, n, mayWrite)
               \/ \E n2 \in Name :
                    \/ soLink(d, n, n2)
                    \/ \E d2 \in Dirs : soRename(d, n, d2, n2)
    BY <1>2, NextIs
  <2>2. CASE Chmod(d)
    BY <2>2 DEF Chmod, ReachInv, Reach
  <2>3. ASSUME NEW n \in Name,
               \/ soMknod(d, n) \/ soSymlink(d, n) \/ soUnlink(d, n) \/ soRmdir(d, n)
               \/ \E mayWrite \in BOOLEAN : soMkdir(d, n, mayWrite)
               \/ \E n2 \in Name : soLink(d, n, n2)
        PROVE  ReachInv'
    BY <2>3, CallsReach
  <2>4. ASSUME NEW n \in Name, NEW n2 \in Name, NEW d2 \in Dirs, soRename(d, n, d2, n2)
        PROVE  ReachInv'
    BY <2>4, RenameReach
  <2>5. QED
    BY <2>1, <2>2, <2>3, <2>4
<1>3. QED
  BY <1>1, <1>2

\* Whatever is in use can be reached from the root, or is below an inode that
\* a creation lost when it failed or that soRename took the name from.
THEOREM ReachedOrLost == Spec => []NothingElseLost
<1>1. IInv /\ ReachInv => NothingElseLost
  <2> SUFFICES ASSUME IInv, ReachInv PROVE NothingElseLost
    OBVIOUS
  <2> DEFINE X == From({Root} \cup lost)
  <2>1. {Root} \cup lost \in SUBSET Inode
    BY NamespaceAssumption DEF ReachInv
  <2>2. {Root} \cup lost \subseteq X /\ X \in SUBSET Inode /\ Closed(type, dir, X)
    BY <2>1, FromCloses
  <2> HIDE DEF X
  <2>3. \A j \in Inode : type[j] # "free" => j \in X
    BY <2>2, Reached
  <2>4. QED
    BY <2>3 DEF NothingElseLost, X
<1>2. Init => ReachInv
  BY InitReach
<1>3. IInv /\ ReachInv /\ [Next]_vars => ReachInv'
  BY NextReach
<1>4. QED
  BY <1>1, <1>2, <1>3, Invariance, PTL DEF Spec
=============================================================================
