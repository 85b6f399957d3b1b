---------------------------- MODULE MksofsProofs ----------------------------
(***************************************************************************)
(* Theorems about Mksofs: whatever the size of the device, the number of    *)
(* inodes asked for and the size of a cluster, a device that mksofs reports *)
(* as installed is tiled by its regions, and the two free lists on it are   *)
(* complete.                                                                *)
(***************************************************************************)
EXTENDS Mksofs, FiniteSetTheorems, TLAPS

-----------------------------------------------------------------------------
(* Arithmetic *)

\* Quotient and remainder, and that they are the only ones.
LEMMA DivMod ==
  ASSUME NEW a \in Nat, NEW b \in Nat \ {0}
  PROVE  /\ a \div b \in Nat /\ a \div b <= a
         /\ a % b \in 0 .. b - 1
         /\ a = (a \div b) * b + (a % b)
  OBVIOUS

\* A larger factor gives a larger product, by one more other factor at least.
LEMMA Times ==
  ASSUME NEW s \in Nat, NEW c \in Nat, NEW d \in Nat, c < d
  PROVE  c * s + s <= d * s /\ c * s \in Nat /\ d * s \in Nat
<1>1. PICK e \in Nat : d = (c + 1) + e
  <2>1. d - (c + 1) \in Nat  OBVIOUS
  <2> QED BY <2>1, d = (c + 1) + (d - (c + 1))
<1>2. d * s = (c + 1) * s + e * s  BY <1>1
<1>3. e * s \in Nat /\ c * s \in Nat  OBVIOUS
<1>4. (c + 1) * s = c * s + s  OBVIOUS
<1> QED BY <1>2, <1>3, <1>4

\* Rounding up a quotient: the first multiple that is not less.
LEMMA RoundUp ==
  ASSUME NEW a \in Nat, NEW b \in Nat \ {0}
  PROVE  /\ CeilDiv(a, b) \in Nat /\ CeilDiv(a, b) <= a
         /\ a <= CeilDiv(a, b) * b /\ CeilDiv(a, b) * b < a + b
<1> DEFINE q == CeilDiv(a, b)
<1> DEFINE r == (a + b - 1) % b
<1>1. q \in Nat /\ r \in 0 .. b - 1 /\ a + b - 1 = q * b + r
  <2>1. a + b - 1 \in Nat  OBVIOUS
  <2> QED BY <2>1, DivMod DEF CeilDiv
<1> HIDE DEF q, r
<1>2. q * b \in Nat  BY <1>1
<1>3. a <= q * b /\ q * b < a + b  BY <1>1, <1>2
<1>4. q <= a
  <2> SUFFICES ASSUME a < q PROVE FALSE  BY <1>1
  <2>1. a * b + b <= q * b  BY <1>1, Times
  <2>2. a <= a * b
    <3>1. CASE a = 0  BY <3>1
    <3>2. CASE a > 0
      <4>1. 0 * a + a <= b * a  BY <3>2, Times
      <4> QED BY <4>1
    <3> QED BY <3>1, <3>2
  <2>3. a * b \in Nat  OBVIOUS
  <2> QED BY <2>1, <2>2, <2>3, <1>3, <1>2
<1> QED BY <1>1, <1>3, <1>4 DEF q

\* Unsigned subtraction is subtraction where it does not wrap.
LEMMA NoWrap ==
  ASSUME NEW a \in Nat, NEW b \in Nat, b <= a, a - b < Word
  PROVE  Minus(a, b) = a - b
<1>1. a - b \in 0 .. Word - 1 /\ Word \in Nat  BY FormatAssumption
<1>2. \A w \in Nat : \A x \in 0 .. w - 1 : x % w = x  OBVIOUS
<1> QED BY <1>1, <1>2 DEF Minus

\* The result of an unsigned subtraction is a word.
LEMMA AWord ==
  ASSUME NEW a \in Int, NEW b \in Int
  PROVE  Minus(a, b) \in Nat /\ Minus(a, b) < Word
<1>1. \A w \in Nat \ {0} : \A x \in Int : x % w \in 0 .. w - 1  OBVIOUS
<1> QED BY <1>1, FormatAssumption DEF Minus

-----------------------------------------------------------------------------
(* The superblock *)

\* What is true of the inode table of every superblock, and of its counters
\* whatever has wrapped.
LEMMA SuperblockWords ==
  ASSUME NEW nt \in Nat \ {0}, NEW it \in Nat, NEW bpc \in Nat \ {0},
         NEW s, s = Superblock(nt, it, bpc)
  PROVE  /\ s.itsize \in Nat /\ (it > 0 => s.itsize > 0)
         /\ s.ifree \in Nat /\ s.ifree < Word /\ s.itail \in Nat /\ s.itail < Word
         /\ s.ctotal \in Nat /\ s.ctotal < Word
         /\ s.cfree \in Nat /\ s.cfree < Word
         /\ s.crefs \in Nat /\ s.crefs < Word
<1> DEFINE asked == CeilDiv(it, IPB)
<1> DEFINE rest == Minus(nt - 1, asked)
<1> DEFINE size == asked + (rest % bpc)
<1> DEFINE left == Minus(nt - 1, size)
<1> DEFINE ctotal == left \div bpc
<1> DEFINE clusters == Minus(ctotal, 1)
<1> DEFINE rpc == RefsPerCluster(bpc)
<1> DEFINE crefs == CeilDiv(clusters, rpc)
<1> DEFINE cfree == Minus(clusters, crefs)
<1>0. Word \in Nat \ {0, 1} /\ IPB \in Nat \ {0} /\ rpc \in Nat \ {0}
  <2>1. RPB \in Nat /\ RPB > 0 /\ bpc > 0  BY FormatAssumption
  <2>2. 0 * bpc + bpc <= RPB * bpc /\ RPB * bpc \in Nat  BY <2>1, Times
  <2> QED BY <2>1, <2>2, FormatAssumption DEF RefsPerCluster
<1>1. asked \in Nat /\ (it > 0 => asked > 0)
  <2>1. asked \in Nat /\ it <= asked * IPB  BY <1>0, RoundUp
  <2> HIDE DEF asked
  <2>2. asked = 0 => it = 0  BY <2>1, <1>0
  <2> QED BY <2>1, <2>2
<1> HIDE DEF asked
<1>2. rest \in Nat /\ rest < Word
  <2>1. nt - 1 \in Int /\ asked \in Int  BY <1>1
  <2> QED BY <2>1, AWord
<1> HIDE DEF rest
<1>3. rest % bpc \in 0 .. bpc - 1  BY <1>2, <1>0, DivMod
<1>4. size \in Nat /\ (it > 0 => size > 0)  BY <1>1, <1>3
<1> HIDE DEF size
<1>5. left \in Nat /\ left < Word
  <2>1. nt - 1 \in Int /\ size \in Int  BY <1>4
  <2> QED BY <2>1, AWord
<1> HIDE DEF left
<1>6. ctotal \in Nat /\ ctotal < Word
  <2>1. left \in Nat /\ bpc \in Nat \ {0}  BY <1>5
  <2>2. left \div bpc \in Nat /\ left \div bpc <= left  BY ONLY <2>1, DivMod
  <2> QED BY <2>2, <1>5, <1>0
<1> HIDE DEF ctotal
<1>7. clusters \in Nat /\ clusters < Word
  <2>1. ctotal \in Int /\ 1 \in Int  BY <1>6
  <2> QED BY <2>1, AWord
<1> HIDE DEF clusters
<1> HIDE DEF rpc
<1>8. crefs \in Nat /\ crefs < Word
  <2>0. clusters \in Nat /\ rpc \in Nat \ {0}  BY <1>7, <1>0
  <2>1. crefs \in Nat /\ crefs <= clusters  BY ONLY <2>0, RoundUp
  <2> QED BY <2>1, <1>7, <1>0
<1> HIDE DEF crefs
<1>9. cfree \in Nat /\ cfree < Word
  <2>1. clusters \in Int /\ crefs \in Int  BY <1>7, <1>8
  <2> QED BY <2>1, AWord
<1> HIDE DEF cfree
<1>10. TailClusters(crefs, cfree, rpc) \in Nat /\ TailClusters(crefs, cfree, rpc) < Word
  BY <1>8, <1>0 DEF TailClusters
<1>11. /\ s.itsize = size /\ s.ifree = Minus(size * IPB, 1)
       /\ s.itail = Minus(size * IPB, 1) /\ s.ctotal = ctotal
       /\ s.cfree = cfree /\ s.crefs = TailClusters(crefs, cfree, rpc)
  BY DEF Superblock, InodeTableBlocks, asked, rest, size, left, ctotal,
         clusters, crefs, cfree, rpc
<1>12. Minus(size * IPB, 1) \in Nat /\ Minus(size * IPB, 1) < Word
  <2> DEFINE total == size * IPB
  <2>1. total \in Int /\ 1 \in Int  BY <1>4, <1>0
  <2> HIDE DEF total
  <2>2. Minus(total, 1) \in Nat /\ Minus(total, 1) < Word  BY <2>1, AWord
  <2> QED BY <2>2 DEF total
<1> QED BY <1>4, <1>6, <1>9, <1>10, <1>11, <1>12

\* What a superblock says of its device when the counters have not wrapped:
\* the regions add up to the device, the reference clusters are as many as the
\* clusters they list need, and the tail index follows the last one listed.
Sound(s, nt) ==
  LET room == RefsPerCluster(s.csize) - 1 IN
  /\ s.csize \in Nat \ {0} /\ room \in Nat \ {0}
  /\ s.itsize \in Nat /\ s.itstart = 1 /\ s.czstart = s.itsize + 1
  /\ s.itotal = s.itsize * IPB
  /\ s.ctotal \in Nat \ {0}
  /\ 1 + s.itsize + s.ctotal * s.csize = nt
  /\ s.crefs \in Nat /\ s.cfree \in Nat /\ 1 + s.crefs + s.cfree = s.ctotal
  /\ s.cfree <= s.crefs * room
  /\ s.crefs > 0 => /\ (s.crefs - 1) * room <= s.cfree
                    /\ s.tail.idx = s.cfree - (s.crefs - 1) * room
  /\ s.tail.cluster = s.crefs
  /\ s.itsize > 0 => s.ihead = 1 /\ s.itail = s.itotal - 1 /\ s.ifree = s.itotal - 1

\* Dividing a multiple gives the factor back.
LEMMA Multiple ==
  ASSUME NEW q \in Nat, NEW b \in Nat \ {0}
  PROVE  (q * b) \div b = q
<1> DEFINE a == q * b
<1> DEFINE d == a \div b
<1>1. a \in Nat  OBVIOUS
<1>2. d \in Nat /\ a % b \in 0 .. b - 1 /\ a = d * b + (a % b)  BY <1>1, DivMod
<1> DEFINE r == a % b
<1>3. q * b = d * b + r /\ r \in 0 .. b - 1  BY <1>2
<1> HIDE DEF a, d, r
<1>4. CASE q < d
  <2>1. q * b + b <= d * b /\ d * b \in Nat /\ q * b \in Nat  BY <1>2, <1>4, Times
  <2> QED BY <2>1, <1>3
<1>5. CASE d < q
  <2>1. d * b + b <= q * b /\ d * b \in Nat /\ q * b \in Nat  BY <1>2, <1>5, Times
  <2> QED BY <2>1, <1>3
<1>6. d \in Nat /\ q \in Nat  BY <1>2
<1>7. CASE d = q  BY <1>7 DEF a, d
<1> QED BY <1>4, <1>5, <1>6, <1>7

\* What is left after the largest multiple.
LEMMA Remainder ==
  ASSUME NEW q \in Nat, NEW b \in Nat \ {0}, NEW x \in 0 .. b - 1
  PROVE  (q * b + x) % b = x
<1> DEFINE a == q * b + x
<1> DEFINE d == a \div b
<1> DEFINE r == a % b
<1>1. a \in Nat /\ q * b \in Nat  OBVIOUS
<1>2. d \in Nat /\ r \in 0 .. b - 1 /\ a = d * b + r  BY <1>1, DivMod
<1>3. q * b + x = d * b + r  BY <1>2
<1> HIDE DEF a, d, r
<1>4. CASE q < d
  <2>1. q * b + b <= d * b /\ d * b \in Nat  BY <1>2, <1>4, Times
  <2> QED BY <2>1, <1>1, <1>2, <1>3
<1>5. CASE d < q
  <2>1. d * b + b <= q * b /\ d * b \in Nat  BY <1>2, <1>5, Times
  <2> QED BY <2>1, <1>1, <1>2, <1>3
<1>6. CASE d = q
  <2>1. d * b = q * b  BY <1>6
  <2>2. x = r
    <3> DEFINE u == q * b
    <3>1. u \in Nat /\ u + x = u + r  BY <2>1, <1>1, <1>3
    <3> HIDE DEF u
    <3> QED BY <3>1, <1>2
  <2> QED BY <2>2 DEF a, r
<1> QED BY <1>2, <1>4, <1>5, <1>6

\* The superblock of a device on which the inode table and the root directory
\* have found room is sound: no subtraction has wrapped, and the case in which
\* the code gives a reference cluster back does not happen.
LEMMA SuperblockSound ==
  ASSUME NEW nt \in Nat \ {0}, NEW it \in Nat, NEW bpc \in Nat \ {0},
         nt * IPB < Word, IPB > 1,
         NEW s, s = Superblock(nt, it, bpc), s.itsize + 1 < nt
  PROVE  Sound(s, nt)
<1> DEFINE asked == CeilDiv(it, IPB)
<1> DEFINE rest == Minus(nt - 1, asked)
<1> DEFINE size == asked + (rest % bpc)
<1> DEFINE left == Minus(nt - 1, size)
<1> DEFINE ctotal == left \div bpc
<1> DEFINE clusters == Minus(ctotal, 1)
<1> DEFINE rpc == RefsPerCluster(bpc)
<1> DEFINE crefs == CeilDiv(clusters, rpc)
<1> DEFINE cfree == Minus(clusters, crefs)
<1> DEFINE room == rpc - 1
<1>0. /\ Word \in Nat \ {0, 1} /\ IPB \in Nat \ {0, 1} /\ rpc \in Nat
      /\ room \in Nat \ {0} /\ nt <= nt * IPB
  <2>1. RPB \in Nat /\ RPB > 1 /\ bpc > 0 /\ IPB \in Nat  BY FormatAssumption
  <2>2. 1 * bpc + bpc <= RPB * bpc /\ RPB * bpc \in Nat  BY <2>1, Times
  <2>3. 0 * nt + nt <= IPB * nt  BY <2>1, Times
  <2>4. IPB * nt = nt * IPB  BY <2>1
  <2> QED BY <2>1, <2>2, <2>3, <2>4, FormatAssumption DEF RefsPerCluster
<1>1. /\ s.itsize = size /\ s.ctotal = ctotal /\ s.cfree = cfree
      /\ s.crefs = TailClusters(crefs, cfree, rpc) /\ s.csize = bpc
      /\ s.itstart = 1 /\ s.czstart = size + 1 /\ s.itotal = size * IPB
      /\ s.ihead = 1 /\ s.itail = Minus(size * IPB, 1) /\ s.ifree = Minus(size * IPB, 1)
      /\ s.tail.cluster = TailClusters(crefs, cfree, rpc)
      /\ s.tail.idx = TailIndex(crefs, cfree, rpc)
  BY DEF Superblock, InodeTableBlocks, asked, rest, size, left, ctotal,
         clusters, crefs, cfree, rpc
<1>2. asked \in Nat  BY <1>0, RoundUp
<1> HIDE DEF asked
<1>3. rest \in Nat
  <2>1. nt - 1 \in Int /\ asked \in Int  BY <1>2
  <2> QED BY <2>1, AWord
<1>4. asked <= size /\ size \in Nat
  <2> HIDE DEF rest
  <2>1. rest % bpc \in 0 .. bpc - 1  BY <1>3, DivMod
  <2> QED BY <2>1, <1>2
<1>5. rest = nt - 1 - asked
  <2>1. asked <= nt - 1 /\ (nt - 1) - asked < Word /\ nt - 1 \in Nat
    BY <1>1, <1>2, <1>4, <1>0
  <2> QED BY <2>1, <1>2, NoWrap
<1> HIDE DEF rest
<1> DEFINE many == rest \div bpc
<1>6. many \in Nat /\ rest = many * bpc + (rest % bpc) /\ rest % bpc \in Nat
  <2>1. rest \in Nat /\ bpc \in Nat \ {0}  BY <1>3
  <2>2. /\ rest \div bpc \in Nat /\ rest % bpc \in 0 .. bpc - 1
        /\ rest = (rest \div bpc) * bpc + (rest % bpc)
    BY ONLY <2>1, DivMod
  <2> QED BY <2>2
<1>7. left = nt - 1 - size
  <2>1. size <= nt - 1 /\ (nt - 1) - size < Word /\ nt - 1 \in Nat
    BY <1>1, <1>4, <1>0
  <2> HIDE DEF size
  <2> QED BY <2>1, <1>4, NoWrap
<1>8. nt - 1 - size = many * bpc
  <2> DEFINE over == rest % bpc
  <2> DEFINE product == many * bpc
  <2>1. rest = product + over /\ over \in Nat /\ product \in Nat /\ size = asked + over
    BY <1>6
  <2> HIDE DEF over, product, size
  <2>2. nt - 1 - size = product  BY <2>1, <1>5, <1>2
  <2> QED BY <2>2 DEF product
<1> HIDE DEF many, size
<1>9. ctotal = many
  <2>1. left = many * bpc  BY <1>7, <1>8
  <2>2. (many * bpc) \div bpc = many  BY <1>6, Multiple
  <2> QED BY <2>1, <2>2
<1>10. many > 0
  <2>1. many = 0 => many * bpc = 0  OBVIOUS
  <2>2. nt - 1 - size > 0  BY <1>1, <1>4
  <2> QED BY <2>1, <2>2, <1>6, <1>8
<1>11. ctotal \in Nat \ {0} /\ 1 + size + ctotal * bpc = nt  
  <2> DEFINE product == many * bpc
  <2>1. nt - 1 - size = product /\ product \in Nat  BY <1>8, <1>6
  <2> HIDE DEF product
  <2>2. 1 + size + product = nt  BY <2>1, <1>4
  <2> QED BY <2>2, <1>9, <1>10, <1>6 DEF product
<1>12. ctotal < Word
  <2>1. left \in Nat /\ left < Word  BY <1>7, <1>0, <1>4, <1>1
  <2> HIDE DEF left
  <2>2. left \div bpc <= left /\ left \div bpc \in Nat  BY <2>1, DivMod
  <2> QED BY <2>1, <2>2, <1>0
<1> HIDE DEF left, ctotal
<1>13. clusters = ctotal - 1 /\ clusters \in Nat /\ clusters < Word
  <2>1. ctotal \in Nat /\ 1 \in Nat /\ 1 <= ctotal /\ ctotal - 1 < Word
    BY <1>11, <1>12, <1>0
  <2>2. clusters = ctotal - 1  BY <2>1, NoWrap
  <2> QED BY <2>1, <2>2
<1> HIDE DEF clusters, rpc
<1>14. /\ crefs \in Nat /\ crefs <= clusters
       /\ clusters <= crefs * rpc /\ crefs * rpc < clusters + rpc
  <2>1. clusters \in Nat /\ rpc \in Nat \ {0}  BY <1>13, <1>0
  <2> QED BY ONLY <2>1, RoundUp
<1> HIDE DEF crefs
<1>15. cfree = clusters - crefs /\ cfree \in Nat
  <2>1. clusters - crefs < Word /\ clusters - crefs \in Nat  BY <1>13, <1>14, <1>0
  <2> QED BY <2>1, <1>13, <1>14, NoWrap
<1> HIDE DEF cfree
\* What the reference clusters before the last and all of them have room for.
<1>16. /\ crefs * room = crefs * rpc - crefs
       /\ (crefs - 1) * room = crefs * rpc - crefs - rpc + 1
       /\ crefs * rpc \in Nat
  BY <1>14, <1>0
<1>17. cfree <= crefs * room /\ (crefs > 0 => (crefs - 1) * room <= cfree)
  <2> DEFINE product == crefs * rpc
  <2> DEFINE all == crefs * room
  <2> DEFINE before == (crefs - 1) * room
  <2>1. /\ all = product - crefs /\ before = product - crefs - rpc + 1
        /\ product \in Nat /\ clusters <= product /\ product < clusters + rpc
    BY <1>16, <1>14
  <2> HIDE DEF product, all, before
  <2>2. cfree <= all /\ before <= cfree  BY <2>1, <1>15, <1>13, <1>14, <1>0
  <2> QED BY <2>2 DEF all, before
<1>18. TailClusters(crefs, cfree, rpc) = crefs
  <2>1. crefs > 0 => ~ ((crefs - 1) * room > cfree)
    <3> DEFINE before == (crefs - 1) * room
    <3>1. before \in Int /\ (crefs > 0 => before <= cfree)  BY <1>17, <1>16, <1>14, <1>0
    <3> HIDE DEF before
    <3>2. crefs > 0 => ~ (before > cfree)  BY <3>1, <1>15
    <3> QED BY <3>2 DEF before
  <2> QED BY <2>1 DEF TailClusters

<1>19. ASSUME crefs > 0
       PROVE  TailIndex(crefs, cfree, rpc) = cfree - (crefs - 1) * room
  <2> DEFINE before == (crefs - 1) * room
  <2> DEFINE x == cfree - before
  <2>1. before \in Int /\ before <= cfree  BY <1>17, <1>16, <1>14, <1>0, <1>19
  <2>2. x \in Nat /\ cfree = before + x  BY <2>1, <1>15
  <2>3. x <= room
    <3>1. crefs * room = before + room  BY <1>14, <1>0
    <3> HIDE DEF before
    <3>2. cfree <= before + room  BY <3>1, <1>17
    <3> QED BY <3>2, <2>1, <1>15, <1>0
  <2>4. crefs - 1 \in Nat /\ room = rpc - 1  BY <1>14, <1>19
  <2>5. CASE x = 0
    <3>1. before = cfree  BY <2>5, <2>1, <1>15
    <3>2. ~ (before > cfree)  BY <2>1, <1>15
    <3> QED BY <3>1, <3>2, <2>5, <1>19 DEF TailIndex
  <2>6. CASE x > 0 /\ x < room
    <3>1. x \in 0 .. room - 1  BY <2>6, <2>2, <1>0
    <3> HIDE DEF x
    <3>2. (before + x) % room = x  BY <3>1, <2>4, <1>0, Remainder
    <3>3. cfree % room = x  BY <3>2, <2>2
    <3>4. before # cfree /\ ~ (before > cfree)
      <4> HIDE DEF before
      <4> QED BY <2>2, <2>6, <2>1
    <3>5. cfree % (rpc - 1) = x /\ x # 0  BY <3>3, <2>6
    <3>6. TailIndex(crefs, cfree, rpc) = x  BY <3>4, <3>5 DEF TailIndex
    <3> QED BY <3>6 DEF x
  <2>7. CASE x = room
    <3>1. cfree = crefs * room + 0
      <4>1. crefs * room = before + room  BY <1>14, <1>0
      <4> QED BY <4>1, <2>7, <2>2, <1>15, <1>0
    <3>2. 0 \in 0 .. room - 1  BY <1>0
    <3>3. (crefs * room + 0) % room = 0  BY <3>2, <1>14, <1>0, Remainder
    <3>4. cfree % (rpc - 1) = 0  BY <3>1, <3>3
    <3>5. before # cfree /\ ~ (before > cfree)
      <4> HIDE DEF before
      <4> QED BY <2>2, <2>7, <2>1, <1>0
    <3>6. TailIndex(crefs, cfree, rpc) = rpc - 1  BY <3>4, <3>5 DEF TailIndex
    <3> QED BY <3>6, <2>7
  <2> QED BY <2>2, <2>3, <2>5, <2>6, <2>7, <1>0
<1>20. ASSUME size > 0
       PROVE  Minus(size * IPB, 1) = size * IPB - 1
  <2> DEFINE total == size * IPB
  <2>1. size < nt  BY <1>1, <1>4
  <2>2. total + IPB <= nt * IPB /\ total \in Nat  BY <2>1, <1>4, <1>0, Times
  <2>3. 0 * IPB + IPB <= total  BY <1>20, <1>4, <1>0, Times
  <2> HIDE DEF total
  <2>4. 1 <= total /\ total - 1 < Word
    <3> DEFINE bound == nt * IPB
    <3>1. bound \in Nat /\ bound < Word /\ total + IPB <= bound  BY <2>2, <1>0
    <3> HIDE DEF bound
    <3> QED BY <3>1, <2>2, <2>3, <1>0
  <2>5. Minus(total, 1) = total - 1  BY <2>2, <2>4, NoWrap
  <2> QED BY <2>5 DEF total
<1> QED
  <2>1. 1 + crefs + cfree = ctotal  BY <1>11, <1>13, <1>14, <1>15
  <2>2. s.crefs = crefs /\ s.cfree = cfree /\ s.tail.cluster = crefs
        /\ RefsPerCluster(s.csize) - 1 = room
    BY <1>1, <1>18 DEF rpc
  <2>3. s.crefs > 0 => s.tail.idx = s.cfree - (s.crefs - 1) * room
    BY <1>1, <1>19, <2>2
  <2>4. s.itsize > 0 => s.ihead = 1 /\ s.itail = s.itotal - 1 /\ s.ifree = s.itotal - 1
    BY <1>1, <1>20
  <2> HIDE DEF room
  <2> QED BY <1>0, <1>1, <1>4, <1>11, <1>14, <1>15, <1>17, <2>1, <2>2, <2>3, <2>4 DEF Sound

-----------------------------------------------------------------------------
(* The invariant: what is on the device when main has come to a stage *)

ArgOK == arg \in [ntotal : Devices, itotal : InodeCounts, bpc : ClusterSizes,
                  zero : BOOLEAN]

Computed == sb = Superblock(arg.ntotal, RequestedInodes, arg.bpc)

\* Blocks first to last of the inode table have been written.
Table(first, last) ==
  \A b \in first .. last : b + 1 < arg.ntotal /\ blk[b + 1] = InodeBlock(b)

\* Nothing has been written behind the inode table.  (A table of no block is
\* written to block 1 all the same, where the root directory then goes.)
Fresh == \A b \in DOMAIN blk : b > 1 /\ b > sb.itsize => blk[b] = Old

\* Clusters first to last hold their part of the list of free clusters, or x.
Lists(first, last) == \A c \in first .. last : blk[ClusterStart(c)] = RefBlock(c - 1)
Hold(first, last, x) == \A c \in first .. last : blk[ClusterStart(c)] = x

\* From the root directory on the superblock fits the device.
Fits == /\ Computed
        /\ Sound(sb, arg.ntotal)
        /\ Table(0, sb.itsize - 1)
        /\ Hold(0, 0, Root)

AtSuper == \A b \in DOMAIN blk : b > 0 => blk[b] = Old
AtTable == /\ Computed
           /\ k \in Nat \ {0}
           /\ k = 1 \/ k <= sb.itsize
           /\ Table(1, k - 1)
           /\ Fresh
AtRoot == /\ Computed
          /\ sb.itsize < arg.ntotal
          /\ Table(0, sb.itsize - 1)
          /\ Fresh
AtRefs == /\ Fits
          /\ k \in 0 .. sb.crefs
          /\ Lists(1, k)
          /\ Hold(k + 1, sb.ctotal - 1, Old)
AtZero == /\ Fits
          /\ arg.zero
          /\ Lists(1, sb.crefs)
          /\ \E m \in 1 + sb.crefs .. sb.ctotal :
               k = ClusterStart(m) /\ Hold(1 + sb.crefs, m - 1, Zero)
AtSave == /\ Fits
          /\ Lists(1, sb.crefs)
          /\ Hold(1 + sb.crefs, sb.ctotal - 1, IF arg.zero THEN Zero ELSE Old)
AtDone == AtSave /\ blk[0] = Super(sb)

IInv ==
  /\ ArgOK /\ TypeOK
  /\ stage = "super" => AtSuper
  /\ stage = "itable" => AtTable
  /\ stage = "root" => AtRoot
  /\ stage = "refs" => AtRefs
  /\ stage = "zero" => AtZero
  /\ stage = "save" => AtSave
  /\ stage = "done" => AtDone

-----------------------------------------------------------------------------
(* Where clusters lie *)

\* Every cluster of the zone is on the device, behind the inode table.
LEMMA ClusterPlace ==
  ASSUME Sound(sb, arg.ntotal), NEW c \in 0 .. sb.ctotal - 1
  PROVE  /\ ClusterStart(c) \in Nat /\ ClusterStart(c) > sb.itsize
         /\ ClusterStart(c) + sb.csize <= arg.ntotal
         /\ c > 0 => ClusterStart(c) > 1
<1>1. /\ sb.csize \in Nat \ {0} /\ sb.ctotal \in Nat /\ sb.itsize \in Nat
      /\ sb.czstart = sb.itsize + 1
      /\ 1 + sb.itsize + sb.ctotal * sb.csize = arg.ntotal
  BY DEF Sound
<1>2. c * sb.csize + sb.csize <= sb.ctotal * sb.csize /\ c * sb.csize \in Nat
      /\ sb.ctotal * sb.csize \in Nat
  BY <1>1, Times
<1> DEFINE u == c * sb.csize
<1> DEFINE v == sb.ctotal * sb.csize
<1>3. u \in Nat /\ v \in Nat /\ u + sb.csize <= v /\ 1 + sb.itsize + v = arg.ntotal
      /\ ClusterStart(c) = sb.czstart + u
  BY <1>1, <1>2 DEF ClusterStart
<1>4. c > 0 => u > 0
  <2>1. c > 0 => 0 * sb.csize + sb.csize <= c * sb.csize  BY <1>1, Times
  <2>2. 0 * sb.csize = 0  BY <1>1
  <2> QED BY <2>1, <2>2, <1>1, <1>3
<1> HIDE DEF u, v
<1> QED BY <1>1, <1>3, <1>4

\* The block after the last cluster is the end of the device.
LEMMA ClusterEnd ==
  ASSUME Sound(sb, arg.ntotal)
  PROVE  ClusterStart(sb.ctotal) = arg.ntotal
<1>1. /\ sb.csize \in Nat \ {0} /\ sb.ctotal \in Nat /\ sb.itsize \in Nat
      /\ sb.czstart = sb.itsize + 1
      /\ 1 + sb.itsize + sb.ctotal * sb.csize = arg.ntotal
  BY DEF Sound
<1> DEFINE v == sb.ctotal * sb.csize
<1>2. v \in Nat /\ 1 + sb.itsize + v = arg.ntotal /\ ClusterStart(sb.ctotal) = sb.czstart + v
  BY <1>1 DEF ClusterStart
<1> HIDE DEF v
<1> QED BY <1>1, <1>2

\* Two clusters have no block in common.
LEMMA ClustersApart ==
  ASSUME Sound(sb, arg.ntotal), NEW c \in 0 .. sb.ctotal - 1,
         NEW d \in 0 .. sb.ctotal - 1, c # d
  PROVE  ~ (ClusterStart(d) \in ClusterStart(c) .. ClusterStart(c) + sb.csize - 1)
<1>1. /\ sb.csize \in Nat \ {0} /\ sb.ctotal \in Nat /\ sb.itsize \in Nat
      /\ sb.czstart = sb.itsize + 1
  BY DEF Sound
<1> DEFINE u == c * sb.csize
<1> DEFINE v == d * sb.csize
<1>2. u \in Nat /\ v \in Nat  BY <1>1
<1>3. ClusterStart(c) = sb.czstart + u /\ ClusterStart(d) = sb.czstart + v
  BY DEF ClusterStart
<1>4. c < d => u + sb.csize <= v  BY <1>1, Times
<1>5. d < c => v + sb.csize <= u  BY <1>1, Times
<1>6. c < d \/ d < c  BY <1>1
<1> HIDE DEF u, v
<1> QED BY <1>1, <1>2, <1>3, <1>4, <1>5, <1>6

\* What writing a cluster changes.
LEMMA ClusterPut ==
  ASSUME Sound(sb, arg.ntotal), DOMAIN blk = 0 .. arg.ntotal - 1,
         NEW c \in 0 .. sb.ctotal - 1, NEW x, PutCluster(ClusterStart(c), x)
  PROVE  /\ DOMAIN blk' = DOMAIN blk
         /\ blk'[ClusterStart(c)] = x
         /\ \A d \in 0 .. sb.ctotal - 1 :
              d # c => blk'[ClusterStart(d)] = blk[ClusterStart(d)]
         /\ \A b \in 0 .. sb.itsize : blk'[b] = blk[b]
<1>1. /\ sb.csize \in Nat \ {0} /\ sb.ctotal \in Nat /\ sb.itsize \in Nat
      /\ arg.ntotal \in Nat
  <2> DEFINE v == sb.ctotal * sb.csize
  <2>1. sb.csize \in Nat \ {0} /\ sb.ctotal \in Nat /\ sb.itsize \in Nat
        /\ 1 + sb.itsize + v = arg.ntotal
    BY DEF Sound
  <2>2. v \in Nat  BY <2>1
  <2> HIDE DEF v
  <2> QED BY <2>1, <2>2
<1>2. /\ ClusterStart(c) \in Nat /\ ClusterStart(c) > sb.itsize
      /\ ClusterStart(c) + sb.csize <= arg.ntotal
  BY ClusterPlace
<1>3. blk' = [b \in DOMAIN blk |->
                IF b = ClusterStart(c) THEN x
                ELSE IF b \in ClusterStart(c) + 1 .. ClusterStart(c) + sb.csize - 1
                THEN Rest ELSE blk[b]]
  BY DEF PutCluster
<1>4. DOMAIN blk' = DOMAIN blk  BY <1>3
<1>5. blk'[ClusterStart(c)] = x
  <2>1. ClusterStart(c) \in DOMAIN blk  BY <1>1, <1>2
  <2> QED BY <2>1, <1>3
<1>6. ASSUME NEW d \in 0 .. sb.ctotal - 1, d # c
      PROVE  blk'[ClusterStart(d)] = blk[ClusterStart(d)]
  <2>1. ~ (ClusterStart(d) \in ClusterStart(c) .. ClusterStart(c) + sb.csize - 1)
    BY <1>6, ClustersApart
  <2>2. ClusterStart(d) \in Nat /\ ClusterStart(d) + sb.csize <= arg.ntotal
    BY ClusterPlace
  <2>3. ClusterStart(d) \in DOMAIN blk  BY <2>2, <1>1
  <2>4. ClusterStart(d) # ClusterStart(c)
        /\ ~ (ClusterStart(d) \in ClusterStart(c) + 1 .. ClusterStart(c) + sb.csize - 1)
    BY <2>1, <2>2, <1>1, <1>2
  <2> QED BY <2>3, <2>4, <1>3
<1>7. ASSUME NEW b \in 0 .. sb.itsize
      PROVE  blk'[b] = blk[b]
  <2>1. b \in DOMAIN blk /\ b # ClusterStart(c)
        /\ ~ (b \in ClusterStart(c) + 1 .. ClusterStart(c) + sb.csize - 1)
    BY <1>1, <1>2
  <2> QED BY <2>1, <1>3
<1> QED BY <1>4, <1>5, <1>6, <1>7

-----------------------------------------------------------------------------
(* The types *)

\* The kinds of block there are.
LEMMA Kinds ==
  /\ [kind |-> Old.kind] \in Contents /\ [kind |-> Volume.kind] \in Contents
  /\ [kind |-> Root.kind] \in Contents /\ [kind |-> Rest.kind] \in Contents
  /\ [kind |-> Zero.kind] \in Contents
  /\ \A b : [kind |-> InodeBlock(b).kind] \in Contents
  /\ \A i : [kind |-> RefBlock(i).kind] \in Contents
  /\ \A s : [kind |-> Super(s).kind] \in Contents
BY DEF Old, Volume, Root, Rest, Zero, InodeBlock, RefBlock, Super, Contents

\* A device written to is one of the same size, with blocks of the same kinds.
LEMMA BlocksTyped ==
  ASSUME TypeOK, NEW n, NEW x, [kind |-> x.kind] \in Contents,
         PutBlock(n, x) \/ PutCluster(n, x)
  PROVE  /\ DOMAIN blk' = 0 .. arg.ntotal - 1
         /\ \A b \in DOMAIN blk' : [kind |-> blk'[b].kind] \in Contents
<1>1. DOMAIN blk' = DOMAIN blk  BY DEF PutBlock, PutCluster
<1>2. \A b \in DOMAIN blk : blk'[b] = x \/ blk'[b] = Rest \/ blk'[b] = blk[b]
  BY DEF PutBlock, PutCluster
<1>3. \A b \in DOMAIN blk : [kind |-> blk[b].kind] \in Contents  BY DEF TypeOK
<1>4. [kind |-> Rest.kind] \in Contents  BY Kinds
<1> QED BY <1>1, <1>2, <1>3, <1>4 DEF TypeOK

\* The counters of a superblock are words.
LEMMA WordsOK ==
  ASSUME NEW nt \in Nat \ {0}, NEW it \in Nat, NEW bpc \in Nat \ {0},
         NEW s, s = Superblock(nt, it, bpc)
  PROVE  \A f \in {"ifree", "itail", "ctotal", "cfree", "crefs"} \cap DOMAIN s :
           s[f] \in 0 .. Word - 1
<1>1. Word \in Nat  BY FormatAssumption
<1>2. /\ s.ifree \in 0 .. Word - 1 /\ s.itail \in 0 .. Word - 1
      /\ s.ctotal \in 0 .. Word - 1 /\ s.cfree \in 0 .. Word - 1
      /\ s.crefs \in 0 .. Word - 1
  BY <1>1, SuperblockWords
<1> QED BY <1>2

\* What main is called with.
LEMMA Arguments ==
  ASSUME ArgOK
  PROVE  /\ arg.ntotal \in Nat \ {0} /\ arg.ntotal * IPB < Word /\ IPB > 1
         /\ arg.bpc \in Nat \ {0} /\ arg.zero \in BOOLEAN
         /\ RequestedInodes \in Nat
<1>1. arg.ntotal \in Devices /\ arg.itotal \in InodeCounts /\ arg.bpc \in ClusterSizes
      /\ arg.zero \in BOOLEAN
  BY DEF ArgOK
<1>2. arg.ntotal \in Nat \ {0} /\ arg.itotal \in Nat /\ arg.bpc \in 1 .. 8
      /\ arg.ntotal * IPB < Word /\ IPB > 1
  BY <1>1, MksofsAssumption
<1>3. arg.ntotal \div 8 \in Nat  BY <1>2
<1> QED BY <1>1, <1>2, <1>3 DEF RequestedInodes

-----------------------------------------------------------------------------
(* The initial state and the steps *)

\* Nothing has been written when mksofs starts.
LEMMA InitIInv == Init => IInv
<1> SUFFICES ASSUME Init PROVE IInv  OBVIOUS
<1>1. PICK first \in {Old, Volume} :
        blk = [b \in 0 .. arg.ntotal - 1 |-> IF b = 0 THEN first ELSE Old]
  BY DEF Init
<1>2. ArgOK  BY DEF Init, ArgOK
<1>3. AtSuper  BY <1>1 DEF AtSuper
<1>4. TypeOK
  <2>1. DOMAIN blk = 0 .. arg.ntotal - 1  BY <1>1
  <2>2. \A b \in DOMAIN blk : blk[b] \in {Old, Volume}  BY <1>1
  <2>3. \A b \in DOMAIN blk : [kind |-> blk[b].kind] \in Contents  BY <2>2, Kinds
  <2>4. {"ifree", "itail", "ctotal", "cfree", "crefs"} \cap DOMAIN sb = {}
    BY DEF Init
  <2> QED BY <2>1, <2>3, <2>4 DEF TypeOK, Init, Stages
<1> QED BY <1>2, <1>3, <1>4 DEF IInv, Init

\* The types survive a step that leaves the superblock alone and writes at most
\* one block or cluster, of a kind there is.
LEMMA TypesKept ==
  ASSUME ArgOK, TypeOK, arg' = arg, sb' = sb, stage' \in Stages, k' \in Nat,
         \/ blk' = blk
         \/ \E n, x : /\ [kind |-> x.kind] \in Contents
                      /\ PutBlock(n, x) \/ PutCluster(n, x)
  PROVE  ArgOK' /\ TypeOK'
<1>1. ArgOK'  BY DEF ArgOK
<1>2. DOMAIN blk' = 0 .. arg.ntotal - 1
      /\ \A b \in DOMAIN blk' : [kind |-> blk'[b].kind] \in Contents
  <2>1. CASE blk' = blk  BY <2>1 DEF TypeOK
  <2>2. CASE \E n, x : /\ [kind |-> x.kind] \in Contents
                       /\ PutBlock(n, x) \/ PutCluster(n, x)
    BY <2>2, BlocksTyped
  <2> QED BY <2>1, <2>2
<1>3. TypeOK'
  <2>1. \A f \in {"ifree", "itail", "ctotal", "cfree", "crefs"} \cap DOMAIN sb :
          sb[f] \in 0 .. Word - 1
    BY DEF TypeOK
  <2> QED BY <1>2, <2>1 DEF TypeOK, Contents
<1> QED BY <1>1, <1>3

\* A failure or a crash leaves nothing to be claimed but the types.
LEMMA StopIInv ==
  ASSUME IInv, UNCHANGED <<arg, sb, blk, k>>, stage' \in {"failed", "crashed"}
  PROVE  IInv'
<1>1. stage' \in Stages /\ k' \in Nat  BY DEF Stages, IInv, TypeOK
<1>2. ArgOK' /\ TypeOK'  BY <1>1, TypesKept DEF IInv
<1> QED BY <1>2 DEF IInv

\* fillInSuperBlock writes nothing.
LEMMA SuperIInv == ASSUME IInv, FillInSuperBlock PROVE IInv'
<1>1. ArgOK /\ TypeOK /\ AtSuper /\ UNCHANGED <<arg, blk>> /\ stage' = "itable" /\ k' = 1
      /\ sb' = Superblock(arg.ntotal, RequestedInodes, arg.bpc)
  BY DEF IInv, FillInSuperBlock
<1>2. \A f \in {"ifree", "itail", "ctotal", "cfree", "crefs"} \cap DOMAIN sb' :
        sb'[f] \in 0 .. Word - 1
  BY <1>1, Arguments, WordsOK
<1>3. ArgOK' /\ Computed'  BY <1>1 DEF ArgOK, Computed, RequestedInodes
<1>4. TypeOK'
  <2>1. DOMAIN blk = 0 .. arg.ntotal - 1
        /\ \A b \in DOMAIN blk : [kind |-> blk[b].kind] \in Contents
    BY <1>1 DEF TypeOK
  <2> QED BY <1>1, <1>2, <2>1 DEF TypeOK, Stages, Contents
<1>5. Fresh'
  <2>1. \A b \in DOMAIN blk : b > 1 => b > 0
    <3>1. arg.ntotal \in Nat  BY <1>1, Arguments
    <3> QED BY <1>1, <3>1 DEF TypeOK
  <2> QED BY <1>1, <2>1 DEF Fresh, AtSuper, Old
<1>6. Table(1, k - 1)'
  <2>1. \A b \in 1 .. 1 - 1 : FALSE  OBVIOUS
  <2> QED BY <1>1, <2>1 DEF Table
<1>7. AtTable'  BY <1>1, <1>3, <1>5, <1>6 DEF AtTable
<1> QED BY <1>1, <1>3, <1>4, <1>7 DEF IInv

\* What is known of the superblock in every later stage.
LEMMA TableSize ==
  ASSUME ArgOK, Computed
  PROVE  /\ sb.itsize \in Nat /\ sb.itstart = 1 /\ sb.czstart = sb.itsize + 1
         /\ sb.itotal = sb.itsize * IPB
         /\ RequestedInodes > 0 => sb.itsize > 0
<1>1. sb = Superblock(arg.ntotal, RequestedInodes, arg.bpc)  BY DEF Computed
<1>2. sb.itsize \in Nat /\ (RequestedInodes > 0 => sb.itsize > 0)
  <2>1. /\ arg.ntotal \in Nat \ {0} /\ arg.bpc \in Nat \ {0}
        /\ RequestedInodes \in Nat
    BY Arguments
  <2> QED BY ONLY <1>1, <2>1, SuperblockWords
<1>3. sb.itstart = 1 /\ sb.czstart = sb.itsize + 1 /\ sb.itotal = sb.itsize * IPB
  BY <1>1 DEF Superblock
<1> QED BY <1>2, <1>3

\* fillInInodeTable writes the blocks in order from the second, then the first.
LEMMA TableIInv == ASSUME IInv, FillInInodeTable PROVE IInv'
<1>1. ArgOK /\ TypeOK /\ AtTable /\ stage = "itable"
  BY DEF IInv, FillInInodeTable
<1>2. sb.itsize \in Nat /\ sb.itstart = 1  BY <1>1, TableSize DEF AtTable
<1>3. arg.ntotal \in Nat \ {0} /\ k \in Nat \ {0}  BY <1>1, Arguments DEF AtTable
<1> DEFINE b == IF k < sb.itsize THEN k ELSE 0
<1>4. CASE Fail  BY <1>4, StopIInv DEF Fail
<1>5. CASE /\ OnDevice(sb.itstart + b)
           /\ PutBlock(sb.itstart + b, InodeBlock(b))
           /\ IF b = 0 THEN stage' = "root" /\ k' = 0
                       ELSE stage' = stage /\ k' = k + 1
           /\ UNCHANGED <<arg, sb>>
  <2>1. b \in Nat /\ b + 1 < arg.ntotal /\ sb.itstart + b = b + 1
        /\ (b = 0 \/ b = k) /\ (b # 0 => k < sb.itsize)
    BY <1>2, <1>3, <1>5 DEF OnDevice
  <2>2. DOMAIN blk = 0 .. arg.ntotal - 1  BY <1>1 DEF TypeOK
  <2>3. blk' = [blk EXCEPT ![b + 1] = InodeBlock(b)]
    BY <1>5, <2>1 DEF PutBlock
  <2>4. ArgOK' /\ TypeOK'
    <3>1. stage' \in Stages /\ k' \in Nat  BY <1>1, <1>3, <1>5 DEF Stages
    <3>2. PutBlock(sb.itstart + b, InodeBlock(b))
          /\ [kind |-> InodeBlock(b).kind] \in Contents
      BY <1>5, Kinds
    <3>3. arg' = arg /\ sb' = sb  BY <1>5
    <3> HIDE DEF b
    <3> QED BY <1>1, <3>1, <3>2, <3>3, TypesKept
  <2>5. Computed'  BY <1>1, <1>5 DEF AtTable, Computed, RequestedInodes
  <2>6. arg' = arg /\ sb' = sb  BY <1>5
  <2>7. \A c : InodeBlock(c)' = InodeBlock(c)  BY <2>6 DEF InodeBlock
  <2>8. Table(1, k - 1) /\ Fresh /\ (k = 1 \/ k <= sb.itsize)  BY <1>1 DEF AtTable
  <2> HIDE DEF b
  <2>9. ASSUME NEW c \in Nat, c # b, c + 1 < arg.ntotal
        PROVE  blk'[c + 1] = blk[c + 1]
    BY <2>1, <2>2, <2>3, <2>9, <1>3
  <2>10. blk'[b + 1] = InodeBlock(b)
    <3>1. b + 1 \in DOMAIN blk  BY <2>1, <2>2, <1>3
    <3> QED BY <3>1, <2>3
  <2>11. ASSUME NEW c \in 1 .. k - 1
         PROVE  c + 1 < arg.ntotal /\ blk'[c + 1] = InodeBlock(c)
    <3>1. c + 1 < arg.ntotal /\ blk[c + 1] = InodeBlock(c)  BY <2>8 DEF Table
    <3>2. c \in Nat /\ c # b  BY <2>1, <1>3
    <3> QED BY <3>1, <3>2, <2>9
  <2>12. Fresh'
    <3> SUFFICES ASSUME NEW n \in DOMAIN blk', n > 1, n > sb.itsize
                 PROVE  blk'[n] = Old
      BY <2>6 DEF Fresh, Old
    <3>1. n \in DOMAIN blk /\ n \in Nat /\ n < arg.ntotal  BY <2>2, <2>3, <1>3
    <3>2. n # b + 1  BY <2>1, <1>2, <1>3, <3>1
    <3>3. blk[n] = Old  BY <2>8, <3>1 DEF Fresh
    <3> QED BY <3>1, <3>2, <3>3, <2>3
  <2>13. CASE b # 0
    <3>1. stage' = "itable" /\ k' = k + 1  BY <1>5, <1>1, <2>13 DEF b
    <3>2. b = k /\ k < sb.itsize  BY <2>1, <2>13
    <3>3. Table(1, k - 1)'
      <4> SUFFICES ASSUME NEW c \in 1 .. k' - 1
                   PROVE  c + 1 < arg.ntotal /\ blk'[c + 1] = InodeBlock(c)
        BY <2>6, <2>7 DEF Table
      <4>1. c \in 1 .. k - 1 \/ c = b  BY <3>1, <3>2, <1>3
      <4> QED BY <4>1, <2>1, <2>10, <2>11
    <3>4. k' \in Nat \ {0} /\ k' <= sb'.itsize  BY <3>1, <3>2, <2>6, <1>2, <1>3
    <3> QED BY <2>4, <2>5, <2>12, <3>1, <3>3, <3>4 DEF IInv, AtTable
  <2>14. CASE b = 0
    <3>1. stage' = "root" /\ k' = 0  BY <1>5, <2>14 DEF b
    <3>2. ~ (k < sb.itsize)  BY <2>14, <1>3 DEF b
    <3>3. Table(0, sb.itsize - 1)'
      <4> SUFFICES ASSUME NEW c \in 0 .. sb.itsize - 1
                   PROVE  c + 1 < arg.ntotal /\ blk'[c + 1] = InodeBlock(c)
        BY <2>6, <2>7 DEF Table
      <4>1. c \in 1 .. k - 1 \/ c = b  BY <2>8, <2>14, <3>2, <1>2, <1>3
      <4> QED BY <4>1, <2>1, <2>10, <2>11
    <3>4. sb.itsize < arg.ntotal
      <4>1. CASE sb.itsize <= 1  BY <4>1, <2>1, <2>14, <1>2, <1>3
      <4>2. CASE sb.itsize > 1
        <5>1. sb.itsize - 1 \in 1 .. k - 1  BY <4>2, <2>8, <3>2, <1>2, <1>3
        <5>2. (sb.itsize - 1) + 1 < arg.ntotal  BY <5>1, <2>11
        <5> QED BY <5>2, <1>2
      <4> QED BY <4>1, <4>2, <1>2
    <3> QED BY <2>4, <2>5, <2>6, <2>12, <3>1, <3>3, <3>4 DEF IInv, AtRoot
  <2> QED BY <2>13, <2>14
<1> QED BY <1>4, <1>5, <1>1 DEF FillInInodeTable

\* Writing a cluster other than the root's leaves what is claimed of the rest.
LEMMA FitsKept ==
  ASSUME ArgOK, TypeOK, Fits, arg' = arg, sb' = sb,
         NEW c \in 1 .. sb.ctotal - 1, NEW x, PutCluster(ClusterStart(c), x)
  PROVE  /\ Fits'
         /\ blk'[ClusterStart(c)] = x
         /\ \A d \in 0 .. sb.ctotal - 1 :
              d # c => blk'[ClusterStart(d)] = blk[ClusterStart(d)]
<1>1. Sound(sb, arg.ntotal) /\ Computed /\ Table(0, sb.itsize - 1) /\ Hold(0, 0, Root)
  BY DEF Fits
<1>2. sb.ctotal \in Nat \ {0} /\ sb.itsize \in Nat  BY <1>1 DEF Sound
<1>3. /\ blk'[ClusterStart(c)] = x
      /\ \A d \in 0 .. sb.ctotal - 1 :
           d # c => blk'[ClusterStart(d)] = blk[ClusterStart(d)]
      /\ \A b \in 0 .. sb.itsize : blk'[b] = blk[b]
  <2>1. c \in 0 .. sb.ctotal - 1 /\ DOMAIN blk = 0 .. arg.ntotal - 1
    BY <1>2 DEF TypeOK
  <2> QED BY <1>1, <2>1, ClusterPut
<1>4. Table(0, sb.itsize - 1)'
  <2>1. \A b : InodeBlock(b)' = InodeBlock(b)  BY DEF InodeBlock
  <2> SUFFICES ASSUME NEW b \in 0 .. sb.itsize - 1
               PROVE  b + 1 < arg.ntotal /\ blk'[b + 1] = InodeBlock(b)
    BY <2>1 DEF Table
  <2>2. b + 1 < arg.ntotal /\ blk[b + 1] = InodeBlock(b)  BY <1>1 DEF Table
  <2>3. b + 1 \in 0 .. sb.itsize  BY <1>2
  <2> QED BY <2>2, <2>3, <1>3
<1>5. Hold(0, 0, Root)'
  <2>1. ClusterStart(0)' = ClusterStart(0)  BY DEF ClusterStart
  <2>2. blk'[ClusterStart(0)] = blk[ClusterStart(0)]
    <3>1. 0 \in 0 .. sb.ctotal - 1 /\ 0 # c  BY <1>2
    <3> QED BY <3>1, <1>3
  <2>3. blk[ClusterStart(0)] = Root
    <3>1. 0 \in 0 .. 0  OBVIOUS
    <3> QED BY <3>1, <1>1 DEF Hold
  <2>4. \A d \in 0 .. 0 : d = 0  OBVIOUS
  <2> QED BY <2>1, <2>2, <2>3, <2>4 DEF Hold, Root
<1>6. Fits'
  <2>1. Sound(sb, arg.ntotal)'  BY <1>1 DEF Sound, RefsPerCluster
  <2>2. Computed'  BY <1>1 DEF Computed, RequestedInodes
  <2> QED BY <2>1, <2>2, <1>4, <1>5 DEF Fits
<1> QED BY <1>3, <1>6

\* fillInRootDir: from here on the superblock is known to fit the device.
LEMMA RootIInv == ASSUME IInv, FillInRootDir PROVE IInv'
<1>1. ArgOK /\ TypeOK /\ AtRoot /\ stage = "root"
  BY DEF IInv, FillInRootDir
<1>2. sb.itsize \in Nat /\ sb.czstart = sb.itsize + 1 /\ Computed
  BY <1>1, TableSize DEF AtRoot
<1>3. CASE Fail  BY <1>3, StopIInv DEF Fail
<1>4. CASE /\ OnDevice(ClusterStart(0))
           /\ PutCluster(ClusterStart(0), Root)
           /\ stage' = "refs"
           /\ k' = 0
           /\ UNCHANGED <<arg, sb>>
  <2>1. sb.itsize + 1 < arg.ntotal
    <3>1. /\ arg.ntotal \in Nat \ {0} /\ arg.bpc \in Nat \ {0}
          /\ RequestedInodes \in Nat
      BY <1>1, Arguments
    <3>2. sb.csize = arg.bpc  BY <1>2 DEF Computed, Superblock
    <3>3. 0 * sb.csize = 0  BY <3>1, <3>2
    <3>4. ClusterStart(0) = sb.itsize + 1  BY <3>3, <1>2 DEF ClusterStart
    <3> QED BY <3>4, <1>4 DEF OnDevice
  <2>2. Sound(sb, arg.ntotal)
    <3>1. /\ arg.ntotal \in Nat \ {0} /\ arg.bpc \in Nat \ {0}
          /\ RequestedInodes \in Nat /\ arg.ntotal * IPB < Word /\ IPB > 1
          /\ sb = Superblock(arg.ntotal, RequestedInodes, arg.bpc)
      BY <1>1, <1>2, Arguments DEF Computed
    <3> QED BY ONLY <2>1, <3>1, SuperblockSound
  <2>3. sb.ctotal \in Nat \ {0} /\ sb.crefs \in Nat  BY <2>2 DEF Sound
  <2>4. DOMAIN blk = 0 .. arg.ntotal - 1  BY <1>1 DEF TypeOK
  <2>5. /\ blk'[ClusterStart(0)] = Root
        /\ \A d \in 0 .. sb.ctotal - 1 :
             d # 0 => blk'[ClusterStart(d)] = blk[ClusterStart(d)]
        /\ \A b \in 0 .. sb.itsize : blk'[b] = blk[b]
    <3>1. 0 \in 0 .. sb.ctotal - 1  BY <2>3
    <3> QED BY <3>1, <2>2, <2>4, <1>4, ClusterPut
  <2>6. ArgOK' /\ TypeOK'
    <3>1. stage' \in Stages /\ k' \in Nat  BY <1>4 DEF Stages
    <3> QED BY <1>1, <1>4, <3>1, Kinds, TypesKept
  <2>7. \A d : ClusterStart(d)' = ClusterStart(d)  BY <1>4 DEF ClusterStart
  <2>8. Table(0, sb.itsize - 1)'
    <3>1. \A b : InodeBlock(b)' = InodeBlock(b)  BY <1>4 DEF InodeBlock
    <3> SUFFICES ASSUME NEW b \in 0 .. sb.itsize - 1
                 PROVE  b + 1 < arg.ntotal /\ blk'[b + 1] = InodeBlock(b)
      BY <1>4, <3>1 DEF Table
    <3>2. b + 1 < arg.ntotal /\ blk[b + 1] = InodeBlock(b)
      BY <1>1 DEF Table, AtRoot
    <3>3. b + 1 \in 0 .. sb.itsize  BY <1>2
    <3> QED BY <3>2, <3>3, <2>5
  <2>9. Hold(0, 0, Root)'
    <3>1. \A d \in 0 .. 0 : d = 0  OBVIOUS
    <3> QED BY <3>1, <2>5, <2>7 DEF Hold, Root
  <2>10. Fits'
    <3>1. Sound(sb, arg.ntotal)'  BY <2>2, <1>4 DEF Sound, RefsPerCluster
    <3>2. Computed'  BY <1>2, <1>4 DEF Computed, RequestedInodes
    <3> QED BY <3>1, <3>2, <2>8, <2>9 DEF Fits
  <2>11. Hold(1, sb.ctotal - 1, Old)'
    <3> SUFFICES ASSUME NEW d \in 1 .. sb.ctotal - 1
                 PROVE  blk'[ClusterStart(d)] = Old
      BY <1>4, <2>7 DEF Hold, Old
    <3>1. d \in 0 .. sb.ctotal - 1 /\ d > 0  BY <2>3
    <3>2. /\ ClusterStart(d) \in Nat /\ ClusterStart(d) > sb.itsize
          /\ ClusterStart(d) + sb.csize <= arg.ntotal /\ ClusterStart(d) > 1
      BY <3>1, <2>2, ClusterPlace
    <3>3. ClusterStart(d) \in DOMAIN blk
      <4>1. sb.csize \in Nat \ {0} /\ arg.ntotal \in Nat  BY <2>2, <1>1, Arguments DEF Sound
      <4> QED BY <4>1, <3>2, <2>4
    <3>4. blk[ClusterStart(d)] = Old  BY <3>2, <3>3, <1>1 DEF AtRoot, Fresh
    <3> QED BY <3>1, <3>4, <2>5
  <2>12. Lists(1, k)' /\ Hold(k + 1, sb.ctotal - 1, Old)'
    <3>1. \A d \in 1 .. 0 : FALSE  OBVIOUS
    <3>2. k' = 0 /\ k' + 1 = 1  BY <1>4
    <3> QED BY <3>1, <3>2, <2>11 DEF Lists, Hold
  <2>13. k' \in 0 .. sb'.crefs  BY <1>4, <2>3
  <2> QED BY <1>4, <2>6, <2>10, <2>12, <2>13 DEF IInv, AtRefs
<1> QED BY <1>3, <1>4 DEF FillInRootDir

\* A step that writes nothing keeps what is claimed of the clusters.
LEMMA NothingWritten ==
  ASSUME UNCHANGED <<arg, sb, blk>>
  PROVE  /\ Fits => Fits'
         /\ \A first, last : Lists(first, last) => Lists(first, last)'
         /\ \A first, last, x : Hold(first, last, x) => Hold(first, last, x)'
<1>1. \A c : ClusterStart(c)' = ClusterStart(c)  BY DEF ClusterStart
<1>2. \A c : RefBlock(c)' = RefBlock(c)  BY DEF RefBlock
<1>3. \A b : InodeBlock(b)' = InodeBlock(b)  BY DEF InodeBlock
<1>4. \A first, last : Lists(first, last) => Lists(first, last)'
  BY <1>1, <1>2 DEF Lists
<1>5. \A first, last, x : Hold(first, last, x) => Hold(first, last, x)'
  BY <1>1 DEF Hold
<1>6. ASSUME Fits PROVE Fits'
  <2>1. Sound(sb, arg.ntotal)'  BY <1>6 DEF Fits, Sound, RefsPerCluster
  <2>2. Computed'  BY <1>6 DEF Fits, Computed, RequestedInodes
  <2>3. Table(0, sb.itsize - 1)'  BY <1>3, <1>6 DEF Fits, Table
  <2>4. Hold(0, 0, Root)'  BY <1>1, <1>6 DEF Fits, Hold, Root
  <2> QED BY <2>1, <2>2, <2>3, <2>4 DEF Fits
<1> QED BY <1>4, <1>5, <1>6

\* fillInFreeClusterList writes reference cluster after reference cluster.
LEMMA RefsIInv == ASSUME IInv, FillInFreeClusterList PROVE IInv'
<1>1. ArgOK /\ TypeOK /\ AtRefs /\ stage = "refs"
  BY DEF IInv, FillInFreeClusterList
<1>2. /\ Fits /\ k \in 0 .. sb.crefs /\ Lists(1, k) /\ Hold(k + 1, sb.ctotal - 1, Old)
      /\ Sound(sb, arg.ntotal)
  BY <1>1 DEF AtRefs, Fits
<1>3. /\ sb.ctotal \in Nat \ {0} /\ sb.crefs \in Nat /\ sb.cfree \in Nat
      /\ 1 + sb.crefs + sb.cfree = sb.ctotal
  BY <1>2 DEF Sound
<1>4. CASE /\ k < sb.crefs
           /\ PutCluster(ClusterStart(k + 1), RefBlock(k))
           /\ k' = k + 1
           /\ UNCHANGED <<arg, sb, stage>>
  <2>1. k + 1 \in 1 .. sb.ctotal - 1 /\ k + 1 \in 0 .. sb.ctotal - 1
    BY <1>2, <1>3, <1>4
  <2>2. /\ Fits'
        /\ blk'[ClusterStart(k + 1)] = RefBlock(k)
        /\ \A d \in 0 .. sb.ctotal - 1 :
             d # k + 1 => blk'[ClusterStart(d)] = blk[ClusterStart(d)]
    BY <1>1, <1>2, <1>4, <2>1, FitsKept
  <2>3. ArgOK' /\ TypeOK'
    <3>1. stage' \in Stages /\ k' \in Nat  BY <1>1, <1>2, <1>3, <1>4 DEF Stages
    <3> QED BY <1>1, <1>4, <3>1, Kinds, TypesKept
  <2>4. \A c : ClusterStart(c)' = ClusterStart(c) /\ RefBlock(c)' = RefBlock(c)
    BY <1>4 DEF ClusterStart, RefBlock
  <2>5. Lists(1, k)'
    <3> SUFFICES ASSUME NEW c \in 1 .. k'
                 PROVE  blk'[ClusterStart(c)] = RefBlock(c - 1)
      BY <2>4 DEF Lists
    <3>1. CASE c = k + 1
      <4>1. c - 1 = k  BY <3>1, <1>2
      <4> QED BY <3>1, <4>1, <2>2
    <3>2. CASE c # k + 1
      <4>1. c \in 1 .. k /\ c \in 0 .. sb.ctotal - 1  BY <3>2, <1>2, <1>3, <1>4
      <4> QED BY <3>2, <4>1, <1>2, <2>2 DEF Lists
    <3> QED BY <3>1, <3>2
  <2>6. Hold(k + 1, sb.ctotal - 1, Old)'
    <3> SUFFICES ASSUME NEW c \in k' + 1 .. sb.ctotal - 1
                 PROVE  blk'[ClusterStart(c)] = Old
      BY <1>4, <2>4 DEF Hold, Old
    <3>1. c \in k + 1 .. sb.ctotal - 1 /\ c \in 0 .. sb.ctotal - 1 /\ c # k + 1
      BY <1>2, <1>3, <1>4
    <3> QED BY <3>1, <1>2, <2>2 DEF Hold
  <2>7. k' \in 0 .. sb'.crefs  BY <1>2, <1>3, <1>4
  <2>8. AtRefs'  BY <2>2, <2>5, <2>6, <2>7 DEF AtRefs
  <2> QED BY <1>1, <1>4, <2>3, <2>8 DEF IInv
<1>5. CASE /\ k >= sb.crefs
           /\ stage' = IF arg.zero THEN "zero" ELSE "save"
           /\ k' = ClusterStart(1 + sb.crefs)
           /\ UNCHANGED <<arg, sb, blk>>
  <2>1. k = sb.crefs /\ k + 1 = 1 + sb.crefs  BY <1>2, <1>3, <1>5
  <2>2. Fits' /\ Lists(1, sb.crefs)' /\ Hold(1 + sb.crefs, sb.ctotal - 1, Old)'
    <3>1. Lists(1, sb.crefs) /\ Hold(1 + sb.crefs, sb.ctotal - 1, Old)
      BY <1>2, <2>1
    <3>2. UNCHANGED <<arg, sb, blk>>  BY <1>5
    <3>3. Old' = Old  BY DEF Old
    <3> QED BY <3>1, <3>2, <3>3, <1>2, NothingWritten
  <2>3. ArgOK' /\ TypeOK'
    <3>1. k' \in Nat
      <4>1. 1 + sb.crefs \in 0 .. sb.ctotal  BY <1>3
      <4>2. CASE 1 + sb.crefs = sb.ctotal
        <5>1. ClusterStart(1 + sb.crefs) = arg.ntotal  BY <4>2, <1>2, ClusterEnd
        <5> QED BY <5>1, <1>1, <1>5, Arguments
      <4>3. CASE 1 + sb.crefs # sb.ctotal
        <5>1. 1 + sb.crefs \in 0 .. sb.ctotal - 1  BY <4>3, <1>3
        <5> QED BY <5>1, <1>2, <1>5, ClusterPlace
      <4> QED BY <4>2, <4>3
    <3>2. stage' \in Stages  BY <1>5 DEF Stages
    <3> QED BY <1>1, <1>5, <3>1, <3>2, TypesKept
  <2>4. CASE arg.zero
    <3>1. stage' = "zero" /\ arg'.zero  BY <2>4, <1>5
    <3>2. 1 + sb'.crefs \in 1 + sb'.crefs .. sb'.ctotal
      BY <1>3, <1>5
    <3>3. Hold(1 + sb.crefs, (1 + sb.crefs) - 1, Zero)'
      <4>1. \A c \in 1 + sb.crefs .. (1 + sb.crefs) - 1 : FALSE  BY <1>3
      <4> QED BY <4>1, <1>5 DEF Hold
    <3>4. k' = ClusterStart(1 + sb.crefs)'  BY <1>5 DEF ClusterStart
    <3>5. AtZero'
      BY <2>2, <3>1, <3>2, <3>3, <3>4 DEF AtZero
    <3> QED BY <2>3, <3>1, <3>5 DEF IInv
  <2>5. CASE ~ arg.zero
    <3>1. stage' = "save" /\ ~ arg'.zero  BY <2>5, <1>5
    <3>2. (IF arg.zero THEN Zero ELSE Old)' = Old  BY <3>1 DEF Old
    <3>3. AtSave'  BY <2>2, <3>1 DEF AtSave, Hold, Old
    <3> QED BY <2>3, <3>1, <3>3 DEF IInv
  <2> QED BY <2>4, <2>5
<1> QED BY <1>4, <1>5 DEF FillInFreeClusterList

\* resetFreeCluster clears cluster after cluster up to the end of the device.
LEMMA ZeroIInv == ASSUME IInv, ResetFreeCluster PROVE IInv'
<1>1. ArgOK /\ TypeOK /\ AtZero /\ stage = "zero"
  BY DEF IInv, ResetFreeCluster
<1>2. /\ Fits /\ arg.zero /\ Lists(1, sb.crefs) /\ Sound(sb, arg.ntotal)
  BY <1>1 DEF AtZero, Fits
<1>3. /\ sb.ctotal \in Nat \ {0} /\ sb.crefs \in Nat /\ sb.cfree \in Nat
      /\ sb.csize \in Nat \ {0} /\ sb.czstart \in Nat
      /\ 1 + sb.crefs + sb.cfree = sb.ctotal
  BY <1>2 DEF Sound
<1>4. PICK m \in 1 + sb.crefs .. sb.ctotal :
        k = ClusterStart(m) /\ Hold(1 + sb.crefs, m - 1, Zero)
  BY <1>1 DEF AtZero
<1>5. arg.ntotal \in Nat \ {0}  BY <1>1, Arguments
<1>6. CASE /\ OnDevice(k)
           /\ PutCluster(k, Zero)
           /\ k' = k + sb.csize
           /\ UNCHANGED <<arg, sb, stage>>
  <2>1. m \in 1 .. sb.ctotal - 1 /\ m \in 0 .. sb.ctotal - 1
    <3>1. m # sb.ctotal
      <4>1. ClusterStart(sb.ctotal) = arg.ntotal  BY <1>2, ClusterEnd
      <4> QED BY <4>1, <1>4, <1>5, <1>6 DEF OnDevice
    <3> QED BY <3>1, <1>3, <1>4
  <2>2. /\ Fits'
        /\ blk'[ClusterStart(m)] = Zero
        /\ \A d \in 0 .. sb.ctotal - 1 :
             d # m => blk'[ClusterStart(d)] = blk[ClusterStart(d)]
    BY <1>1, <1>2, <1>4, <1>6, <2>1, FitsKept
  <2>3. ArgOK' /\ TypeOK'
    <3>1. stage' \in Stages /\ k' \in Nat
      BY <1>1, <1>3, <1>6 DEF Stages, TypeOK
    <3> QED BY <1>1, <1>6, <3>1, Kinds, TypesKept
  <2>4. \A c : ClusterStart(c)' = ClusterStart(c) /\ RefBlock(c)' = RefBlock(c)
    BY <1>6 DEF ClusterStart, RefBlock
  <2>5. Lists(1, sb.crefs)'
    <3> SUFFICES ASSUME NEW c \in 1 .. sb.crefs
                 PROVE  blk'[ClusterStart(c)] = RefBlock(c - 1)
      BY <1>6, <2>4 DEF Lists
    <3>1. c \in 0 .. sb.ctotal - 1 /\ c # m  BY <1>3, <1>4
    <3> QED BY <3>1, <1>2, <2>2 DEF Lists
  <2>6. Hold(1 + sb.crefs, (m + 1) - 1, Zero)'
    <3> SUFFICES ASSUME NEW c \in 1 + sb.crefs .. (m + 1) - 1
                 PROVE  blk'[ClusterStart(c)] = Zero
      BY <1>6, <2>4 DEF Hold
    <3>1. CASE c = m  BY <3>1, <2>2
    <3>2. CASE c # m
      <4>1. c \in 1 + sb.crefs .. m - 1 /\ c \in 0 .. sb.ctotal - 1
        BY <3>2, <1>3, <1>4, <2>1
      <4> QED BY <3>2, <4>1, <1>4, <2>2 DEF Hold
    <3> QED BY <3>1, <3>2
  <2>7. k' = ClusterStart(m + 1)'
    <3>0. m \in Nat /\ sb.csize \in Nat  BY <2>1, <1>3
    <3>1. (m + 1) * sb.csize = m * sb.csize + sb.csize
      <4>1. \A a, b \in Nat : (a + 1) * b = a * b + b  OBVIOUS
      <4> QED BY ONLY <3>0, <4>1
    <3>2. m * sb.csize \in Nat  BY <2>1, <1>3
    <3> DEFINE u == m * sb.csize
    <3>3. k = sb.czstart + u /\ ClusterStart(m + 1) = sb.czstart + (u + sb.csize)
          /\ u \in Nat
      BY <1>4, <3>1, <3>2 DEF ClusterStart
    <3> HIDE DEF u
    <3>4. k + sb.csize = ClusterStart(m + 1)  BY <3>3, <1>3
    <3> QED BY <3>4, <2>4, <1>6
  <2>8. m + 1 \in 1 + sb'.crefs .. sb'.ctotal
    <3>1. m + 1 \in 1 + sb.crefs .. sb.ctotal  BY <2>1, <1>3, <1>4
    <3>2. sb' = sb  BY <1>6
    <3> QED BY <3>1, <3>2
  <2>9. AtZero'  BY <2>2, <2>5, <2>6, <2>7, <2>8, <1>2, <1>6 DEF AtZero
  <2> QED BY <1>1, <1>6, <2>3, <2>9 DEF IInv
<1>7. CASE /\ ~ OnDevice(k)
           /\ stage' = "save"
           /\ UNCHANGED <<arg, sb, blk, k>>
  <2>1. m = sb.ctotal
    <3>1. ASSUME m # sb.ctotal PROVE FALSE
      <4>1. m \in 0 .. sb.ctotal - 1  BY <3>1, <1>3, <1>4
      <4>2. ClusterStart(m) \in Nat /\ ClusterStart(m) + sb.csize <= arg.ntotal
        BY <4>1, <1>2, ClusterPlace
      <4> QED BY <4>2, <1>3, <1>4, <1>5, <1>7 DEF OnDevice
    <3> QED BY <3>1
  <2>2. Fits' /\ Lists(1, sb.crefs)' /\ Hold(1 + sb.crefs, sb.ctotal - 1, Zero)'
    <3>1. UNCHANGED <<arg, sb, blk>> /\ Hold(1 + sb.crefs, sb.ctotal - 1, Zero)
      BY <1>4, <1>7, <2>1
    <3>2. Zero' = Zero  BY DEF Zero
    <3> QED BY <3>1, <3>2, <1>2, NothingWritten
  <2>3. ArgOK' /\ TypeOK'
    <3>1. stage' \in Stages /\ k' \in Nat  BY <1>1, <1>7 DEF Stages, TypeOK
    <3> QED BY <1>1, <1>7, <3>1, TypesKept
  <2>4. AtSave'  BY <2>2, <1>2, <1>7 DEF AtSave, Hold, Zero
  <2> QED BY <1>7, <2>3, <2>4 DEF IInv
<1> QED BY <1>6, <1>7 DEF ResetFreeCluster

\* The superblock is written last.
LEMMA SaveIInv == ASSUME IInv, SaveSuperBlock PROVE IInv'
<1>1. /\ ArgOK /\ TypeOK /\ AtSave /\ stage = "save"
      /\ PutBlock(0, Super(sb)) /\ stage' = "done" /\ UNCHANGED <<arg, sb, k>>
  BY DEF IInv, SaveSuperBlock
<1>2. /\ Fits /\ Lists(1, sb.crefs) /\ Sound(sb, arg.ntotal)
      /\ Hold(1 + sb.crefs, sb.ctotal - 1, IF arg.zero THEN Zero ELSE Old)
      /\ Computed /\ Table(0, sb.itsize - 1) /\ Hold(0, 0, Root)
  BY <1>1 DEF AtSave, Fits
<1>3. /\ sb.ctotal \in Nat \ {0} /\ sb.crefs \in Nat /\ sb.cfree \in Nat
      /\ sb.itsize \in Nat /\ 1 + sb.crefs + sb.cfree = sb.ctotal
  BY <1>2 DEF Sound
<1>4. arg.ntotal \in Nat \ {0} /\ DOMAIN blk = 0 .. arg.ntotal - 1
  BY <1>1, Arguments DEF TypeOK
<1>5. blk' = [blk EXCEPT ![0] = Super(sb)]  BY <1>1 DEF PutBlock
<1>6. ArgOK' /\ TypeOK'
  <2>1. stage' \in Stages /\ k' \in Nat  BY <1>1 DEF Stages, TypeOK
  <2> QED BY <1>1, <2>1, Kinds, TypesKept
<1>7. \A c : ClusterStart(c)' = ClusterStart(c) /\ RefBlock(c)' = RefBlock(c)
             /\ InodeBlock(c)' = InodeBlock(c)
  BY <1>1 DEF ClusterStart, RefBlock, InodeBlock
<1>8. ASSUME NEW c \in 0 .. sb.ctotal - 1
      PROVE  blk'[ClusterStart(c)] = blk[ClusterStart(c)]
  <2>1. ClusterStart(c) # 0
    <3>1. ClusterStart(c) \in Nat /\ ClusterStart(c) > sb.itsize
      BY <1>2, ClusterPlace
    <3> QED BY <3>1, <1>3
  <2> QED BY <2>1, <1>5
<1>9. Table(0, sb.itsize - 1)'
  <2> SUFFICES ASSUME NEW b \in 0 .. sb.itsize - 1
               PROVE  b + 1 < arg.ntotal /\ blk'[b + 1] = InodeBlock(b)
    BY <1>1, <1>7 DEF Table
  <2>1. b + 1 < arg.ntotal /\ blk[b + 1] = InodeBlock(b)  BY <1>2 DEF Table
  <2>2. b + 1 # 0  BY <1>3
  <2> QED BY <2>1, <2>2, <1>5
<1>10. Hold(0, 0, Root)'
  <2>1. \A c \in 0 .. 0 : c \in 0 .. sb.ctotal - 1  BY <1>3
  <2> QED BY <2>1, <1>2, <1>7, <1>8 DEF Hold, Root
<1>11. Fits'
  <2>1. Sound(sb, arg.ntotal)'  BY <1>1, <1>2 DEF Sound, RefsPerCluster
  <2>2. Computed'  BY <1>1, <1>2 DEF Computed, RequestedInodes
  <2> QED BY <2>1, <2>2, <1>9, <1>10 DEF Fits
<1>12. Lists(1, sb.crefs)'
  <2>1. \A c \in 1 .. sb.crefs : c \in 0 .. sb.ctotal - 1  BY <1>3
  <2> QED BY <2>1, <1>1, <1>2, <1>7, <1>8 DEF Lists
<1>13. Hold(1 + sb.crefs, sb.ctotal - 1, IF arg.zero THEN Zero ELSE Old)'
  <2>1. \A c \in 1 + sb.crefs .. sb.ctotal - 1 : c \in 0 .. sb.ctotal - 1  BY <1>3
  <2> QED BY <2>1, <1>1, <1>2, <1>7, <1>8 DEF Hold, Zero, Old
<1>14. blk'[0] = Super(sb)'
  <2>1. 0 \in DOMAIN blk  BY <1>4
  <2> QED BY <2>1, <1>1, <1>5 DEF Super
<1>15. AtDone'  BY <1>11, <1>12, <1>13, <1>14 DEF AtDone, AtSave
<1> QED BY <1>1, <1>6, <1>15 DEF IInv

\* The invariant holds in every state of the formatter.
THEOREM Invariance == Spec => []IInv
<1>1. IInv /\ [Next]_vars => IInv'
  <2> SUFFICES ASSUME IInv, [Next]_vars PROVE IInv'  OBVIOUS
  <2>1. CASE FillInSuperBlock  BY <2>1, SuperIInv
  <2>2. CASE FillInInodeTable  BY <2>2, TableIInv
  <2>3. CASE FillInRootDir  BY <2>3, RootIInv
  <2>4. CASE FillInFreeClusterList  BY <2>4, RefsIInv
  <2>5. CASE ResetFreeCluster  BY <2>5, ZeroIInv
  <2>6. CASE SaveSuperBlock  BY <2>6, SaveIInv
  <2>7. CASE Crash  BY <2>7, StopIInv DEF Crash
  <2>8. CASE UNCHANGED vars
    <3>1. UNCHANGED <<arg, sb, blk>> /\ stage' = stage /\ k' = k
      BY <2>8 DEF vars
    <3>2. ArgOK' /\ TypeOK'
      <4>1. stage' \in Stages /\ k' \in Nat  BY <3>1 DEF IInv, TypeOK
      <4> QED BY <3>1, <4>1, TypesKept DEF IInv
    <3>3. \A c : ClusterStart(c)' = ClusterStart(c) /\ InodeBlock(c)' = InodeBlock(c)
      BY <3>1 DEF ClusterStart, InodeBlock
    <3>4. Computed => Computed'  BY <3>1 DEF Computed, RequestedInodes
    <3>5. AtSuper => AtSuper'  BY <3>1 DEF AtSuper, Old
    <3>6. Fresh => Fresh'  BY <3>1 DEF Fresh, Old
    <3>7. \A first, last : Table(first, last) => Table(first, last)'
      BY <3>1, <3>3 DEF Table
    <3>8. AtTable => AtTable'  BY <3>1, <3>4, <3>6, <3>7 DEF AtTable
    <3>9. AtRoot => AtRoot'  BY <3>1, <3>4, <3>6, <3>7 DEF AtRoot
    <3>10. AtRefs => AtRefs'
      BY <3>1, NothingWritten DEF AtRefs, Old
    <3>11. AtZero => AtZero'
      BY <3>1, <3>3, NothingWritten DEF AtZero, Zero
    <3>12. AtSave => AtSave'
      BY <3>1, NothingWritten DEF AtSave, Old, Zero
    <3>13. AtDone => AtDone'  BY <3>1, <3>12 DEF AtDone, Super
    <3> QED BY <3>1, <3>2, <3>5, <3>8, <3>9, <3>10, <3>11, <3>12, <3>13 DEF IInv
  <2> QED BY <2>1, <2>2, <2>3, <2>4, <2>5, <2>6, <2>7, <2>8 DEF Next, Main
<1> QED BY <1>1, InitIInv, PTL DEF Spec

-----------------------------------------------------------------------------
(* What an installed device looks like *)

\* Every run is typed, and on a device reported as installed the regions tile
\* it and hold what they are for, whatever its size.
THEOREM RegionsTileDevice == Spec => []RegionsTile
<1>1. ASSUME IInv PROVE RegionsTile
  <2>1. TypeOK  BY <1>1 DEF IInv
  <2>2. ASSUME stage = "done"
        PROVE  /\ 1 + sb.itsize + sb.ctotal * sb.csize = arg.ntotal
               /\ blk[0].kind = "super"
               /\ \A b \in 1 .. sb.itsize : blk[b].kind = "inodes"
    <3>1. AtDone /\ Sound(sb, arg.ntotal) /\ Table(0, sb.itsize - 1)
      BY <1>1, <2>2 DEF IInv, AtDone, AtSave, Fits
    <3>2. 1 + sb.itsize + sb.ctotal * sb.csize = arg.ntotal /\ sb.itsize \in Nat
      BY <3>1 DEF Sound
    <3>3. blk[0].kind = "super"  BY <3>1 DEF AtDone, Super
    <3>4. ASSUME NEW b \in 1 .. sb.itsize
          PROVE  blk[b].kind = "inodes"
      <4>1. b - 1 \in 0 .. sb.itsize - 1 /\ (b - 1) + 1 = b  BY <3>2
      <4>2. blk[b] = InodeBlock(b - 1)  BY <3>1, <4>1 DEF Table
      <4> QED BY <4>2 DEF InodeBlock
    <3> QED BY <3>2, <3>3, <3>4
  <2>3. ASSUME stage = "done", NEW c \in 0 .. sb.ctotal - 1
        PROVE  blk[ClusterStart(c)].kind =
                 CASE c = 0 -> "root"
                   [] c \in 1 .. sb.crefs -> "refs"
                   [] OTHER -> IF arg.zero THEN "zero" ELSE "old"
    <3>1. /\ Lists(1, sb.crefs) /\ Hold(0, 0, Root) /\ Sound(sb, arg.ntotal)
          /\ Hold(1 + sb.crefs, sb.ctotal - 1, IF arg.zero THEN Zero ELSE Old)
      BY <1>1, <2>3 DEF IInv, AtDone, AtSave, Fits
    <3>2. sb.ctotal \in Nat \ {0} /\ sb.crefs \in Nat  BY <3>1 DEF Sound
    <3>3. CASE c = 0
      <4>1. 0 \in 0 .. 0 /\ ~ (0 \in 1 .. sb.crefs)  BY <3>2
      <4>2. blk[ClusterStart(c)] = Root  BY <3>1, <3>3, <4>1 DEF Hold
      <4> QED BY <3>3, <4>2 DEF Root
    <3>4. CASE c \in 1 .. sb.crefs
      <4>1. blk[ClusterStart(c)] = RefBlock(c - 1)  BY <3>1, <3>4 DEF Lists
      <4>2. c # 0  BY <3>2, <3>4
      <4> QED BY <3>4, <4>1, <4>2 DEF RefBlock
    <3>5. CASE c # 0 /\ ~ (c \in 1 .. sb.crefs)
      <4>1. c \in 1 + sb.crefs .. sb.ctotal - 1  BY <3>2, <3>5
      <4>2. blk[ClusterStart(c)] = IF arg.zero THEN Zero ELSE Old
        BY <3>1, <4>1 DEF Hold
      <4> QED BY <3>5, <4>2 DEF Zero, Old
    <3> QED BY <3>3, <3>4, <3>5
  <2> QED BY <2>1, <2>2, <2>3 DEF RegionsTile
<1> QED BY <1>1, Invariance, PTL

-----------------------------------------------------------------------------
(* The list of free clusters *)

\* The place of position p in the list, counted from 0.
Number(p) == (p[1] - 1) * (RefsPerCluster(sb.csize) - 1) + p[2]

\* Positions of the list have numbers below cfree, ...
LEMMA NumberBelow ==
  ASSUME Sound(sb, arg.ntotal), NEW p \in ListPositions
  PROVE  /\ p[1] \in 1 .. sb.crefs /\ p[2] \in 0 .. RefsPerCluster(sb.csize) - 2
         /\ Number(p) \in 0 .. sb.cfree - 1
<1> DEFINE room == RefsPerCluster(sb.csize) - 1
<1>1. /\ room \in Nat \ {0} /\ sb.crefs \in Nat /\ sb.cfree \in Nat
      /\ sb.tail.cluster = sb.crefs
      /\ sb.crefs > 0 => /\ (sb.crefs - 1) * room <= sb.cfree
                         /\ sb.tail.idx = sb.cfree - (sb.crefs - 1) * room
  BY DEF Sound
<1>2. p[1] \in 1 .. sb.crefs /\ p[2] \in 0 .. RefsPerCluster(sb.csize) - 2
      /\ (p[1] = sb.tail.cluster => p[2] < sb.tail.idx)
  BY DEF ListPositions
<1>3. p[2] \in 0 .. room - 1
  <2>1. RefsPerCluster(sb.csize) - 2 = room - 1
    <3>1. RefsPerCluster(sb.csize) - 1 \in Int => RefsPerCluster(sb.csize) \in Int
      BY FormatAssumption DEF RefsPerCluster, Sound
    <3> QED BY <3>1, <1>1
  <2> QED BY <1>2, <2>1
<1> DEFINE u == (p[1] - 1) * room
<1> DEFINE v == (sb.crefs - 1) * room
<1>4. u \in Nat /\ v \in Nat /\ Number(p) = u + p[2]
  BY <1>1, <1>2 DEF Number
<1>5. CASE p[1] = sb.crefs
  <2>1. v <= sb.cfree /\ p[2] < sb.cfree - v /\ u = v  BY <1>1, <1>2, <1>5
  <2> HIDE DEF u, v
  <2> QED BY <2>1, <1>1, <1>2, <1>3, <1>4
<1>6. CASE p[1] # sb.crefs
  <2>1. u + room <= v
    <3>0. p[1] \in 1 .. sb.crefs /\ sb.crefs \in Nat  BY <1>1, <1>2
    <3>1. p[1] - 1 \in Nat /\ sb.crefs - 1 \in Nat /\ p[1] - 1 < sb.crefs - 1
      BY ONLY <3>0, <1>6
    <3> QED BY <3>1, <1>1, Times
  <2>2. v <= sb.cfree  BY <1>1, <1>2
  <2> HIDE DEF u, v
  <2> QED BY <2>1, <2>2, <1>1, <1>2, <1>3, <1>4
<1> QED BY <1>2, <1>5, <1>6

\* ... and every number below cfree has exactly one position.
LEMMA PositionOf ==
  ASSUME Sound(sb, arg.ntotal), NEW n \in 0 .. sb.cfree - 1
  PROVE  LET room == RefsPerCluster(sb.csize) - 1
             p == <<(n \div room) + 1, n % room>>
         IN  p \in ListPositions /\ Number(p) = n
<1> DEFINE room == RefsPerCluster(sb.csize) - 1
<1> DEFINE p == <<(n \div room) + 1, n % room>>
<1>1. /\ room \in Nat \ {0} /\ sb.crefs \in Nat /\ sb.cfree \in Nat
      /\ sb.tail.cluster = sb.crefs /\ sb.cfree <= sb.crefs * room
      /\ sb.crefs > 0 => sb.tail.idx = sb.cfree - (sb.crefs - 1) * room
  BY DEF Sound
<1>2. n \in Nat /\ n < sb.cfree  BY <1>1
<1> DEFINE q == n \div room
<1> DEFINE r == n % room
<1>3. q \in Nat /\ r \in 0 .. room - 1 /\ n = q * room + r
  <2> HIDE DEF room
  <2> QED BY <1>1, <1>2, DivMod
<1> HIDE DEF q, r
<1> DEFINE u == q * room
<1>4. u \in Nat /\ n = u + r  BY <1>1, <1>3
<1>5. q < sb.crefs
  <2> SUFFICES ASSUME ~ (q < sb.crefs) PROVE FALSE  OBVIOUS
  <2>1. sb.crefs * room <= q * room
    <3>1. CASE sb.crefs = q  BY <3>1, <1>1, <1>4
    <3>2. CASE sb.crefs < q
      <4>1. sb.crefs * room + room <= q * room /\ sb.crefs * room \in Nat
        BY <3>2, <1>1, <1>3, Times
      <4> HIDE DEF u, room
      <4> QED BY <4>1, <1>1, <1>4 DEF u
    <3>3. sb.crefs = q \/ sb.crefs < q
      BY <1>1, <1>3
    <3> QED BY <3>1, <3>2, <3>3
  <2> DEFINE w == sb.crefs * room
  <2>2. w <= u /\ sb.cfree <= w /\ w \in Nat  BY <2>1, <1>1
  <2> HIDE DEF u, w
  <2> QED BY <2>2, <1>1, <1>2, <1>3, <1>4
<1>6. p = <<q + 1, r>> /\ p[1] = q + 1 /\ p[2] = r  BY DEF q, r
<1>7. Number(p) = n
  <2>1. p[1] - 1 = q  BY <1>6, <1>3
  <2> QED BY <2>1, <1>4, <1>6 DEF Number
<1>8. p \in ListPositions
  <2>1. q + 1 \in 1 .. sb.crefs  BY <1>1, <1>3, <1>5
  <2>2. r \in 0 .. RefsPerCluster(sb.csize) - 2
    <3>1. RefsPerCluster(sb.csize) \in Int
      BY FormatAssumption DEF RefsPerCluster, Sound
    <3> QED BY <3>1, <1>3
  <2>3. q + 1 = sb.crefs => r < sb.tail.idx
    <3> SUFFICES ASSUME q + 1 = sb.crefs PROVE r < sb.tail.idx  OBVIOUS
    <3>1. sb.crefs - 1 = q  BY <1>1, <1>3
    <3>2. sb.tail.idx = sb.cfree - u  BY <3>1, <1>1, <1>5
    <3> HIDE DEF u
    <3> QED BY <3>2, <1>1, <1>2, <1>3, <1>4
  <2> HIDE DEF p
  <2> QED BY <2>1, <2>2, <2>3, <1>1, <1>6 DEF ListPositions
<1> QED BY <1>7, <1>8

\* Two positions with one number are one.
LEMMA NumberOnce ==
  ASSUME Sound(sb, arg.ntotal), NEW p \in ListPositions, NEW q \in ListPositions,
         Number(p) = Number(q)
  PROVE  p = q
<1> DEFINE room == RefsPerCluster(sb.csize) - 1
<1>1. room \in Nat \ {0} /\ sb.crefs \in Nat /\ RefsPerCluster(sb.csize) \in Int
  BY FormatAssumption DEF Sound, RefsPerCluster
<1>2. /\ p[1] - 1 \in Nat /\ p[2] \in 0 .. room - 1
      /\ q[1] - 1 \in Nat /\ q[2] \in 0 .. room - 1
      /\ p[1] \in Nat /\ q[1] \in Nat
  BY <1>1 DEF ListPositions
<1> DEFINE c == p[1] - 1
<1> DEFINE d == q[1] - 1
<1>3. c * room + p[2] = d * room + q[2]  BY DEF Number
<1> HIDE DEF room, c, d
<1>4. c \in Nat /\ d \in Nat  BY <1>2 DEF c, d
<1>5. p[2] = q[2]
  <2>1. (c * room + p[2]) % room = p[2]  BY <1>1, <1>2, <1>4, Remainder
  <2>2. (d * room + q[2]) % room = q[2]  BY <1>1, <1>2, <1>4, Remainder
  <2> QED BY <2>1, <2>2, <1>3
<1>6. c = d
  <2>1. (c * room) \div room = c /\ (d * room) \div room = d
    BY <1>1, <1>4, Multiple
  <2>2. c * room = d * room
    <3> DEFINE u == c * room
    <3> DEFINE v == d * room
    <3>1. u \in Nat /\ v \in Nat /\ u + p[2] = v + q[2] /\ p[2] \in Nat
      BY <1>1, <1>2, <1>3, <1>4
    <3> HIDE DEF u, v
    <3>2. u = v  BY <3>1, <1>5
    <3> QED BY <3>2 DEF u, v
  <2> QED BY <2>1, <2>2
<1>7. p[1] = q[1]  BY <1>2, <1>6 DEF c, d
<1>8. p = <<p[1], p[2]>> /\ q = <<q[1], q[2]>>  BY DEF ListPositions
<1> QED BY <1>5, <1>7, <1>8

\* There are cfree positions.
LEMMA PositionsCounted ==
  ASSUME Sound(sb, arg.ntotal)
  PROVE  Cardinality(ListPositions) = sb.cfree
<1> DEFINE room == RefsPerCluster(sb.csize) - 1
<1> DEFINE S == 0 .. sb.cfree - 1
<1> DEFINE g == [n \in S |-> <<(n \div room) + 1, n % room>>]
<1>1. sb.cfree \in Nat  BY DEF Sound
<1>2. \A n \in S : g[n] \in ListPositions /\ Number(g[n]) = n
  BY PositionOf
<1> HIDE DEF g
<1>3. g \in [S -> ListPositions]  BY <1>2 DEF g
<1>4. IsInjective(g)
  <2> SUFFICES ASSUME NEW a \in S, NEW b \in S, g[a] = g[b] PROVE a = b
    BY <1>3 DEF IsInjective
  <2> QED BY <1>2
<1>5. \A p \in ListPositions : \E n \in S : g[n] = p
  <2> SUFFICES ASSUME NEW p \in ListPositions PROVE \E n \in S : g[n] = p
    OBVIOUS
  <2>1. Number(p) \in S  BY NumberBelow
  <2>2. g[Number(p)] \in ListPositions /\ Number(g[Number(p)]) = Number(p)
    BY <2>1, <1>2
  <2>3. g[Number(p)] = p  BY <2>2, NumberOnce
  <2> QED BY <2>1, <2>3
<1>6. g \in Bijection(S, ListPositions)
  BY <1>3, <1>4, <1>5 DEF Bijection, Injection, Surjection
<1>7. IsFiniteSet(S) /\ Cardinality(S) = sb.cfree
  <2>1. 0 \in Int /\ sb.cfree - 1 \in Int  BY <1>1
  <2>2. IsFiniteSet(S) /\ Cardinality(S) = IF 0 > sb.cfree - 1 THEN 0 ELSE sb.cfree - 1 - 0 + 1
    BY <2>1, FS_Interval
  <2> QED BY <2>2, <1>1
<1> HIDE DEF S
<1> QED BY <1>6, <1>7, FS_Bijection DEF ExistsBijection

\* The reference at position p is the free cluster of its number.
LEMMA RefAtPosition ==
  ASSUME Sound(sb, arg.ntotal), Lists(1, sb.crefs), NEW p \in ListPositions
  PROVE  RefAt(p[1], p[2]) = 1 + sb.crefs + Number(p)
<1> DEFINE rpc == RefsPerCluster(sb.csize)
<1>1. /\ sb.crefs \in Nat /\ sb.cfree \in Nat /\ sb.ctotal \in Nat
      /\ 1 + sb.crefs + sb.cfree = sb.ctotal /\ rpc \in Int
  BY FormatAssumption DEF Sound, RefsPerCluster
<1>2. p[1] \in 1 .. sb.crefs /\ p[2] \in 0 .. rpc - 2 /\ Number(p) \in 0 .. sb.cfree - 1
  BY NumberBelow
<1>3. blk[ClusterStart(p[1])] = RefBlock(p[1] - 1)  BY <1>2 DEF Lists
<1>4. RefAt(p[1], p[2]) = Reference(sb.ctotal, sb.cfree, rpc, p[1] - 1, p[2])
  <2>1. p[2] \in 0 .. rpc - 1  BY <1>1, <1>2
  <2> QED BY <2>1, <1>3 DEF RefAt, RefBlock, ReferenceCluster
<1> DEFINE u == (p[1] - 1) * (rpc - 1)
<1> DEFINE listed == sb.ctotal - sb.cfree + u + p[2]
<1>5. listed = 1 + sb.crefs + Number(p) /\ listed < sb.ctotal /\ p[2] # rpc - 1
  <2>1. Number(p) = u + p[2]  BY DEF Number
  <2>2. u \in Int  BY <1>1, <1>2
  <2> HIDE DEF u, rpc
  <2> QED BY <2>1, <2>2, <1>1, <1>2
<1>6. ~ (listed >= sb.ctotal)  
  <2>1. Number(p) \in Int /\ listed = 1 + sb.crefs + Number(p)  BY <1>2, <1>5
  <2> HIDE DEF listed
  <2> QED BY <2>1, <1>1, <1>5
<1>7. Reference(sb.ctotal, sb.cfree, rpc, p[1] - 1, p[2]) = listed
  <2> HIDE DEF rpc
  <2> QED BY <1>5, <1>6 DEF Reference
<1> QED BY <1>4, <1>5, <1>7

\* The reference clusters list the free clusters, each once.
LEMMA ClustersListed == IInv => FreeClustersListedOnce
<1> SUFFICES ASSUME IInv, stage = "done"
             PROVE  LET free == sb.crefs + 1 .. sb.ctotal - 1 IN
                    /\ {RefAt(p[1], p[2]) : p \in ListPositions} = free
                    /\ Cardinality(ListPositions) = sb.cfree
                    /\ Cardinality(free) = sb.cfree
  BY DEF FreeClustersListedOnce
<1>1. Sound(sb, arg.ntotal) /\ Lists(1, sb.crefs)
  BY DEF IInv, AtDone, AtSave, Fits
<1>2. /\ sb.crefs \in Nat /\ sb.cfree \in Nat /\ sb.ctotal \in Nat
      /\ 1 + sb.crefs + sb.cfree = sb.ctotal
  BY <1>1 DEF Sound
<1> DEFINE free == sb.crefs + 1 .. sb.ctotal - 1
<1>3. ASSUME NEW p \in ListPositions PROVE RefAt(p[1], p[2]) \in free
  <2>1. RefAt(p[1], p[2]) = 1 + sb.crefs + Number(p)  BY <1>1, RefAtPosition
  <2>2. Number(p) \in 0 .. sb.cfree - 1  BY <1>1, NumberBelow
  <2> QED BY <2>1, <2>2, <1>2
<1>4. ASSUME NEW c \in free
      PROVE  \E p \in ListPositions : c = RefAt(p[1], p[2])
  <2> DEFINE n == c - (1 + sb.crefs)
  <2>1. n \in 0 .. sb.cfree - 1 /\ c = 1 + sb.crefs + n  BY <1>2
  <2> HIDE DEF n
  <2>2. PICK p \in ListPositions : Number(p) = n  BY <2>1, <1>1, PositionOf
  <2>3. RefAt(p[1], p[2]) = c  BY <2>1, <2>2, <1>1, RefAtPosition
  <2> QED BY <2>3
<1>5. {RefAt(p[1], p[2]) : p \in ListPositions} = free  BY <1>3, <1>4
<1>6. Cardinality(free) = sb.cfree
  <2>1. sb.crefs + 1 \in Int /\ sb.ctotal - 1 \in Int  BY <1>2
  <2>2. Cardinality(free) = IF sb.crefs + 1 > sb.ctotal - 1 THEN 0
                            ELSE (sb.ctotal - 1) - (sb.crefs + 1) + 1
    BY <2>1, FS_Interval
  <2> QED BY <2>2, <1>2
<1> QED BY <1>1, <1>5, <1>6, PositionsCounted

-----------------------------------------------------------------------------
(* The list of free inodes *)

\* The table has a block: inodes are asked for, or main's own choice, one in
\* eight blocks, is not zero.  Without it the root directory has no inode
\* (RootInodeInUse, which tiny devices violate).
TableNeeded == \A d \in Devices, i \in InodeCounts : i # 0 \/ d >= 8

\* What the table on an installed device says of each inode.
LEMMA DiskInodes ==
  ASSUME Fits, NEW in \in 0 .. sb.itotal - 1
  PROVE  DiskInode(in) = [free |-> in # 0, next |-> InodeNext(sb.itotal, in)]
<1>1. /\ sb.itsize \in Nat /\ sb.itstart = 1 /\ sb.itotal = sb.itsize * IPB
      /\ Table(0, sb.itsize - 1) /\ IPB \in Nat \ {0}
  BY FormatAssumption DEF Fits, Sound
<1>2. in \in Nat /\ in < sb.itsize * IPB
  <2> DEFINE u == sb.itsize * IPB
  <2>1. u \in Nat /\ sb.itotal = u  BY <1>1
  <2> HIDE DEF u
  <2>2. in \in Nat /\ in < u  BY <2>1
  <2> QED BY <2>2 DEF u
<1> DEFINE q == in \div IPB
<1> DEFINE r == in % IPB
<1>3. q \in Nat /\ r \in 0 .. IPB - 1 /\ in = q * IPB + r
  BY <1>1, <1>2, DivMod
<1> HIDE DEF q, r
<1>4. q \in 0 .. sb.itsize - 1
  <2> SUFFICES ASSUME ~ (q < sb.itsize) PROVE FALSE  BY <1>1, <1>3
  <2> DEFINE u == q * IPB
  <2> DEFINE v == sb.itsize * IPB
  <2>1. u \in Nat /\ v \in Nat /\ in = u + r /\ in < v  BY <1>1, <1>2, <1>3
  <2>2. v <= u
    <3>1. CASE sb.itsize = q  BY <3>1, <2>1
    <3>2. CASE sb.itsize < q
      <4>1. v + IPB <= u  BY <3>2, <1>1, <1>3, Times
      <4> HIDE DEF u, v
      <4> QED BY <4>1, <2>1, <1>1
    <3> QED BY <3>1, <3>2, <1>1, <1>3
  <2> HIDE DEF u, v
  <2> QED BY <2>1, <2>2, <1>1, <1>3
<1>5. blk[1 + q] = InodeBlock(q)
  <2>1. blk[q + 1] = InodeBlock(q)  BY <1>1, <1>4 DEF Table
  <2>2. q + 1 = 1 + q  BY <1>3
  <2> QED BY <2>1, <2>2
<1>6. /\ InodeBlock(q).free[r] = InodeIsFree(q * IPB + r)
      /\ InodeBlock(q).next[r] = InodeNext(sb.itotal, q * IPB + r)
  BY <1>3 DEF InodeBlock
<1>7. DiskInode(in) = [free |-> InodeBlock(q).free[r], next |-> InodeBlock(q).next[r]]
  <2>1. blk[sb.itstart + in \div IPB] = InodeBlock(q)  BY <1>1, <1>5 DEF q
  <2> QED BY <2>1 DEF DiskInode, r
<1>8. InodeIsFree(q * IPB + r) = (in # 0)  BY <1>3 DEF InodeIsFree
<1>9. InodeNext(sb.itotal, q * IPB + r) = InodeNext(sb.itotal, in)  BY <1>3
<1> QED BY <1>6, <1>7, <1>8, <1>9

\* The table lists every inode but the root's, from ihead to itail.
LEMMA InodesListed == ASSUME TableNeeded PROVE IInv => InodesListedOnce
<1> SUFFICES ASSUME IInv, stage = "done" PROVE InodesListedOnce
  BY DEF InodesListedOnce
<1>1. Fits /\ ArgOK /\ Computed  BY DEF IInv, AtDone, AtSave, Fits
<1>2. sb.itsize > 0
  <2>1. arg.ntotal \in Devices /\ arg.itotal \in InodeCounts  BY <1>1 DEF ArgOK
  <2>2. arg.itotal # 0 \/ arg.ntotal >= 8  BY <2>1 DEF TableNeeded
  <2>3. arg.ntotal \in Nat /\ RequestedInodes \in Nat  BY <1>1, Arguments
  <2>4. RequestedInodes > 0
    <3>1. CASE arg.itotal # 0  BY <3>1, <2>3 DEF RequestedInodes
    <3>2. CASE arg.itotal = 0
      <4>1. arg.ntotal \div 8 > 0  BY <3>2, <2>2, <2>3
      <4> QED BY <4>1, <3>2 DEF RequestedInodes
    <3> QED BY <3>1, <3>2
  <2> QED BY <2>4, <1>1, TableSize
<1>3. /\ sb.itotal \in Nat /\ sb.itotal > 1
      /\ sb.ihead = 1 /\ sb.itail = sb.itotal - 1 /\ sb.ifree = sb.itotal - 1
  <2>1. /\ sb.itsize \in Nat /\ sb.itotal = sb.itsize * IPB
        /\ sb.ihead = 1 /\ sb.itail = sb.itotal - 1 /\ sb.ifree = sb.itotal - 1
    BY <1>1, <1>2 DEF Fits, Sound
  <2>2. IPB \in Nat /\ IPB > 1  BY FormatAssumption, MksofsAssumption
  <2>3. 0 * IPB + IPB <= sb.itsize * IPB  BY <1>2, <2>1, <2>2, Times
  <2>4. 0 * IPB = 0 /\ sb.itsize * IPB \in Nat  BY <2>1, <2>2
  <2> DEFINE u == sb.itsize * IPB
  <2>5. IPB <= u /\ u \in Nat /\ sb.itotal = u  BY <2>1, <2>2, <2>3, <2>4
  <2> HIDE DEF u
  <2> QED BY <2>1, <2>2, <2>5
<1>4. \A in \in 0 .. sb.itotal - 1 :
        DiskInode(in) = [free |-> in # 0, next |-> InodeNext(sb.itotal, in)]
  BY <1>1, DiskInodes
<1> DEFINE free == {in \in 0 .. sb.itotal - 1 : DiskInode(in).free}
<1> DEFINE next == [in \in free |-> DiskInode(in).next]
<1>5. free = 1 .. sb.itotal - 1
  <2>1. ASSUME NEW in \in 0 .. sb.itotal - 1
        PROVE  DiskInode(in).free <=> in # 0
    <3>1. DiskInode(in).free = (in # 0)  BY <1>4
    <3> QED BY <3>1
  <2>2. \A in : in \in free <=> in \in 0 .. sb.itotal - 1 /\ in # 0  BY <2>1
  <2> HIDE DEF free
  <2>3. \A in : in \in 0 .. sb.itotal - 1 /\ in # 0 <=> in \in 1 .. sb.itotal - 1
    BY <1>3
  <2> QED BY <2>2, <2>3
<1>6. ASSUME NEW in \in free
      PROVE  /\ in \in Nat /\ in >= 1 /\ in <= sb.itotal - 1
             /\ next[in] = IF in = sb.itotal - 1 THEN NULL_REFERENCE ELSE in + 1
  <2>1. in \in 0 .. sb.itotal - 1  OBVIOUS
  <2>2. DiskInode(in).next = InodeNext(sb.itotal, in)  BY <2>1, <1>4
  <2>3. next[in] = DiskInode(in).next  OBVIOUS
  <2> HIDE DEF next
  <2> QED BY <1>5, <1>6, <1>3, <2>2, <2>3 DEF InodeNext
<1>7. DOMAIN next = free  OBVIOUS
<1>8. Cardinality(free) = sb.ifree
  <2>1. 1 \in Int /\ sb.itotal - 1 \in Int  BY <1>3
  <2>2. Cardinality(1 .. sb.itotal - 1) =
          IF 1 > sb.itotal - 1 THEN 0 ELSE (sb.itotal - 1) - 1 + 1
    BY <2>1, FS_Interval
  <2> HIDE DEF free
  <2>3. Cardinality(free) = Cardinality(1 .. sb.itotal - 1)  BY <1>5
  <2>4. Cardinality(1 .. sb.itotal - 1) = sb.itotal - 1  BY <2>2, <1>3
  <2> QED BY <2>3, <2>4, <1>3
<1> HIDE DEF free, next
<1>9. sb.ihead \in free /\ sb.itail \in free /\ next[sb.itail] = NULL_REFERENCE
  <2>1. sb.ihead \in free /\ sb.itail \in free  BY <1>3, <1>5
  <2> QED BY <2>1, <1>3, <1>6
<1>10. Range(next) = (free \ {sb.ihead}) \cup {NULL_REFERENCE}
  <2>1. ASSUME NEW in \in free
        PROVE  next[in] \in (free \ {sb.ihead}) \cup {NULL_REFERENCE}
    <3>1. CASE in = sb.itotal - 1  BY <3>1, <1>6
    <3>2. CASE in # sb.itotal - 1
      <4>1. next[in] = in + 1 /\ in \in Nat /\ in >= 1 /\ in <= sb.itotal - 1
        BY <3>2, <1>6
      <4>2. in + 1 \in 1 .. sb.itotal - 1 /\ in + 1 # 1  BY <4>1, <3>2, <1>3
      <4> QED BY <4>1, <4>2, <1>3, <1>5
    <3> QED BY <3>1, <3>2
  <2>2. ASSUME NEW x \in free \ {sb.ihead}
        PROVE  \E in \in free : next[in] = x
    <3>1. x \in 1 .. sb.itotal - 1 /\ x # 1  BY <1>3, <1>5
    <3>2. x - 1 \in 1 .. sb.itotal - 1 /\ x - 1 # sb.itotal - 1 /\ (x - 1) + 1 = x
      BY <3>1, <1>3
    <3>3. x - 1 \in free  BY <3>2, <1>5
    <3>4. next[x - 1] = x  BY <3>2, <3>3, <1>6
    <3> QED BY <3>3, <3>4
  <2>3. \E in \in free : next[in] = NULL_REFERENCE  BY <1>9
  <2> QED BY <2>1, <2>2, <2>3, <1>7 DEF Range
<1>11. \A in \in free \ {sb.itail} : next[in] > in
  <2> SUFFICES ASSUME NEW in \in free, in # sb.itail PROVE next[in] > in  OBVIOUS
  <2>1. next[in] = in + 1 /\ in \in Nat  BY <1>3, <1>6
  <2> QED BY <2>1
<1> QED BY <1>5, <1>8, <1>9, <1>10, <1>11 DEF InodesListedOnce, free, next

\* On a device reported as installed both free lists, from which the routines of
\* freelists/ start, are complete and agree with the superblock's counters.
THEOREM FreeListsWritten == ASSUME TableNeeded PROVE Spec => []FreeListsComplete
<1>1. IInv => FreeListsComplete
  BY ClustersListed, InodesListed DEF FreeListsComplete
<1> QED BY <1>1, Invariance, PTL

=============================================================================
