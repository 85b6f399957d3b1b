------------------------------ MODULE Namespace ------------------------------
(***************************************************************************)
(* The tree of names that the system calls of SOFS16 keep: soMknod,          *)
(* soSymlink, soMkdir, soLink, soUnlink, soRmdir and soRename, with the      *)
(* reference counts of the inodes and the inodes taken and given back.       *)
(* sofsmount runs every call under one mutex, so a call is one step; what    *)
(* makes it hard is that a call which fails half way undoes nothing.         *)
(*                                                                         *)
(* A directory is a partial function (Directory), the list of free inodes a  *)
(* set (FreeInodes).  soAllocFileCluster may throw ENOSPC whenever a         *)
(* directory needs one more cluster; directories may always be searched. A   *)
(* call that fails before it has changed anything is no step.  Symbolic      *)
(* links are files here, as they are for the code: S_IFLNK contains S_IFREG. *)
(***************************************************************************)
EXTENDS Integers, FiniteSets, Functions

CONSTANTS
  Inode, Root,     \* the inode numbers; the root directory's
  Name,            \* the names a user may choose
  Dot, DotDot,     \* "." and ".."
  DPC,             \* entries per cluster
  MAX_REF_COUNT,   \* the largest reference count
  Protected        \* how many directories may be without write permission

\* The inode table has an end and a name fits its field, so both are finite.
ASSUME NamespaceAssumption ==
  /\ IsFiniteSet(Inode) /\ IsFiniteSet(Name)
  /\ Root \in Inode /\ {Dot, DotDot} \cap Name = {} /\ Dot # DotDot
  /\ DPC \in Nat \ {0, 1} /\ MAX_REF_COUNT \in Nat \ {0, 1}

VARIABLES
  type,      \* of every inode: "free", "file" or "dir"
  refcount,  \* of every inode
  dir,       \* the entries of every inode
  writable,  \* the directories whose owner may write
  pool,      \* the inodes soAllocInode can still reach
  \* Histories:
  linked,    \* the inodes soLink has given a second name
  lost,      \* those a failed creation has taken, those soRename took the name from
  half       \* the directories a call that failed half way, or soRename over a
             \* directory, left with a wrong ".." or reference count
vars == <<type, refcount, dir, writable, pool, linked, lost, half>>

Dirs == {d \in Inode : type[d] = "dir"}
UserNames(d) == DOMAIN dir[d] \cap Name
NoEntries == [n \in {} |-> Root]
\* The entries of a new directory c in directory d.
Dots(c, d) == [m \in {Dot, DotDot} |-> IF m = Dot THEN c ELSE d]

Init ==
  /\ type = [i \in Inode |-> IF i = Root THEN "dir" ELSE "free"]
  /\ refcount = [i \in Inode |-> IF i = Root THEN 2 ELSE 0]
  /\ dir = [i \in Inode |-> IF i = Root THEN Dots(Root, Root) ELSE NoEntries]
  /\ writable = {Root}
  /\ pool = Inode \ {Root}
  /\ linked = {} /\ lost = {} /\ half = {}

-----------------------------------------------------------------------------
(* What a path can lead to.  soTraversePath goes from an inode through        *)
(* directories in use, one name at a time: the least set that it stays in.    *)
Children(S) == UNION {{dir[d][n] : n \in UserNames(d)} : d \in S \cap Dirs}
From(S) ==
  LET stays == {X \in SUBSET Inode : S \subseteq X /\ Children(X) \subseteq X}
  IN  {i \in Inode : \A X \in stays : i \in X}
ReachedDirs == From({Root}) \cap Dirs

\* soAddDirEntry and soDeleteDirEntry on the entries f of a directory.
With(f, n, i) == [m \in DOMAIN f \cup {n} |-> IF m = n THEN i ELSE f[m]]
Without(f, n) == Restrict(f, DOMAIN f \ {n})
NeedsCluster(f) == Cardinality(DOMAIN f) % DPC = 0

\* iIncRefcount throws at the limit, iDecRefcount stops at 0.
AtLimit(i) == refcount[i] = MAX_REF_COUNT
Inc(i) == IF AtLimit(i) THEN refcount[i] ELSE refcount[i] + 1
\* A mutant: the count is not taken back.
DecNothing(i) == refcount[i]
Dec(i) == IF refcount[i] > 0 THEN refcount[i] - 1 ELSE 0

\* soAllocInode.
Take(c, t) == pool' = pool \ {c} /\ type' = [type EXCEPT ![c] = t]

\* soFreeInode.  Once the list has been emptied nothing comes back into it.
GiveBack(i) ==
  /\ pool' = IF pool = {} \/ type[i] = "free" THEN pool ELSE pool \cup {i}
  /\ type' = [type EXCEPT ![i] = "free"]
  /\ writable' = writable \ {i}
  /\ lost' = lost \ {i}
  /\ half' = half \ {i}

-----------------------------------------------------------------------------
(* Creating.  The inode is taken first; if its entry finds no cluster it is  *)
(* not given back.                                                           *)
MayCreate(d, n) == d \in writable /\ n \notin DOMAIN dir[d]

CreateFile(d, n, mayFail, count) ==
  /\ MayCreate(d, n)
  /\ \E c \in pool :
       /\ Take(c, "file")
       /\ UNCHANGED <<writable, linked, half>>
       /\ \/ /\ mayFail
             /\ lost' = lost \cup {c}
             /\ refcount' = [refcount EXCEPT ![c] = count]
             /\ UNCHANGED dir
          \/ /\ dir' = [dir EXCEPT ![d] = With(@, n, c)]
             /\ refcount' = [refcount EXCEPT ![c] = 1]
             /\ UNCHANGED lost

soMknod(d, n) == CreateFile(d, n, NeedsCluster(dir[d]), 0)

\* The path it stores needs a cluster too; the count comes before.
soSymlink(d, n) == CreateFile(d, n, TRUE, 1)

\* The mode is set before ".", so that a directory its owner may not write
\* cannot be made.
soMkdir(d, n, mayWrite) ==
  /\ MayCreate(d, n)
  /\ \E c \in pool :
       /\ Take(c, "dir")
       /\ writable' = IF mayWrite THEN writable \cup {c} ELSE writable
       /\ UNCHANGED linked
       /\ \/ /\ lost' = lost \cup {c}
             /\ UNCHANGED <<dir, refcount, half>>
          \/ /\ mayWrite /\ NeedsCluster(dir[d])
             /\ lost' = lost \cup {c}
             /\ dir' = [dir EXCEPT ![c] = Dots(c, d)]
             /\ refcount' = [refcount EXCEPT ![c] = 2]
             /\ UNCHANGED half
          \/ /\ mayWrite
             /\ dir' = [dir EXCEPT ![c] = Dots(c, d), ![d] = With(@, n, c)]
             /\ refcount' = [refcount EXCEPT ![c] = 2, ![d] = Inc(d)]
             /\ half' = IF AtLimit(d) THEN half \cup {d} ELSE half
             /\ UNCHANGED lost

\* Of the new path only the last name counts: the entry goes into the
\* directory of the old one, and is there when the count is at its limit.
soLink(d, n, new) ==
  /\ d \in writable /\ n \in UserNames(d) /\ new \notin DOMAIN dir[d]
  /\ LET i == dir[d][n] IN
     /\ type[i] = "file"
     /\ dir' = [dir EXCEPT ![d] = With(@, new, i)]
     /\ refcount' = [refcount EXCEPT ![i] = Inc(i)]
     /\ linked' = linked \cup {i}
  /\ UNCHANGED <<type, writable, pool, lost, half>>

-----------------------------------------------------------------------------
(* Deleting.  The kernel sends soUnlink what is no directory only.           *)

\* A mutant: the inode goes and the entry stays.
soUnlinkKeepsEntry(d, n) ==
  /\ d \in writable /\ n \in UserNames(d)
  /\ LET i == dir[d][n] IN
     /\ type[i] # "dir"
     /\ refcount' = [refcount EXCEPT ![i] = Dec(i)]
     /\ IF Dec(i) = 0 THEN GiveBack(i) ELSE UNCHANGED <<type, pool, writable, lost, half>>
  /\ UNCHANGED <<dir, linked>>

soUnlink(d, n) ==
  /\ d \in writable /\ n \in UserNames(d)
  /\ LET i == dir[d][n] IN
     /\ type[i] # "dir"
     /\ refcount' = [refcount EXCEPT ![i] = Dec(i)]
     /\ IF Dec(i) = 0
          THEN dir' = [dir EXCEPT ![d] = Without(@, n)] /\ GiveBack(i)
          ELSE UNCHANGED <<dir, type, pool, writable, lost, half>>
  /\ UNCHANGED linked

\* A mutant: a directory with more than its two entries is empty too.
EmptyOrMore(c) == {Dot, DotDot} \subseteq DOMAIN dir[c]
Empty(c) == DOMAIN dir[c] = {Dot, DotDot}

\* Of the parent it asks for permission to search, and finds out that it may
\* not write when "." and ".." are gone.
soRmdir(d, n) ==
  /\ n \in UserNames(d)
  /\ LET c == dir[d][n] IN
     /\ c \in Dirs \cap writable /\ Empty(c)
     /\ IF d \in writable
          THEN /\ dir' = [dir EXCEPT ![c] = NoEntries, ![d] = Without(@, n)]
               /\ refcount' = [refcount EXCEPT ![c] = 0, ![d] = Dec(d)]
               /\ GiveBack(c)
          ELSE /\ dir' = [dir EXCEPT ![c] = NoEntries]
               /\ half' = half \cup {c}
               /\ UNCHANGED <<type, refcount, writable, pool, lost>>
  /\ UNCHANGED linked

-----------------------------------------------------------------------------
(* soRename deletes what has the new name before it has looked at any        *)
(* permission, and gives nobody's inode back.  The kernel refuses to put a   *)
(* directory over a file or a file over a directory, a directory into what   *)
(* is below it, and one over what is above it.                               *)
Kernel(d, n, d2, n2) ==
  LET i == dir[d][n] IN
  /\ type[i] # "free"
  /\ i \in Dirs => d2 \notin From({i})
  /\ n2 \in DOMAIN dir[d2] =>
       LET t == dir[d2][n2] IN
       /\ type[t] \in {type[i], "free"}
       /\ t \in Dirs => d \notin From({t})

\* A mutant: the moved directory keeps its "..".
ParentedBefore(f, i, d2) == f
Parented(f, i, d2) == [f EXCEPT ![i] = With(@, DotDot, d2)]

\* The entry is at its new place; a directory now has to learn of it, which
\* takes permission to write it and a ".." to replace.  iDecRefcount comes
\* after iIncRefcount, which may throw.
Settle(moved, i, d, d2, wrong) ==
  IF type[i] # "dir" THEN dir' = moved /\ half' = wrong /\ UNCHANGED refcount
  ELSE IF i \notin writable \/ DotDot \notin DOMAIN moved[i]
    THEN /\ dir' = moved
         /\ half' = wrong \cup IF d = d2 THEN {} ELSE {i, d, d2}
         /\ UNCHANGED refcount
  ELSE /\ dir' = Parented(moved, i, d2)
       /\ half' = wrong \cup IF AtLimit(d2) /\ d # d2 THEN {d, d2} ELSE {}
       /\ refcount' = IF AtLimit(d2) \/ d = d2 THEN refcount
                      ELSE [refcount EXCEPT ![d2] = Inc(d2), ![d] = Dec(d)]

\* A mutant: the old name stays.
TakenKept(over, d, n) == over
Taken(over, d, n) == [over EXCEPT ![d] = Without(@, n)]

soRename(d, n, d2, n2) ==
  /\ n \in UserNames(d) /\ <<d, n>> # <<d2, n2>>
  /\ Kernel(d, n, d2, n2)
  /\ LET i == dir[d][n]
         target == {dir[d2][n2] : m \in {n2} \cap DOMAIN dir[d2]}
         over == [dir EXCEPT ![d2] = Without(@, n2)]
         taken == Taken(over, d, n)
         nameless == lost \cup {t \in target : type[t] # "free"}
         wrong == half \cup IF target \cap Dirs = {} THEN {} ELSE {d2}
     IN
     \/ /\ target # {} /\ d2 \in writable /\ d \notin writable
        /\ dir' = over /\ lost' = nameless /\ half' = wrong
        /\ UNCHANGED refcount
     \/ /\ {d, d2} \subseteq writable /\ NeedsCluster(taken[d2])
        /\ dir' = taken /\ lost' = nameless \cup {i}
        /\ half' = wrong \cup IF i \in Dirs THEN {d} ELSE {}
        /\ UNCHANGED refcount
     \/ /\ {d, d2} \subseteq writable
        /\ Settle([taken EXCEPT ![d2] = With(@, n2, i)], i, d, d2, wrong)
        /\ lost' = nameless
  /\ UNCHANGED <<type, writable, pool, linked>>

\* soChmod, of a directory's owner; Protected at most are protected at a time.
Chmod(d) ==
  /\ d \in writable => Cardinality(ReachedDirs \ writable) < Protected
  /\ writable' = IF d \in writable THEN writable \ {d} ELSE writable \cup {d}
  /\ UNCHANGED <<type, refcount, dir, pool, linked, lost, half>>

\* Every path goes through soTraversePath.
Next ==
  LET reached == ReachedDirs IN
  \E d \in reached :
    \/ Chmod(d)
    \/ \E n \in Name :
         \/ soMknod(d, n) \/ soSymlink(d, n) \/ soUnlink(d, n) \/ soRmdir(d, n)
         \/ \E mayWrite \in BOOLEAN : soMkdir(d, n, mayWrite)
         \/ \E n2 \in Name :
              \/ soLink(d, n, n2)
              \/ \E d2 \in reached : soRename(d, n, d2, n2)

Spec == Init /\ [][Next]_vars

-----------------------------------------------------------------------------
Named == {e \in Inode \X Name : e[2] \in DOMAIN dir[e[1]]}
NamesOf(i) == {e \in Named : dir[e[1]][e[2]] = i}

(* Everything has its type; only directories have entries, and an inode that *)
(* soAllocInode can reach is free.                                           *)
TypeOK ==
  /\ type \in [Inode -> {"free", "file", "dir"}]
  /\ refcount \in [Inode -> 0 .. MAX_REF_COUNT]
  /\ \A i \in Inode : /\ DOMAIN dir[i] \subseteq Name \cup {Dot, DotDot}
                      /\ \A n \in DOMAIN dir[i] : dir[i][n] \in Inode
                      /\ i \notin Dirs => DOMAIN dir[i] = {}
  /\ type[Root] = "dir" /\ writable \subseteq Dirs
  /\ pool \subseteq {i \in Inode : type[i] = "free"}

(* No name stands for an inode that has been given back, unless the inode had *)
(* a second name, which soUnlink may have counted down in place of this one.  *)
NoDangling ==
  /\ TypeOK
  /\ \A e \in Named : LET i == dir[e[1]][e[2]] IN type[i] = "free" => i \in linked

(* Nothing but soLink gives an inode two names: no call that moves, takes     *)
(* again or gives back leaves a name behind.                                  *)
OneName == \A i \in Inode \ linked : Cardinality(NamesOf(i)) <= 1

(* Whatever is in use can be reached from the root; what cannot is below an   *)
(* inode that a creation had taken before it failed, or that lost its name to *)
(* soRename.  Deletion and failure lose nothing else.                         *)
NothingElseLost == {i \in Inode : type[i] # "free"} \subseteq From({Root} \cup lost)

(* Without hard links, ".." is the directory that has the name, whatever was  *)
(* moved, replaced and deleted, except where a call failed half way.          *)
ParentIsParent ==
  linked = {} =>
    \A e \in Named : LET c == dir[e[1]][e[2]] IN
      c \in Dirs \ half => DotDot \in DOMAIN dir[c] /\ dir[c][DotDot] = e[1]

(* Without hard links, a file's count is one and a directory's two and one    *)
(* more for every directory in it, with the same exceptions.                  *)
CountsNames ==
  linked = {} =>
    \A i \in Inode \ (lost \cup half) :
      /\ type[i] = "file" => refcount[i] = 1
      /\ i \in Dirs => refcount[i] =
           2 + Cardinality({n \in UserNames(i) : dir[i][n] \in Dirs})

(* Violated: whoever counts an inode down has removed an entry that names it  *)
(* (refcount, inode.h: the number of directory entries).  soUnlink counts     *)
(* down, and keeps the entry unless the count is 0.                           *)
Entries(i) == {e \in Inode \X (Name \cup {Dot, DotDot}) :
                 e[2] \in DOMAIN dir[e[1]] /\ dir[e[1]][e[2]] = i}
CountedDownWithEntry ==
  [][\A i \in Inode : refcount'[i] < refcount[i] =>
       Cardinality(Entries(i)') < Cardinality(Entries(i))]_vars
=============================================================================
