------------------------------ MODULE Directory ------------------------------
(***************************************************************************)
(* What the operations on directory entries promise (direntries.h): a       *)
(* directory is a partial function from names to inode numbers.             *)
(***************************************************************************)
EXTENDS Integers, Functions

CONSTANTS Name, Inode, NULL_REFERENCE

VARIABLES
  entries, \* the inode each name of the directory stands for
  ret      \* what the last call answered

vars == <<entries, ret>>

Answer(call, in, err) == [call |-> call, in |-> in, err |-> err]
Fails(call, errs) ==
  /\ \E err \in errs : ret' = Answer(call, NULL_REFERENCE, err)
  /\ UNCHANGED entries
Without(n) == Restrict(entries, DOMAIN entries \ {n})

Init == entries = <<>> /\ ret = Answer("none", NULL_REFERENCE, "OK")

\* The null reference for a name that is not there is no error.
Get(n) ==
  /\ ret' = Answer("get", IF n \in DOMAIN entries THEN entries[n] ELSE NULL_REFERENCE, "OK")
  /\ UNCHANGED entries

Add(n, in) ==
  IF n \in DOMAIN entries THEN Fails("add", {"EEXIST"})
  ELSE /\ entries' = [m \in DOMAIN entries \cup {n} |-> IF m = n THEN in ELSE entries[m]]
       /\ ret' = Answer("add", NULL_REFERENCE, "OK")

Delete(n) ==
  IF n \notin DOMAIN entries THEN Fails("delete", {"ENOENT"})
  ELSE entries' = Without(n) /\ ret' = Answer("delete", entries[n], "OK")

\* A name is renamed to itself whether it is there or not.
Rename(n, new) ==
  IF n = new
    THEN ret' = Answer("rename", NULL_REFERENCE, "OK") /\ UNCHANGED entries
  ELSE IF n \notin DOMAIN entries THEN Fails("rename", {"ENOENT", "EINVAL"})
  ELSE IF new \in DOMAIN entries THEN Fails("rename", {"EEXIST"})
  ELSE /\ entries' = [m \in (DOMAIN entries \ {n}) \cup {new} |->
                        IF m = new THEN entries[n] ELSE entries[m]]
       /\ ret' = Answer("rename", NULL_REFERENCE, "OK")

\* No permission, no space for the entry, or as many entries as there may be.
Refused ==
  \/ \E call \in {"add", "delete", "rename"} : Fails(call, {"EACCES"})
  \/ Fails("add", {"ENOSPC", "ENOMEM"})

Next ==
  \/ Refused
  \/ \E n \in Name : \/ Get(n) \/ Delete(n)
                     \/ \E in \in Inode : Add(n, in)
                     \/ \E new \in Name : Rename(n, new)

Spec == Init /\ [][Next]_vars
=============================================================================
