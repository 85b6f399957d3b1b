----------------------------- MODULE InodePool -----------------------------
(***************************************************************************)
(* What soAllocInode and soFreeInode promise together, without lists: free  *)
(* inodes wait in a queue and are handed out in the order they were freed.  *)
(* The one departure from an ordinary pool is the code's own: once the      *)
(* queue has been emptied it never fills again, and inodes freed after that *)
(* are stranded: marked free and never handed out (FreeInodes explains).    *)
(***************************************************************************)
EXTENDS Integers, Sequences, Functions

CONSTANTS ITotal, NULL_REFERENCE

Inode == 0 .. ITotal - 1
Root == 0

VARIABLES
  queue,    \* inodes waiting to be allocated, first out first
  stranded, \* inodes freed since the queue ran empty
  held,     \* inodes allocated and not freed since
  ret       \* what the last call answered

vars == <<queue, stranded, held, ret>>

Answer(call, in, err) == [call |-> call, in |-> in, err |-> err]
NoAnswer == Answer("none", NULL_REFERENCE, "OK")

Init ==
  /\ queue = [n \in 1 .. ITotal - 1 |-> n]
  /\ stranded = {}
  /\ held = {}
  /\ ret = NoAnswer

Alloc ==
  /\ queue # <<>>
  /\ held' = held \cup {Head(queue)}
  /\ queue' = Tail(queue)
  /\ ret' = Answer("alloc", Head(queue), "OK")
  /\ UNCHANGED stranded

\* EINVAL betrays a free inode that cannot be reached.
AllocFails ==
  /\ queue = <<>>
  /\ \E err \in {"ENOSPC", "EINVAL"} :
       /\ err = "EINVAL" => stranded # {}
       /\ ret' = Answer("alloc", NULL_REFERENCE, err)
  /\ UNCHANGED <<queue, stranded, held>>

Free(in) ==
  /\ in \in held
  /\ held' = held \ {in}
  /\ IF queue = <<>>
       THEN stranded' = stranded \cup {in} /\ queue' = queue
       ELSE queue' = Append(queue, in) /\ stranded' = stranded
  /\ ret' = Answer("free", in, "OK")

FreeAgain(in) ==
  /\ in \in Range(queue) \cup stranded
  /\ ret' = Answer("free", in, "OK")
  /\ UNCHANGED <<queue, stranded, held>>

FreeFails(in) ==
  /\ in \notin Inode \ {Root}
  /\ ret' = Answer("free", in, "EINVAL")
  /\ UNCHANGED <<queue, stranded, held>>

\* A remount, or a call that is not about inodes.
OtherCall ==
  /\ ret' = NoAnswer
  /\ UNCHANGED <<queue, stranded, held>>

Next ==
  \/ Alloc \/ AllocFails \/ OtherCall
  \/ \E in \in 0 .. ITotal + 1 : Free(in) \/ FreeAgain(in) \/ FreeFails(in)

Spec == Init /\ [][Next]_vars
=============================================================================
