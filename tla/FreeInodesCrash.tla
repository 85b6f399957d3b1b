-------------------------- MODULE FreeInodesCrash --------------------------
(***************************************************************************)
(* The list of free inodes when the machine may stop inside a call.         *)
(* soAllocInode writes the inode, then the superblock; soFreeInode writes   *)
(* the tail inode, the freed inode, then the superblock.  A crash keeps the *)
(* writes made so far and loses the superblock in memory; the next mount    *)
(* reads block 0 and repairs nothing.                                       *)
(*                                                                         *)
(* The callers of soFreeInode (soUnlink, soRmdir) have deleted the last     *)
(* name of the inode before they call, so nobody holds it after the crash.  *)
(***************************************************************************)
EXTENDS FreeInodes

Reboot ==
  /\ sb' = dsb
  /\ dsb' = dsb
  /\ ret' = NoAnswer

\* The inode is saved as in use, the superblock not.
CrashInAlloc ==
  /\ sb.ifree # 0
  /\ IOpens(sb.ihead)
  /\ free' = [free EXCEPT ![sb.ihead] = FALSE]
  /\ next' = [next EXCEPT ![sb.ihead] = Now]
  /\ UNCHANGED held
  /\ Reboot

\* The tail inode is saved, and with saved = 2 the freed one as well.
CrashInFree(in, saved) ==
  /\ ~ free[in]
  /\ IOpens(Anchored(in).itail)
  /\ IF saved = 1
       THEN /\ next' = [next EXCEPT ![Anchored(in).itail] = in]
            /\ UNCHANGED free
       ELSE /\ next' = [next EXCEPT ![Anchored(in).itail] = in,
                                    ![in] = NULL_REFERENCE]
            /\ free' = [free EXCEPT ![in] = TRUE]
  /\ held' = held \ {in}
  /\ Reboot

\* Callers free only what they hold.  (Without crashes that is HeldIsInUse;
\* with them an inode in use that nobody holds can be left behind.)
NextCrash ==
  \/ AllocNoSpace \/ AllocBadHead \/ AllocInode
  \/ \E in \in 0 .. ITotal + 1 : FreeInvalid(in) \/ FreeAlreadyFree(in)
  \/ \E in \in held : FreeInode(in)
  \/ SbSave \/ Remount
  \/ CrashInAlloc
  \/ \E in \in held, saved \in {1, 2} : CrashInFree(in, saved)

SpecCrash == Init /\ [][NextCrash]_vars

-----------------------------------------------------------------------------
\* Whatever a crash leaves behind, an inode somebody holds is not marked free.
\* (FreeInodes has the other property checked here, NoDoubleAlloc: half a call
\* never puts an inode in use where the list would hand it out again.)
HeldNotFree == \A in \in held : ~ free[in]
=============================================================================
