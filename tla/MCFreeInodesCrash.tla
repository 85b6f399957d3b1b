------------------------- MODULE MCFreeInodesCrash -------------------------
(* Five inodes, as for FreeInodes, and any number of crashes inside calls.   *)
EXTENDS FreeInodesCrash
=============================================================================
