------------------------------ MODULE MCMksofs ------------------------------
(***************************************************************************)
(* Small devices for the formatter: 2 inodes per block, 3 references per    *)
(* block, words of 6 bits, so that one, two and three reference clusters,   *)
(* full and partly filled, and inode tables larger than the device occur.   *)
(***************************************************************************)
EXTENDS Mksofs

MCDevices == 8 .. 20
MCInodeCounts == {0, 1, 3, 16, 40}
MCClusterSizes == 1 .. 3

MCTinyDevices == 2 .. 7
=============================================================================
