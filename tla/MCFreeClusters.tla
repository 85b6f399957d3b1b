--------------------------- MODULE MCFreeClusters ---------------------------
(* FreeClusters on a volume of a few clusters.  With caches of 2 references  *)
(* and 3 references and a link per cluster, a cluster is no multiple of a    *)
(* cache, as with the 50 and 127 of the program.                             *)
EXTENDS FreeClusters
=============================================================================
