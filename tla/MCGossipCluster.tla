--------------------------- MODULE MCGossipCluster ---------------------------
(* GossipCluster for TLC.  The nodes are numbers: their order is the point. *)
EXTENDS GossipClusterRefinement
=============================================================================
