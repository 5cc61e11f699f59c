---------------------------- MODULE MCHealthProbe ----------------------------
(* HealthProbe for TLC, with the targets and clusters of MCCacheNode. *)
EXTENDS HealthProbe, MCCacheNode
=============================================================================
