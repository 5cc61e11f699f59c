----------------------------- MODULE MCCacheNode -----------------------------
(* CacheNode for TLC: three targets, two of them on one host address, in   *)
(* two clusters, so that a cluster can shrink, vanish and come back.       *)
EXTENDS CacheNodeRefinement, TLC

CONSTANTS t1, t2, t3, c1, c2, h1, h2

MCTargets == {t1, t2, t3}
MCClusters == {c1, c2}
MCClusterOf == t1 :> c1 @@ t2 :> c1 @@ t3 :> c2
MCAddrOf == t1 :> "a1" @@ t2 :> "a2" @@ t3 :> "a3"
MCSharedAddrOf == t1 :> "a1" @@ t2 :> "a1" @@ t3 :> "a3"
MCClusterSeq == <<c1, c2>>

(* One target per cluster, for the runs with several workers. *)
SmallTargets == {t1, t3}
SmallClusterOf == t1 :> c1 @@ t3 :> c2
SmallAddrOf == t1 :> "a1" @@ t3 :> "a3"

(* A single cluster with two targets, where only the order of the workers  *)
(* matters.                                                                *)
OneCluster == {c1}
OneClusterTargets == {t1, t2}
OneClusterOf == t1 :> c1 @@ t2 :> c1
OneClusterAddrOf == t1 :> "a1" @@ t2 :> "a2"
OneClusterSeq == <<c1>>

(* Any call of AWS may fail, a cluster's or a target's own. *)
AnyCall == Clusters \cup Targets
(* Bounds for the larger runs: of the targets, only t1's own calls fail.   *)
SomeCalls == {c1, c2, t1}
FirstCalls == {c1, t1}
=============================================================================
