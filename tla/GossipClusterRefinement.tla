----------------------- MODULE GossipClusterRefinement -----------------------
(***************************************************************************)
(* GossipCluster implements ReplicatedCache.  The logs of the latter are   *)
(* nowhere in the cluster: a history variable records what each instance   *)
(* writes to its own part of the gossip state.                             *)
(***************************************************************************)
EXTENDS GossipCluster, Sequences, FiniteSetsExt

VARIABLE log  \* history: what each instance has published and some node still has

historyVars == <<vars, log>>

(* What a node's own replica of itself takes up, it has published; of the  *)
(* rest, what no replica has come to is lost.                              *)
MostSeen(i) == Max({kv[n][i].ver : n \in Nodes})

Recorded ==
  [i \in Instances |->
     IF kv'[i[1]][i].ver > kv[i[1]][i].ver THEN Append(log[i], kv'[i[1]][i].val)
                                           ELSE SubSeq(log[i], 1, MostSeen(i)')]

HistoryInit == Init /\ log = [i \in Instances |-> << >>]
HistoryNext == Next /\ log' = Recorded
HistorySpec == HistoryInit /\ [][HistoryNext]_historyVars
FairHistorySpec == HistorySpec /\ Fairness

(* The versions that a node holds are the entries that it has seen.        *)
Seen == [n \in Nodes |-> [i \in Instances |-> kv[n][i].ver]]
Owing == [n \in Nodes |-> pc[n] = "publish"]

Cluster == INSTANCE ReplicatedCache WITH
  life <- starts,
  seen <- Seen,
  owing <- Owing,
  copied <- synced,
  served <- cache

(* However messages are lost, delayed and relayed, nodes crash, come back  *)
(* or are taken for dead, and leadership changes hands between any two     *)
(* steps of a refresh: an instance alone writes its log, a replica is a    *)
(* beginning of it and never falls back, a node publishes only what it     *)
(* serves and only after a discovery of its own, and nobody copies from a  *)
(* node of greater id                                                      *)
(* (publish_cache, read_leader_cache, spawn_follower_sync,                 *)
(* main.rs:86 generation_id).                                              *)
ImplementsReplicatedCache == Cluster!Spec

-----------------------------------------------------------------------------
(* A replica is a beginning of the log of its instance, and some replica   *)
(* is all of it.                                                           *)
LogInv ==
  /\ log \in [Instances -> Seq(0..MaxWorld)]
  /\ \A i \in Instances :
       /\ \A n \in Nodes :
            /\ kv[n][i].ver <= Len(log[i])
            /\ kv[n][i].ver > 0 => kv[n][i].val = log[i][kv[n][i].ver]
       /\ \E n \in Nodes : kv[n][i].ver = Len(log[i])

(* A process that does not run holds nothing, and what a discovery has     *)
(* found is kept until it is installed, no longer.                         *)
AtRest ==
  /\ \A n \in Nodes \ up :
       /\ kv[n] = [i \in Instances |-> Unset]
       /\ cache[n] = 0 /\ synced[n] = 0 /\ ~asking[n] /\ ~serving[n]
  /\ \A n \in Nodes :
       /\ pc[n] = "install" <=> found[n] # 0
       /\ asking[n] => synced[n] = 0
=============================================================================
