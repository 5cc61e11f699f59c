---------------------------- MODULE GossipCluster ----------------------------
(***************************************************************************)
(* Several ecs-sd processes in cluster mode.  The live node with the       *)
(* smallest node_id leads: it discovers and publishes its cache in its own *)
(* part of the gossip state, and the others copy the cache they read from  *)
(* the part of the node they believe to lead.                              *)
(*                                                                         *)
(* chitchat is external: of it the code uses live_nodes (view), the state  *)
(* it has replicated of every instance (kv), and its choice of a new       *)
(* generation for every start, so that a restarted node is a new instance  *)
(* with the old node_id.  Messages may be lost, delayed or duplicated,     *)
(* which all comes to a Gossip or Hear step that is late or never happens.  *)
(*                                                                         *)
(* A cache is the version of the world it was discovered in, 0 when empty; *)
(* the steps inside a refresh are those of CacheNode, with the churn guard *)
(* disabled, as it is by default.                                          *)
(***************************************************************************)
EXTENDS Integers, FiniteSets

CONSTANTS
  Nodes,          \* the node_ids; their order is that of the numbers
  MaxWorld,       \* bound: how many versions the world goes through
  MaxStarts,      \* bound: how often each node is started
  MaxSuspicions,  \* bound: live nodes wrongly taken for dead
  MaxFailures,    \* bound: discoveries that fail
  MixFaults       \* bound: whether crashes come together with the former two

Instances == Nodes \X (1..MaxStarts)
Versions  == 1..MaxWorld

ASSUME ConstantsAssumption ==
  /\ Nodes \subseteq Int /\ Nodes # {} /\ IsFiniteSet(Nodes)
  /\ MaxWorld \in Nat \ {0} /\ MaxStarts \in Nat \ {0}
  /\ MaxSuspicions \in Nat /\ MaxFailures \in Nat /\ MixFaults \in BOOLEAN

VARIABLES
  world,      \* AWS: the version of the set of running targets
  suspicions, \* how often a live node was taken for dead (bounded)
  failures,   \* discoveries that failed so far (bounded)
  starts,     \* how often each node has been started: its generation_id
  up,         \* the processes that run
  view,       \* Chitchat::live_nodes of each node
  kv,         \* the gossip state each node holds of each instance
  pc,         \* the background task of each node, start-up included
  found,      \* what its discovery has found
  asking,     \* its follower sync has found another leader, and is to read
  synced,     \* what its follower sync has read, 0 between two syncs
  cache,      \* the snapshot of each node
  serving     \* start-up is over

vars == <<world, suspicions, failures, starts, up, view, kv, pc, found, asking,
          synced, cache, serving>>
local == <<pc, found, asking, synced, cache, serving>>
outside == <<world, suspicions, failures, starts, up>>

-----------------------------------------------------------------------------
(* The k-th start of a node has a generation_id of its own; in the faulty  *)
(* variants it is a constant, or taken before the start is counted.        *)
FixedGeneration(k) == 1
GenerationBefore(k) == k - 1
GenerationOf(k) == k

Self(n) == <<n, GenerationOf(starts[n])>>
Unset == [ver |-> 0, val |-> 0]

LiveIds(n) == {i[1] : i \in view[n]}

(* is_leader: the smallest node_id among the live nodes is mine.  The      *)
(* faulty variant also counts the nodes known only from their state.       *)
ElectsKnown(n) == \A i \in Instances : i \in view[n] \/ kv[n][i] # Unset => n <= i[1]
IsLeader(n) == \A m \in LiveIds(n) : n <= m

(* read_leader_cache: min_by_key over live_nodes, which starts with the    *)
(* node itself; of two instances of one node_id it may take either.  The   *)
(* faulty variant reads the node's own state.                              *)
ReadsSelf(n) == {Self(n)}
LeaderInstances(n) ==
  IF IsLeader(n) THEN {Self(n)} ELSE {i \in view[n] : \A m \in LiveIds(n) : i[1] <= m}

Init ==
  /\ world = 1
  /\ suspicions = 0
  /\ failures = 0
  /\ starts = [n \in Nodes |-> 0]
  /\ up = {}
  /\ view = [n \in Nodes |-> {}]
  /\ kv = [n \in Nodes |-> [i \in Instances |-> Unset]]
  /\ pc = [n \in Nodes |-> "off"]
  /\ found = [n \in Nodes |-> 0]
  /\ asking = [n \in Nodes |-> FALSE]
  /\ synced = [n \in Nodes |-> 0]
  /\ cache = [n \in Nodes |-> 0]
  /\ serving = [n \in Nodes |-> FALSE]

-----------------------------------------------------------------------------
(* The environment: AWS, crashes, and the gossip protocol *)

WorldChanges ==
  /\ world < MaxWorld
  /\ world' = world + 1
  /\ UNCHANGED <<suspicions, failures, starts, up, view, kv, local>>

(* spawn_chitchat: a fresh generation that knows nobody but itself. *)
Start(n) ==
  /\ n \notin up /\ starts[n] < MaxStarts
  /\ up' = up \cup {n}
  /\ starts' = [starts EXCEPT ![n] = @ + 1]
  /\ view' = [view EXCEPT ![n] = {<<n, GenerationOf(starts[n] + 1)>>}]
  /\ pc' = [pc EXCEPT ![n] = "boot"]
  /\ UNCHANGED <<world, suspicions, failures, kv, found, asking, synced, cache, serving>>

(* The bound on the kinds of faults in one behaviour. *)
MayCrash == MixFaults \/ suspicions + failures = 0
MayMisjudge == MixFaults \/ \A n \in Nodes : starts[n] <= 1 /\ (starts[n] = 1 => n \in up)

(* Everything a process holds is lost with it. *)
Crash(n) ==
  /\ n \in up /\ starts[n] < MaxStarts /\ MayCrash
  /\ up' = up \ {n}
  /\ view' = [view EXCEPT ![n] = {}]
  /\ kv' = [kv EXCEPT ![n] = [i \in Instances |-> Unset]]
  /\ pc' = [pc EXCEPT ![n] = "off"]
  /\ found' = [found EXCEPT ![n] = 0]
  /\ asking' = [asking EXCEPT ![n] = FALSE]
  /\ synced' = [synced EXCEPT ![n] = 0]
  /\ cache' = [cache EXCEPT ![n] = 0]
  /\ serving' = [serving EXCEPT ![n] = FALSE]
  /\ UNCHANGED <<world, suspicions, failures, starts>>

Running(i) == i[1] \in up /\ i = Self(i[1])

Hear(n, i) ==
  /\ n \in up /\ Running(i) /\ i \notin view[n]
  /\ view' = [view EXCEPT ![n] = @ \cup {i}]
  /\ UNCHANGED <<outside, kv, local>>

(* The failure detector: right about the instances that are gone, and now  *)
(* and then wrong about one that runs.                                     *)
Bury(n, i) ==
  /\ n \in up /\ i \in view[n] /\ ~Running(i)
  /\ view' = [view EXCEPT ![n] = @ \ {i}]
  /\ UNCHANGED <<outside, kv, local>>

Suspect(n, i) ==
  /\ n \in up /\ i \in view[n] /\ i # Self(n) /\ Running(i)
  /\ suspicions < MaxSuspicions /\ MayMisjudge
  /\ suspicions' = suspicions + 1
  /\ view' = [view EXCEPT ![n] = @ \ {i}]
  /\ UNCHANGED <<world, failures, starts, up, kv, local>>

(* n receives from m what m holds of instance i, if it is newer.  What its *)
(* own earlier generations published, n never looks at.                    *)
Gossip(n, m, i) ==
  /\ {n, m} \subseteq up /\ i[1] # n
  /\ kv[m][i].ver > kv[n][i].ver
  /\ kv' = [kv EXCEPT ![n][i] = kv[m][i]]
  /\ UNCHANGED <<outside, view, local>>

Network(n) ==
  \E i \in Instances : Hear(n, i) \/ Bury(n, i) \/ \E m \in Nodes : Gossip(n, m, i)

-----------------------------------------------------------------------------
(* The background task: start-up, then the refresh loop *)

Goto(n, s) == pc' = [pc EXCEPT ![n] = s]

(* main asks is_leader once, right after AppState::new. *)
Boot(n) ==
  /\ pc[n] = "boot"
  /\ IF IsLeader(n) THEN Goto(n, "discover") /\ serving' = serving
                    ELSE Goto(n, "idle") /\ serving' = [serving EXCEPT ![n] = TRUE]
  /\ UNCHANGED <<outside, view, kv, found, asking, synced, cache>>

(* A tick of the refresh loop, and the jittered sleep after it: leadership *)
(* is not looked at again when the sleep is over.                          *)
Tick(n) ==
  /\ pc[n] = "idle"
  /\ IsLeader(n)
  /\ Goto(n, "discover")
  /\ UNCHANGED <<outside, view, kv, found, asking, synced, cache, serving>>

Discover(n) ==
  /\ pc[n] = "discover"
  /\ found' = [found EXCEPT ![n] = world]
  /\ Goto(n, "install")
  /\ UNCHANGED <<outside, view, kv, asking, synced, cache, serving>>

DiscoveryFails(n) ==
  /\ pc[n] = "discover"
  /\ failures < MaxFailures /\ MayMisjudge
  /\ failures' = failures + 1
  /\ serving' = [serving EXCEPT ![n] = TRUE]
  /\ Goto(n, "idle")
  /\ UNCHANGED <<world, suspicions, starts, up, view, kv, found, asking, synced, cache>>

Install(n) ==
  /\ pc[n] = "install"
  /\ cache' = [cache EXCEPT ![n] = found[n]]
  /\ found' = [found EXCEPT ![n] = 0]
  /\ Goto(n, "publish")
  /\ UNCHANGED <<outside, view, kv, asking, synced, serving>>

(* publish_cache sets the key of this instance; a value that has not       *)
(* changed is not a new version to chitchat.                               *)
Publication(old, c) == IF old.val = c THEN old ELSE [ver |-> old.ver + 1, val |-> c]

(* What is published is the snapshot in force by then. *)
Published(n) == Publication(kv[n][Self(n)], cache[n])

Publish(n) ==
  /\ pc[n] = "publish"
  /\ kv' = [kv EXCEPT ![n][Self(n)] = Published(n)]
  /\ serving' = [serving EXCEPT ![n] = TRUE]
  /\ Goto(n, "idle")
  /\ UNCHANGED <<outside, view, found, asking, synced, cache>>

Background(n) ==
  Boot(n) \/ Tick(n) \/ Discover(n) \/ Install(n) \/ Publish(n)

-----------------------------------------------------------------------------
(* The follower sync *)

(* A tick on a follower asks for the leader's key. *)
SyncTick(n) ==
  /\ serving[n] /\ ~asking[n] /\ synced[n] = 0
  /\ ~IsLeader(n)
  /\ asking' = [asking EXCEPT ![n] = TRUE]
  /\ UNCHANGED <<outside, view, kv, pc, found, synced, cache, serving>>

(* It reads it under a lock of its own: by then this node may be the one   *)
(* that leads.  An absent key ends the sync; a present one waits for the   *)
(* locks of the replacement, which comes later.                            *)
SyncRead(n) ==
  /\ asking[n]
  /\ asking' = [asking EXCEPT ![n] = FALSE]
  /\ \E i \in LeaderInstances(n) : synced' = [synced EXCEPT ![n] = kv[n][i].val]
  /\ UNCHANGED <<outside, view, kv, pc, found, cache, serving>>

SyncInstall(n) ==
  /\ synced[n] # 0
  /\ cache' = [cache EXCEPT ![n] = synced[n]]
  /\ synced' = [synced EXCEPT ![n] = 0]
  /\ UNCHANGED <<outside, view, kv, pc, found, asking, serving>>

FollowerSync(n) == SyncTick(n) \/ SyncRead(n) \/ SyncInstall(n)

-----------------------------------------------------------------------------
Next ==
  \/ WorldChanges
  \/ \E n \in Nodes :
       \/ Start(n) \/ Crash(n) \/ DiscoveryFails(n)
       \/ Network(n) \/ \E i \in Instances : Suspect(n, i)
       \/ Background(n) \/ FollowerSync(n)

(* chitchat keeps gossiping every second with every seed, and its failure  *)
(* detector reports a silent node: while there is something to hear,       *)
(* somebody hears it in the end.  tokio polls the two loops of each node.  *)
(* Nothing makes a node start, crash or be suspected, or the world change. *)
Fairness ==
  /\ WF_vars(\E n \in Nodes : Network(n))
  /\ \A n \in Nodes : WF_vars(Background(n)) /\ WF_vars(FollowerSync(n))

Spec == Init /\ [][Next]_vars
FairSpec == Spec /\ Fairness

-----------------------------------------------------------------------------
(* Properties *)

TypeOK ==
  /\ world \in Versions
  /\ suspicions \in 0..MaxSuspicions /\ failures \in 0..MaxFailures
  /\ starts \in [Nodes -> 0..MaxStarts]
  /\ up \subseteq Nodes
  /\ view \in [Nodes -> SUBSET Instances]
  /\ kv \in [Nodes -> [Instances -> [ver : Nat, val : 0..MaxWorld]]]
  /\ pc \in [Nodes -> {"off", "boot", "idle", "discover", "install", "publish"}]
  /\ found \in [Nodes -> 0..MaxWorld]
  /\ asking \in [Nodes -> BOOLEAN]
  /\ synced \in [Nodes -> 0..MaxWorld]
  /\ cache \in [Nodes -> 0..MaxWorld]
  /\ serving \in [Nodes -> BOOLEAN]

(* What the nodes hold of one instance are states that instance published: *)
(* nobody holds a version newer than its owner's, which would make the     *)
(* owner's next publication unseen, and one version has one value, also    *)
(* when a node that had published comes back with an empty state under its *)
(* old node_id (main.rs:86 generation_id).                                 *)
ReplicasFollowOwner ==
  /\ \A n \in up, m \in Nodes : kv[m][Self(n)].ver <= kv[n][Self(n)].ver
  /\ \A n, m \in Nodes, i \in Instances :
       kv[n][i].ver = kv[m][i].ver => kv[n][i].val = kv[m][i].val

Leaders == {n \in up : IsLeader(n)}
Smallest(n) == n \in up /\ \A m \in up : n <= m

(* Once starts, crashes and suspicions are over, exactly the smallest      *)
(* running node leads, for good: a dead leader is replaced and no node     *)
(* with a newer generation of itself is left waiting.                      *)
OneLeader == <>[](Leaders = {n \in up : Smallest(n)})

(* Once the world is at rest every running node serves it: through its own *)
(* refreshes or through what its leader publishes, after any failover and  *)
(* whatever was stale in the gossip state at that time.                    *)
AllConverge == <>[](\A n \in up : cache[n] = world)

(* Start-up discovery is the leader's alone (main.rs:142): a node whose     *)
(* start-up goes on to discover is the smallest of the processes that run. *)
LeaderAloneDiscoversAtBoot ==
  [][\A n \in Nodes : pc[n] = "boot" /\ pc'[n] = "discover" => Smallest(n)]_vars

-----------------------------------------------------------------------------
(* Inductive invariant *)

(* ReplicasFollowOwner, with what keeps it: only processes that have been  *)
(* started publish, a generation that is yet to start is unknown           *)
(* everywhere, and version 0 is no value at all.                           *)
ReplicationInv ==
  /\ ReplicasFollowOwner
  /\ \A n \in Nodes : pc[n] # "off" => n \in up
  /\ \A n \in up : starts[n] > 0
  /\ \A m \in Nodes, i \in Instances :
       /\ i[2] > starts[i[1]] => kv[m][i] = Unset
       /\ kv[m][i].ver = 0 => kv[m][i] = Unset

=============================================================================
